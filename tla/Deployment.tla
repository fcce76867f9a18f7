----------------------------- MODULE Deployment -----------------------------
(***************************************************************************)
(* Deployment: runs of scripts/cicd.sh (pipelines) and scripts/iac_create  *)
(* (provisioners), the Terraform state they share, and the ECS service     *)
(* that replaces its task while a pipeline's monitor watches.              *)
(*                                                                         *)
(* Image tags are seconds, numbered as they come, and 0 is the tag         *)
(* "placeholder".  Deployments are numbered; the last is PRIMARY.  The     *)
(* service declares no deployment circuit breaker, so a rollout is never   *)
(* FAILED, and wants one task.                                             *)
(***************************************************************************)
EXTENDS Naturals, Sequences, FiniteSets

CONSTANTS
    Pipelines,     \* runs of cicd.sh
    Provisioners,  \* runs of iac_create.sh
    Placeholder,   \* the image nginx:alpine
    Nobody,        \* no image; no holder of the lock
    MaxRetries,    \* MAX_RETRIES
    MaxScripts     \* bound: scripts that run

Scripts == Pipelines \cup Provisioners
Tags == 0..Cardinality(Pipelines)
Ids == 1..(Cardinality(Scripts) + 1)

ASSUME ScriptsAssumption == IsFiniteSet(Scripts) /\ Pipelines \cap Provisioners = {}
ASSUME NamesAssumption == Placeholder # Nobody /\ {Placeholder, Nobody} \cap Scripts = {}
ASSUME RetriesAssumption == MaxRetries \in Nat
ASSUME BoundAssumption == MaxScripts \in Nat

VARIABLES
    registry,     \* what ECR has under a tag: the pipeline that built it, or nginx
    lock,         \* holder of the Terraform state lock
    deployments,  \* the tags of the service's deployments, oldest first
    task,         \* the task of a deployment
    image,        \* the image the task pulled
    completed,    \* deployments whose rollout has completed
    stopped,      \* deployments with a task that failed
    pc,           \* a script's next step, or how it exited
    tag,          \* TAG
    applied,      \* the PRIMARY deployment when the script's apply was done
    deploymentId, \* DEPLOYMENT_ID; 0 if it could not be read
    retries,      \* RETRIES
    seen          \* SERVICE_INFO: what the monitor last saw of the PRIMARY deployment

serviceVars == <<deployments, task, image, completed, stopped>>
monitorVars == <<deploymentId, retries, seen>>
vars == <<registry, lock, serviceVars, pc, tag, applied, monitorVars>>

Primary == Len(deployments)
Nothing == [id |-> 0, completed |-> FALSE, running |-> FALSE, image |-> Nobody]
Exits == {"succeeded", "provisioned", "failed", "taskFailed", "timedOut"}

\* A first run of iac_create.sh has made the service, with the placeholder.
Init ==
    /\ registry = [t \in Tags |-> IF t = 0 THEN Placeholder ELSE Nobody]
    /\ lock = Nobody
    /\ deployments = <<0>>
    /\ task = [d \in Ids |-> "none"]
    /\ image = [d \in Ids |-> Nobody]
    /\ completed = {} /\ stopped = {}
    /\ pc = [s \in Scripts |-> "start"]
    /\ tag = [s \in Scripts |-> 0]
    /\ applied = [s \in Scripts |-> 0]
    /\ deploymentId = [p \in Pipelines |-> 0]
    /\ retries = [p \in Pipelines |-> 0]
    /\ seen = [p \in Pipelines |-> Nothing]

GoTo(s, step) == pc' = [pc EXCEPT ![s] = step]

-----------------------------------------------------------------------------
(***************************************************************************)
(* Until the deployment.                                                   *)
(***************************************************************************)

Starts(s) == pc[s] = "start" /\ Cardinality({r \in Scripts : pc[r] # "start"}) < MaxScripts

\* The tools and the service are there; the build takes its tag, the second
\* the latest build has, or a later one.
Check(p) ==
    /\ Starts(p)
    /\ \E t \in 1..Cardinality(Pipelines) :
        /\ \A q \in Pipelines : tag[q] <= t
        /\ \E q \in Pipelines : t \in {tag[q], tag[q] + 1}
        /\ tag' = [tag EXCEPT ![p] = t]
    /\ GoTo(p, "build")
    /\ UNCHANGED <<registry, lock, serviceVars, applied, monitorVars>>

\* jib:build pushes the image; Maven may fail even then.
Build(p) ==
    /\ pc[p] = "build"
    /\ registry' = [registry EXCEPT ![tag[p]] = p]
    /\ GoTo(p, "verify") \/ GoTo(p, "failed")
    /\ UNCHANGED <<lock, serviceVars, tag, applied, monitorVars>>

\* The digest in ECR is the one in target/jib-image.digest: of this run's
\* build, or of that of another one in the same checkout.
Verify(p) ==
    /\ pc[p] = "verify"
    /\ registry[tag[p]] \in Pipelines
    /\ GoTo(p, "apply")
    /\ UNCHANGED <<registry, lock, serviceVars, tag, applied, monitorVars>>

\* iac_create.sh: terraform apply -target=module.ecr, docker push.
PushPlaceholder(i) ==
    /\ Starts(i)
    /\ lock = Nobody
    /\ registry' = [registry EXCEPT ![0] = Placeholder]
    /\ GoTo(i, "apply")
    /\ UNCHANGED <<lock, serviceVars, tag, applied, monitorVars>>

\* terraform apply -var="container_image=..." under the state lock: another
\* image makes another deployment.
Apply(s) ==
    /\ pc[s] = "apply"
    /\ lock = Nobody
    /\ lock' = s
    /\ deployments' = IF deployments[Primary] = tag[s]
                      THEN deployments ELSE Append(deployments, tag[s])
    /\ applied' = [applied EXCEPT ![s] = Len(deployments')]
    /\ GoTo(s, "applying")
    /\ UNCHANGED <<registry, task, image, completed, stopped, tag, monitorVars>>

\* The apply ends, or fails with the service updated already.
ApplyEnds(s) ==
    /\ pc[s] = "applying"
    /\ lock' = Nobody
    /\ \/ GoTo(s, IF s \in Pipelines THEN "readId" ELSE "bridges")
       \/ GoTo(s, "failed")
    /\ UNCHANGED <<registry, serviceVars, tag, applied, monitorVars>>

\* iac_create.sh: a last apply, which leaves the service alone.
SyncBridges(i) ==
    /\ pc[i] = "bridges"
    /\ lock = Nobody
    /\ GoTo(i, "provisioned")
    /\ UNCHANGED <<registry, lock, serviceVars, tag, applied, monitorVars>>

\* A command fails, be it that the lock is taken, and the script exits.
Fail(s) ==
    /\ Starts(s) \/ pc[s] \in {"build", "verify", "apply", "bridges"}
    /\ GoTo(s, "failed")
    /\ UNCHANGED <<registry, lock, serviceVars, tag, applied, monitorVars>>

-----------------------------------------------------------------------------
(***************************************************************************)
(* The monitor of cicd.sh.                                                 *)
(***************************************************************************)

\* "Get the new Deployment ID to monitor": that of the PRIMARY deployment,
\* whoever made it, or none if the call fails.
ReadId(p) ==
    /\ pc[p] = "readId"
    /\ \E id \in {0, Primary} : deploymentId' = [deploymentId EXCEPT ![p] = id]
    /\ GoTo(p, "describe")
    /\ UNCHANGED <<registry, lock, serviceVars, tag, applied, retries, seen>>

Running(d) == task[d] \in {"running", "healthy"}

\* Faulty variant: -le for -lt.
DescribeOnceMore(p) ==
    /\ pc[p] = "describe"
    /\ retries[p] <= MaxRetries
    /\ seen' = [seen EXCEPT ![p] = [id        |-> Primary,
                                    completed |-> Primary \in completed,
                                    running   |-> Running(Primary),
                                    image     |-> image[Primary]]]
    /\ GoTo(p, "tasks")
    /\ UNCHANGED <<registry, lock, serviceVars, tag, applied, deploymentId, retries>>

Describe(p) ==
    /\ pc[p] = "describe"
    /\ retries[p] < MaxRetries
    /\ seen' = [seen EXCEPT ![p] = [id        |-> Primary,
                                    completed |-> Primary \in completed,
                                    running   |-> Running(Primary),
                                    image     |-> image[Primary]]]
    /\ GoTo(p, "tasks")
    /\ UNCHANGED <<registry, lock, serviceVars, tag, applied, deploymentId, retries>>

DescribeFails(p) ==
    /\ pc[p] = "describe"
    /\ retries[p] < MaxRetries
    /\ retries' = [retries EXCEPT ![p] = @ + 1]
    /\ UNCHANGED <<registry, lock, serviceVars, pc, tag, applied, deploymentId, seen>>

\* Faulty variant: failed tasks of any deployment count.
FailFastOnAny(p) ==
    /\ pc[p] = "tasks"
    /\ stopped # {}
    /\ GoTo(p, "taskFailed")
    /\ UNCHANGED <<registry, lock, serviceVars, tag, applied, monitorVars>>

\* A stopped task that DEPLOYMENT_ID started has failed.
FailFast(p) ==
    /\ pc[p] = "tasks"
    /\ deploymentId[p] \in stopped
    /\ GoTo(p, "taskFailed")
    /\ UNCHANGED <<registry, lock, serviceVars, tag, applied, monitorVars>>

\* Faulty variant: a running task is enough.
StableWhenRunning(p) ==
    /\ pc[p] = "tasks"
    /\ seen[p].running
    /\ GoTo(p, "succeeded")
    /\ UNCHANGED <<registry, lock, serviceVars, tag, applied, monitorVars>>

\* No failed task was found, which an error of list-tasks or describe-tasks
\* looks like as well, and the service was COMPLETED with its task running.
Stable(p) ==
    /\ pc[p] = "tasks"
    /\ seen[p].completed /\ seen[p].running
    /\ GoTo(p, "succeeded")
    /\ UNCHANGED <<registry, lock, serviceVars, tag, applied, monitorVars>>

KeepWatching(p) ==
    /\ pc[p] = "tasks"
    /\ ~(seen[p].completed /\ seen[p].running)
    /\ retries' = [retries EXCEPT ![p] = @ + 1]
    /\ seen' = [seen EXCEPT ![p] = Nothing]
    /\ GoTo(p, "describe")
    /\ UNCHANGED <<registry, lock, serviceVars, tag, applied, deploymentId>>

TimeOut(p) ==
    /\ pc[p] = "describe"
    /\ retries[p] = MaxRetries
    /\ GoTo(p, "timedOut")
    /\ UNCHANGED <<registry, lock, serviceVars, tag, applied, monitorVars>>

-----------------------------------------------------------------------------
(***************************************************************************)
(* ECS.                                                                    *)
(***************************************************************************)
SetTask(d, state) == task' = [task EXCEPT ![d] = state]
scriptVars == <<registry, lock, deployments, pc, tag, applied, monitorVars>>

\* Faulty variant: the task definition names the tag "latest".
StartTaskLatest ==
    /\ task[Primary] = "none"
    /\ SetTask(Primary, "running")
    /\ \E t \in Tags :
          /\ registry[t] # Nobody /\ \A u \in Tags : registry[u] # Nobody => u <= t
          /\ image' = [image EXCEPT ![Primary] = registry[t]]
    /\ UNCHANGED <<scriptVars, completed, stopped>>

\* A task of the PRIMARY deployment starts: it pulls what its tag is now.
StartTask ==
    /\ task[Primary] = "none"
    /\ SetTask(Primary, "running")
    /\ image' = [image EXCEPT ![Primary] = registry[deployments[Primary]]]
    /\ UNCHANGED <<scriptVars, completed, stopped>>

\* Faulty variant: no health check, a running task is taken for healthy.
TaskHealthyUnchecked(d) ==
    /\ task[d] = "running"
    /\ SetTask(d, "healthy")
    /\ UNCHANGED <<scriptVars, image, completed, stopped>>

\* The health check of the container succeeds; nginx has none to answer it.
TaskHealthy(d) ==
    /\ task[d] = "running" /\ image[d] # Placeholder
    /\ SetTask(d, "healthy")
    /\ UNCHANGED <<scriptVars, image, completed, stopped>>

\* The container exits (say, Flyway cannot log in), runs out of memory, or
\* fails its health check.
TaskFails(d) ==
    /\ task[d] # "none"
    /\ SetTask(d, "none")
    /\ image' = [image EXCEPT ![d] = Nobody]
    /\ stopped' = stopped \cup {d}
    /\ UNCHANGED <<scriptVars, completed>>

\* A task of an earlier deployment is stopped once the new one is healthy.
Drain(d) ==
    /\ d # Primary /\ task[d] # "none" /\ task[Primary] = "healthy"
    /\ SetTask(d, "none")
    /\ image' = [image EXCEPT ![d] = Nobody]
    /\ UNCHANGED <<scriptVars, completed, stopped>>

Complete ==
    /\ Primary \notin completed
    /\ task[Primary] = "healthy" /\ \A d \in Ids \ {Primary} : task[d] = "none"
    /\ completed' = completed \cup {Primary}
    /\ UNCHANGED <<scriptVars, task, image, stopped>>

-----------------------------------------------------------------------------
Monitor(p) == Describe(p) \/ DescribeFails(p) \/ FailFast(p) \/ Stable(p) \/ KeepWatching(p) \/ TimeOut(p)
Pipeline(p) == Check(p) \/ Build(p) \/ Verify(p) \/ ReadId(p) \/ Monitor(p)
Provisioner(i) == PushPlaceholder(i) \/ SyncBridges(i)
Common(s) == Apply(s) \/ ApplyEnds(s) \/ Fail(s)

Next ==
    \/ \E p \in Pipelines : Pipeline(p)
    \/ \E i \in Provisioners : Provisioner(i)
    \/ \E s \in Scripts : Common(s)
    \/ \E d \in Ids : TaskHealthy(d) \/ TaskFails(d) \/ Drain(d)
    \/ StartTask
    \/ Complete

Spec == Init /\ [][Next]_vars

-----------------------------------------------------------------------------
Images == Pipelines \cup {Placeholder, Nobody}

TypeOK ==
    /\ registry \in [Tags -> Images]
    /\ lock \in Scripts \cup {Nobody}
    /\ deployments \in Seq(Tags) /\ Primary \in Ids
    /\ task \in [Ids -> {"none", "running", "healthy"}]
    /\ image \in [Ids -> Images]
    /\ completed \subseteq 1..Primary /\ stopped \subseteq 1..Primary
    /\ pc \in [Scripts -> {"start", "build", "verify", "apply", "applying", "readId", "bridges",
                           "describe", "tasks"} \cup Exits]
    /\ tag \in [Scripts -> Tags]
    /\ applied \in [Scripts -> 0..Primary]
    /\ deploymentId \in [Pipelines -> 0..Primary]
    /\ retries \in [Pipelines -> 0..MaxRetries]
    /\ seen \in [Pipelines -> [id : 0..Primary, completed : BOOLEAN, running : BOOLEAN, image : Images]]

\* cicd.sh reports success only after a rollout that is its own or a later one
\* has completed: never on the strength of the deployment it was to replace,
\* nor while the new task is still starting.
SuccessAfterRollout ==
    \A p \in Pipelines : pc[p] = "succeeded" =>
        \E d \in completed : d >= applied[p]

\* However iac_create.sh and cicd.sh run beside each other, no monitor takes
\* the placeholder for an application that is live.
PlaceholderNeverLive ==
    \A p \in Pipelines : pc[p] = "succeeded" => seen[p].image \in Pipelines

\* cicd.sh:164 "failed tasks only from the CURRENT deployment": a monitor that
\* fails fast has a failed task of its own deployment, or of one that has
\* replaced it, to show, and never one of a deployment from before its apply.
NoFalseAlarm ==
    \A p \in Pipelines : pc[p] = "taskFailed" => \E d \in stopped : d >= applied[p]

\* What a verified digest and a tag of seconds are worth: a pipeline that sees
\* the deployment of its tag stable sees its own image run, unless another one
\* has built in the same second.
OwnImageUnlessSharedTag ==
    \A p \in Pipelines :
        pc[p] = "succeeded" /\ deployments[seen[p].id] = tag[p] =>
            \/ seen[p].image = p
            \/ \E q \in Pipelines \ {p} : tag[q] = tag[p]

-----------------------------------------------------------------------------
\* cicd.sh:231 "Deployment is LIVE and STABLE": the deployment a pipeline saw
\* stable when it reported success is one of its own image's tag.
ReportedDeploymentIsLive ==
    \A p \in Pipelines : pc[p] = "succeeded" => deployments[seen[p].id] = tag[p]
=============================================================================
