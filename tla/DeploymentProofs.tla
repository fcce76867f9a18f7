-------------------------- MODULE DeploymentProofs --------------------------
(***************************************************************************)
(* Proofs about Deployment, for any scripts and any number of rounds of    *)
(* the monitor: what a verdict of the monitor says about the deployments   *)
(* since the script's own apply, and about the image that runs.            *)
(***************************************************************************)
EXTENDS Deployment, FiniteSetTheorems, TLAPS

\* The types the proofs need.  Of pc and seen it is their domains: what the
\* invariant says of their values does not rest on a type.
Types ==
    /\ deployments \in Seq(Nat) /\ tag \in [Scripts -> Nat]
    /\ DOMAIN pc = Scripts
    /\ applied \in [Scripts -> Nat]
    /\ deploymentId \in [Pipelines -> Nat]
    /\ DOMAIN seen = Pipelines
    /\ stopped \subseteq Nat \ {0}

\* Deployments are only added, so what a script has applied is not later than
\* the PRIMARY deployment.
AppliedInThePast == \A s \in Scripts : applied[s] <= Primary

\* A script learns nothing of the service before its apply is done...
BeforeMonitor == {"start", "build", "verify", "apply", "applying", "readId"}

IgnorantBefore ==
    \A p \in Pipelines : pc[p] \in BeforeMonitor =>
        deploymentId[p] = 0 /\ seen[p].completed = FALSE

\* ...and then only of deployments since.
KnowsWhatFollowed ==
    \A p \in Pipelines :
        /\ deploymentId[p] = 0 \/ deploymentId[p] >= applied[p]
        /\ seen[p].completed => seen[p].id \in completed /\ seen[p].id >= applied[p]

IInv ==
    /\ Types
    /\ AppliedInThePast
    /\ IgnorantBefore
    /\ KnowsWhatFollowed
    /\ SuccessAfterRollout
    /\ NoFalseAlarm

-----------------------------------------------------------------------------
\* The service has one deployment, no script has begun.
LEMMA InitInductive == Init => IInv
  <1> SUFFICES ASSUME Init  PROVE IInv
    OBVIOUS
  <1>1. Types
    <2>1. deployments \in Seq(Nat) /\ stopped \subseteq Nat \ {0}
      BY DEF Init
    <2>2. tag \in [Scripts -> Nat] /\ applied \in [Scripts -> Nat]
      BY DEF Init
    <2>5. DOMAIN pc = Scripts
      <3>1. pc = [s \in Scripts |-> "start"]
        BY DEF Init
      <3> QED  BY <3>1
    <2>3. deploymentId \in [Pipelines -> Nat]
      BY DEF Init
    <2>4. DOMAIN seen = Pipelines
      <3>1. seen = [p \in Pipelines |-> Nothing]
        BY DEF Init
      <3> QED  BY <3>1
    <2> QED  BY <2>1, <2>2, <2>3, <2>4, <2>5 DEF Types
  <1>2. AppliedInThePast
    BY DEF Init, AppliedInThePast, Primary
  <1>3. IgnorantBefore /\ KnowsWhatFollowed
    BY DEF Init, IgnorantBefore, KnowsWhatFollowed, Nothing
  <1>4. SuccessAfterRollout /\ NoFalseAlarm
    BY DEF Init, SuccessAfterRollout, NoFalseAlarm, Scripts
  <1> QED  BY <1>1, <1>2, <1>3, <1>4 DEF IInv

\* A step of a script to another command, or out, that touches nothing the
\* invariant speaks of except its program counter.
LEMMA MoveInductive ==
    ASSUME IInv, NEW s \in Scripts, NEW step,
           GoTo(s, step),
           UNCHANGED <<deployments, completed, stopped, applied, deploymentId, seen>>,
           tag' \in [Scripts -> Nat],
           step \in BeforeMonitor => pc[s] \in BeforeMonitor,
           step = "succeeded" => s \in Pipelines /\ seen[s].completed,
           step = "taskFailed" => s \in Pipelines /\ deploymentId[s] \in stopped
    PROVE  IInv'
  <1>1. Types'
    BY DEF IInv, Types, GoTo
  <1>2. AppliedInThePast'
    BY DEF IInv, AppliedInThePast, Primary
  <1>3. \A r \in Scripts : pc'[r] = IF r = s THEN step ELSE pc[r]
    BY DEF IInv, Types, GoTo
  <1>4. IgnorantBefore'
    BY <1>3 DEF IInv, IgnorantBefore, Scripts
  <1>5. KnowsWhatFollowed'
    BY DEF IInv, KnowsWhatFollowed
  <1>6. SuccessAfterRollout'
    BY <1>3 DEF IInv, SuccessAfterRollout, KnowsWhatFollowed, Scripts
  <1>7. NoFalseAlarm'
    BY <1>3 DEF IInv, NoFalseAlarm, KnowsWhatFollowed, Types, Scripts
  <1> QED  BY <1>1, <1>2, <1>4, <1>5, <1>6, <1>7 DEF IInv

\* An apply adds a deployment, or none, and notes the PRIMARY one.
LEMMA ApplyInductive ==
    ASSUME IInv, NEW s \in Scripts, Apply(s)
    PROVE  IInv'
  <1>1. deployments' \in Seq(Nat) /\ Len(deployments') >= Len(deployments)
    BY DEF IInv, Types, Apply
  <1>2. Types'
    <2>1. Len(deployments') \in Nat
      BY <1>1
    <2>2. applied' \in [Scripts -> Nat]
      BY <2>1 DEF IInv, Types, Apply
    <2>4. DOMAIN pc' = Scripts
      BY DEF IInv, Types, Apply, GoTo
    <2>3. UNCHANGED <<tag, stopped, deploymentId, seen>>
      BY DEF Apply, monitorVars
    <2> QED  BY <1>1, <2>2, <2>3, <2>4 DEF IInv, Types
  <1>3. \A r \in Scripts : /\ applied'[r] = IF r = s THEN Len(deployments') ELSE applied[r]
                           /\ pc'[r] = IF r = s THEN "applying" ELSE pc[r]
    BY DEF IInv, Types, Apply, GoTo
  <1>4. AppliedInThePast'
    <2>1. Len(deployments) \in Nat /\ Len(deployments') \in Nat
      BY <1>1 DEF IInv, Types
    <2>2. \A r \in Scripts : applied[r] \in Nat /\ applied[r] <= Len(deployments)
      BY DEF IInv, AppliedInThePast, Primary, Types
    <2>3. \A r \in Scripts : applied'[r] <= Len(deployments')
      BY <1>1, <1>3, <2>1, <2>2
    <2> QED  BY <2>3 DEF AppliedInThePast, Primary
  <1>5. pc[s] = "apply" /\ UNCHANGED <<completed, stopped, deploymentId, seen>>
    BY DEF Apply, monitorVars
  <1>6. IgnorantBefore'
    BY <1>3, <1>5 DEF IInv, IgnorantBefore, BeforeMonitor, Scripts
  <1>7. KnowsWhatFollowed'
    BY <1>3, <1>5 DEF IInv, IgnorantBefore, KnowsWhatFollowed, BeforeMonitor, Scripts
  <1>8. SuccessAfterRollout' /\ NoFalseAlarm'
    BY <1>3, <1>5 DEF IInv, SuccessAfterRollout, NoFalseAlarm, Scripts
  <1> QED  BY <1>2, <1>4, <1>6, <1>7, <1>8 DEF IInv

\* The monitor reads the PRIMARY deployment, which is its script's or later.
LEMMA ReadInductive ==
    ASSUME IInv, NEW p \in Pipelines, ReadId(p) \/ Describe(p)
    PROVE  IInv'
  <1>0. p \in Scripts /\ Primary \in Nat
    BY DEF Scripts, Primary, IInv, Types
  <1>1. /\ UNCHANGED <<deployments, completed, stopped, applied, tag>>
        /\ \E step \in {"describe", "tasks"} : GoTo(p, step)
    BY DEF ReadId, Describe, serviceVars
  <1>2. Types'
    <2>1. DOMAIN pc' = Scripts
      BY <1>1 DEF IInv, Types, GoTo
    <2>2. deploymentId' \in [Pipelines -> Nat]
      <3>1. PICK id \in Nat : deploymentId' \in {deploymentId, [deploymentId EXCEPT ![p] = id]}
        BY <1>0 DEF ReadId, Describe
      <3> QED  BY <3>1 DEF IInv, Types
    <2>3. DOMAIN seen' = Pipelines
      BY DEF IInv, Types, ReadId, Describe
    <2> QED  BY <1>1, <2>1, <2>2, <2>3 DEF IInv, Types
  <1>3. \A r \in Scripts : IF r = p THEN pc'[r] \in {"describe", "tasks"} ELSE pc'[r] = pc[r]
    BY <1>0, <1>1 DEF IInv, Types, GoTo
  <1>4. AppliedInThePast'
    BY <1>1 DEF IInv, AppliedInThePast, Primary
  <1>5. \A q \in Pipelines :
            deploymentId'[q] = deploymentId[q] \/ (q = p /\ deploymentId'[q] \in {0, Primary})
    BY DEF IInv, Types, ReadId, Describe
  <1>6. \A q \in Pipelines :
            \/ seen'[q] = seen[q]
            \/ q = p /\ seen'[q].id = Primary /\ seen'[q].completed = (Primary \in completed)
    BY DEF IInv, Types, ReadId, Describe
  <1>7. \A q \in Pipelines : q # p => deploymentId'[q] = deploymentId[q] /\ seen'[q] = seen[q]
    BY <1>5, <1>6
  <1>8. IgnorantBefore'
    BY <1>3, <1>7 DEF IInv, IgnorantBefore, BeforeMonitor, Scripts
  <1>9. KnowsWhatFollowed'
    BY <1>0, <1>1, <1>5, <1>6 DEF IInv, KnowsWhatFollowed, AppliedInThePast, Types
  <1>10. SuccessAfterRollout' /\ NoFalseAlarm'
    BY <1>1, <1>3 DEF IInv, SuccessAfterRollout, NoFalseAlarm, Scripts
  <1> QED  BY <1>2, <1>4, <1>8, <1>9, <1>10 DEF IInv

\* Another round forgets what the last one saw.
LEMMA KeepWatchingInductive ==
    ASSUME IInv, NEW p \in Pipelines, KeepWatching(p)
    PROVE  IInv'
  <1>0. p \in Scripts
    BY DEF Scripts
  <1>1. /\ UNCHANGED <<deployments, completed, stopped, applied, tag, deploymentId>>
        /\ GoTo(p, "describe")
    BY DEF KeepWatching, serviceVars
  <1>2. Types'
    <2>1. DOMAIN pc' = Scripts
      BY <1>1 DEF IInv, Types, GoTo
    <2>2. DOMAIN seen' = Pipelines
      BY DEF IInv, Types, KeepWatching
    <2> QED  BY <1>1, <2>1, <2>2 DEF IInv, Types
  <1>3. \A r \in Scripts : pc'[r] = IF r = p THEN "describe" ELSE pc[r]
    BY <1>0, <1>1 DEF IInv, Types, GoTo
  <1>4. \A q \in Pipelines : seen'[q] = IF q = p THEN Nothing ELSE seen[q]
    BY DEF IInv, Types, KeepWatching
  <1>5. AppliedInThePast'
    BY <1>1 DEF IInv, AppliedInThePast, Primary
  <1>6. IgnorantBefore'
    BY <1>1, <1>3, <1>4 DEF IInv, IgnorantBefore, BeforeMonitor, Scripts
  <1>7. KnowsWhatFollowed'
    BY <1>1, <1>4 DEF IInv, KnowsWhatFollowed, Nothing
  <1>8. SuccessAfterRollout' /\ NoFalseAlarm'
    BY <1>1, <1>3 DEF IInv, SuccessAfterRollout, NoFalseAlarm, Scripts
  <1> QED  BY <1>2, <1>5, <1>6, <1>7, <1>8 DEF IInv

\* What ECS does adds to completed and to stopped, and changes no script.
LEMMA ECSInductive ==
    ASSUME IInv,
           UNCHANGED <<deployments, pc, tag, applied, deploymentId, seen>>,
           completed \subseteq completed',
           stopped \subseteq stopped', stopped' \subseteq Nat \ {0}
    PROVE  IInv'
  <1>1. Types'
    BY DEF IInv, Types
  <1>2. AppliedInThePast' /\ IgnorantBefore'
    BY DEF IInv, AppliedInThePast, IgnorantBefore, Primary
  <1>3. KnowsWhatFollowed'
    BY DEF IInv, KnowsWhatFollowed
  <1>4. SuccessAfterRollout' /\ NoFalseAlarm'
    BY DEF IInv, SuccessAfterRollout, NoFalseAlarm
  <1> QED  BY <1>1, <1>2, <1>3, <1>4 DEF IInv

-----------------------------------------------------------------------------
\* Tags and deployments are counted by naturals.
LEMMA Counted == (1..Cardinality(Pipelines)) \subseteq Nat /\ Ids \subseteq Nat \ {0}
  <1>1. IsFiniteSet(Pipelines) /\ IsFiniteSet(Scripts)
    BY ScriptsAssumption, FS_Subset DEF Scripts
  <1>2. Cardinality(Pipelines) \in Nat /\ Cardinality(Scripts) \in Nat
    BY <1>1, FS_CardinalityType
  <1> QED  BY <1>2 DEF Ids

\* The steps of the two scripts before the monitor.
LEMMA ScriptInductive ==
    ASSUME IInv, NEW s \in Scripts,
           \/ s \in Pipelines /\ (Check(s) \/ Build(s) \/ Verify(s))
           \/ PushPlaceholder(s) \/ SyncBridges(s) \/ ApplyEnds(s) \/ Fail(s)
    PROVE  IInv'
  <1>1. UNCHANGED <<deployments, completed, stopped, applied, deploymentId, seen>>
    BY DEF Check, Build, Verify, PushPlaceholder, SyncBridges, ApplyEnds, Fail, serviceVars, monitorVars
  <1>2. tag' \in [Scripts -> Nat]
    <2>1. CASE s \in Pipelines /\ Check(s)
      BY <2>1, Counted DEF IInv, Types, Check
    <2>2. CASE UNCHANGED tag
      BY <2>2 DEF IInv, Types
    <2> QED  BY <2>1, <2>2 DEF Build, Verify, PushPlaceholder, SyncBridges, ApplyEnds, Fail
  <1>3. PICK step : /\ GoTo(s, step)
                    /\ step \in {"build", "verify", "apply", "bridges", "readId", "provisioned", "failed"}
                    /\ step \in BeforeMonitor => pc[s] \in BeforeMonitor
    BY DEF Check, Build, Verify, PushPlaceholder, SyncBridges, ApplyEnds, Fail, Starts, BeforeMonitor
  <1> QED  BY <1>1, <1>2, <1>3, MoveInductive

\* The steps of the monitor.
LEMMA MonitorInductive ==
    ASSUME IInv, NEW p \in Pipelines, Monitor(p)
    PROVE  IInv'
  <1>0. p \in Scripts /\ tag \in [Scripts -> Nat]
    BY DEF Scripts, IInv, Types
  <1>1. CASE Describe(p)
    BY <1>1, ReadInductive
  <1>2. CASE DescribeFails(p)
    BY <1>2, ECSInductive DEF DescribeFails, serviceVars, IInv, Types
  <1>3. CASE FailFast(p)
    <2>1. GoTo(p, "taskFailed") /\ deploymentId[p] \in stopped
          /\ UNCHANGED <<deployments, completed, stopped, tag, applied, deploymentId, seen>>
      BY <1>3 DEF FailFast, serviceVars, monitorVars
    <2> QED  BY <1>0, <2>1, MoveInductive DEF BeforeMonitor
  <1>4. CASE Stable(p)
    <2>1. GoTo(p, "succeeded") /\ seen[p].completed
          /\ UNCHANGED <<deployments, completed, stopped, tag, applied, deploymentId, seen>>
      BY <1>4 DEF Stable, serviceVars, monitorVars
    <2> QED  BY <1>0, <2>1, MoveInductive DEF BeforeMonitor
  <1>5. CASE KeepWatching(p)
    BY <1>5, KeepWatchingInductive
  <1>6. CASE TimeOut(p)
    <2>1. GoTo(p, "timedOut")
          /\ UNCHANGED <<deployments, completed, stopped, tag, applied, deploymentId, seen>>
      BY <1>6 DEF TimeOut, serviceVars, monitorVars
    <2> QED  BY <1>0, <2>1, MoveInductive DEF BeforeMonitor
  <1> QED  BY <1>1, <1>2, <1>3, <1>4, <1>5, <1>6 DEF Monitor

\* The steps of ECS: each adds to completed or stopped, or touches neither.
LEMMA ServiceInductive ==
    ASSUME IInv,
           \/ \E d \in Ids : TaskHealthy(d) \/ TaskFails(d) \/ Drain(d)
           \/ StartTask \/ Complete
    PROVE  IInv'
  <1>1. UNCHANGED <<deployments, pc, tag, applied, deploymentId, seen>>
    BY DEF TaskHealthy, TaskFails, Drain, StartTask, Complete, scriptVars, monitorVars
  <1>2. completed \subseteq completed'
    BY DEF TaskHealthy, TaskFails, Drain, StartTask, Complete
  <1>3. stopped \subseteq stopped' /\ stopped' \subseteq Nat \ {0}
    BY Counted DEF TaskHealthy, TaskFails, Drain, StartTask, Complete, IInv, Types
  <1> QED  BY <1>1, <1>2, <1>3, ECSInductive

\* Every step keeps the invariant.
LEMMA NextInductive == IInv /\ [Next]_vars => IInv'
  <1> SUFFICES ASSUME IInv, [Next]_vars  PROVE IInv'
    OBVIOUS
  <1>0. \A p \in Pipelines : p \in Scripts
    BY DEF Scripts
  <1>1. ASSUME NEW p \in Pipelines, Pipeline(p)  PROVE IInv'
    BY <1>0, <1>1, ScriptInductive, ReadInductive, MonitorInductive DEF Pipeline
  <1>2. ASSUME NEW i \in Provisioners, Provisioner(i)  PROVE IInv'
    BY <1>2, ScriptInductive DEF Provisioner, Scripts
  <1>3. ASSUME NEW s \in Scripts, Common(s)  PROVE IInv'
    BY <1>3, ApplyInductive, ScriptInductive DEF Common
  <1>4. CASE (\E d \in Ids : TaskHealthy(d) \/ TaskFails(d) \/ Drain(d)) \/ StartTask \/ Complete
    BY <1>4, ServiceInductive
  <1>5. CASE UNCHANGED vars
    <2>1. UNCHANGED <<deployments, completed, stopped, pc, tag, applied, deploymentId, seen>>
      BY <1>5 DEF vars, serviceVars, monitorVars
    <2> QED  BY <2>1, ECSInductive DEF IInv, Types
  <1> QED  BY <1>1, <1>2, <1>3, <1>4, <1>5 DEF Next

\* Whatever pipelines, provisioners and ECS do, a pipeline reports success only
\* once a rollout that is its own or a later one has completed (cicd.sh:214).
THEOREM SuccessAfterRolloutHolds == Spec => []SuccessAfterRollout
  <1>1. IInv => SuccessAfterRollout
    BY DEF IInv
  <1> QED  BY <1>1, InitInductive, NextInductive, PTL DEF Spec

\* Nor does a pipeline fail fast for a task that failed before its apply
\* (cicd.sh:164).
THEOREM NoFalseAlarmHolds == Spec => []NoFalseAlarm
  <1>1. IInv => NoFalseAlarm
    BY DEF IInv
  <1> QED  BY <1>1, InitInductive, NextInductive, PTL DEF Spec

-----------------------------------------------------------------------------
(***************************************************************************)
(* Where images come from.  First the steps, by the variables they change, *)
(* and the types.                                                          *)
(***************************************************************************)

Steps == {"start", "build", "verify", "apply", "applying", "readId", "bridges",
          "describe", "tasks"} \cup Exits

BeforeApply == {"start", "build", "verify", "apply"}

\* Script s goes on to step.
Moves(s, step) ==
    /\ GoTo(s, step) /\ step # "start"
    /\ pc[s] \notin BeforeApply => step \notin BeforeApply
    /\ step = "build" => s \in Pipelines /\ Check(s)
    /\ step = "verify" => s \in Pipelines /\ Build(s)
    /\ step = "apply" => (s \in Pipelines /\ Verify(s)) \/ (s \in Provisioners /\ PushPlaceholder(s))
    /\ step = "tasks" => s \in Pipelines /\ Describe(s)
    /\ step = "succeeded" => s \in Pipelines /\ Stable(s)

ScriptMoves == pc' = pc \/ \E s \in Scripts, step \in Steps : Moves(s, step)

LEMMA ScriptsAre == Pipelines \subseteq Scripts /\ Provisioners \subseteq Scripts
BY DEF Scripts

LEMMA CommonMoves ==
    ASSUME NEW s \in Scripts, Common(s)
    PROVE  ScriptMoves
<1>1. CASE Apply(s)
  <2>1. Moves(s, "applying")
    BY <1>1 DEF Apply, Moves, BeforeApply
  <2> QED
    BY <2>1 DEF ScriptMoves, Steps
<1>2. CASE ApplyEnds(s)
  <2>1. Moves(s, "readId") \/ Moves(s, "bridges") \/ Moves(s, "failed")
    BY <1>2 DEF ApplyEnds, Moves, BeforeApply
  <2> QED
    BY <2>1 DEF ScriptMoves, Steps, Exits
<1>3. CASE Fail(s)
  <2>1. Moves(s, "failed")
    BY <1>3 DEF Fail, Moves, BeforeApply
  <2> QED
    BY <2>1 DEF ScriptMoves, Steps, Exits
<1> QED
  BY <1>1, <1>2, <1>3 DEF Common

LEMMA PipelineMoves ==
    ASSUME NEW p \in Pipelines, Pipeline(p)
    PROVE  ScriptMoves
<1>0. p \in Scripts
  BY DEF Scripts
<1>1. CASE Check(p)
  <2>1. Moves(p, "build")
    BY <1>1 DEF Check, Starts, Moves, BeforeApply
  <2> QED
    BY <1>0, <2>1 DEF ScriptMoves, Steps
<1>2. CASE Build(p)
  <2>1. Moves(p, "verify") \/ Moves(p, "failed")
    BY <1>2 DEF Build, Moves, BeforeApply
  <2> QED
    BY <1>0, <2>1 DEF ScriptMoves, Steps, Exits
<1>3. CASE Verify(p)
  <2>1. Moves(p, "apply")
    BY <1>3 DEF Verify, Moves, BeforeApply
  <2> QED
    BY <1>0, <2>1 DEF ScriptMoves, Steps
<1>4. CASE ReadId(p) \/ KeepWatching(p)
  <2>1. Moves(p, "describe")
    BY <1>4 DEF ReadId, KeepWatching, Moves, BeforeApply
  <2> QED
    BY <1>0, <2>1 DEF ScriptMoves, Steps
<1>5. CASE Describe(p)
  <2>1. Moves(p, "tasks")
    BY <1>5 DEF Describe, Moves, BeforeApply
  <2> QED
    BY <1>0, <2>1 DEF ScriptMoves, Steps
<1>6. CASE DescribeFails(p)
  BY <1>6 DEF DescribeFails, ScriptMoves
<1>7. CASE FailFast(p) \/ Stable(p) \/ TimeOut(p)
  <2>1. Moves(p, "taskFailed") \/ Moves(p, "succeeded") \/ Moves(p, "timedOut")
    BY <1>7 DEF FailFast, Stable, TimeOut, Moves, BeforeApply
  <2> QED
    BY <1>0, <2>1 DEF ScriptMoves, Steps, Exits
<1> QED
  BY <1>1, <1>2, <1>3, <1>4, <1>5, <1>6, <1>7 DEF Pipeline, Monitor

LEMMA ProvisionerMoves ==
    ASSUME NEW i \in Provisioners, Provisioner(i)
    PROVE  ScriptMoves
<1>0. i \in Scripts
  BY DEF Scripts
<1>1. CASE PushPlaceholder(i)
  <2>1. Moves(i, "apply")
    BY <1>1 DEF PushPlaceholder, Starts, Moves, BeforeApply
  <2> QED
    BY <1>0, <2>1 DEF ScriptMoves, Steps
<1>2. CASE SyncBridges(i)
  <2>1. Moves(i, "provisioned")
    BY <1>2 DEF SyncBridges, Moves, BeforeApply
  <2> QED
    BY <1>0, <2>1 DEF ScriptMoves, Steps, Exits
<1> QED
  BY <1>1, <1>2 DEF Provisioner

\* Which steps change which variable.
LEMMA StepIs ==
    ASSUME [Next]_vars
    PROVE  /\ \/ registry' = registry
              \/ \E p \in Pipelines : Build(p)
              \/ \E i \in Provisioners : PushPlaceholder(i)
           /\ lock' = lock \/ \E s \in Scripts : Apply(s) \/ ApplyEnds(s)
           /\ UNCHANGED <<deployments, applied>> \/ \E s \in Scripts : Apply(s)
           /\ \/ UNCHANGED <<task, image>>
              \/ StartTask
              \/ \E d \in Ids : TaskHealthy(d) \/ TaskFails(d) \/ Drain(d)
           /\ completed' = completed \/ Complete
           /\ stopped' = stopped \/ \E d \in Ids : TaskFails(d)
           /\ tag' = tag \/ \E p \in Pipelines : Check(p)
           /\ deploymentId' = deploymentId \/ \E p \in Pipelines : ReadId(p)
           /\ retries' = retries \/ \E p \in Pipelines : DescribeFails(p) \/ KeepWatching(p)
           /\ seen' = seen \/ \E p \in Pipelines : Describe(p) \/ KeepWatching(p)
           /\ ScriptMoves
<1> USE DEF serviceVars, monitorVars, scriptVars
<1>1. ASSUME NEW p \in Pipelines, Pipeline(p)
      PROVE  /\ registry' = registry \/ Build(p)
             /\ UNCHANGED <<lock, deployments, applied, task, image, completed, stopped>>
             /\ tag' = tag \/ Check(p)
             /\ deploymentId' = deploymentId \/ ReadId(p)
             /\ retries' = retries \/ DescribeFails(p) \/ KeepWatching(p)
             /\ seen' = seen \/ Describe(p) \/ KeepWatching(p)
             /\ ScriptMoves
  BY <1>1, PipelineMoves
     DEF Pipeline, Monitor, Check, Build, Verify, ReadId, Describe, DescribeFails, FailFast, Stable,
         KeepWatching, TimeOut
<1>2. ASSUME NEW i \in Provisioners, Provisioner(i)
      PROVE  /\ registry' = registry \/ PushPlaceholder(i)
             /\ UNCHANGED <<lock, deployments, applied, task, image, completed, stopped, tag,
                            deploymentId, retries, seen>>
             /\ ScriptMoves
  BY <1>2, ProvisionerMoves DEF Provisioner, PushPlaceholder, SyncBridges
<1>3. ASSUME NEW s \in Scripts, Common(s)
      PROVE  /\ UNCHANGED <<registry, task, image, completed, stopped, tag, deploymentId, retries, seen>>
             /\ lock' = lock \/ Apply(s) \/ ApplyEnds(s)
             /\ UNCHANGED <<deployments, applied>> \/ Apply(s)
             /\ ScriptMoves
  BY <1>3, CommonMoves DEF Common, Apply, ApplyEnds, Fail
<1>4. ASSUME NEW d \in Ids, TaskHealthy(d) \/ TaskFails(d) \/ Drain(d)
      PROVE  /\ UNCHANGED <<registry, lock, deployments, applied, completed, tag, deploymentId,
                            retries, seen>>
             /\ stopped' = stopped \/ TaskFails(d)
             /\ ScriptMoves
  BY <1>4 DEF TaskHealthy, TaskFails, Drain, ScriptMoves
<1>5. CASE StartTask \/ Complete
  BY <1>5 DEF StartTask, Complete, ScriptMoves
<1>6. CASE UNCHANGED vars
  BY <1>6 DEF vars, ScriptMoves
<1> QED
  BY <1>1, <1>2, <1>3, <1>4, <1>5, <1>6 DEF Next

\* A monitor that has looked at the service has a round left.
Watching == \A p \in Pipelines : pc[p] = "tasks" => retries[p] < MaxRetries

\* Each script adds one deployment at most.
Past == {s \in Scripts : pc[s] \notin BeforeApply}
DeploymentsCounted == Primary <= Cardinality(Past) + 1

LEMMA PastIs ==
    /\ IsFiniteSet(Past) /\ IsFiniteSet(Past')
    /\ Cardinality(Past) \in Nat /\ Cardinality(Past') \in Nat
    /\ Cardinality(Past) <= Cardinality(Scripts) /\ Cardinality(Past') <= Cardinality(Scripts)
    /\ Cardinality(Scripts) \in Nat
<1>1. Past \subseteq Scripts /\ Past' \subseteq Scripts
  BY DEF Past
<1>2. IsFiniteSet(Scripts)
  BY ScriptsAssumption
<1> QED
  BY <1>1, <1>2, FS_Subset, FS_CardinalityType

LEMMA PcInductive ==
    ASSUME TypeOK, ScriptMoves
    PROVE  pc' \in [Scripts -> Steps] /\ Past \subseteq Past'
<1>0. pc \in [Scripts -> Steps]
  BY DEF TypeOK, Steps
<1>1. CASE pc' = pc
  BY <1>0, <1>1 DEF Past
<1>2. ASSUME NEW s \in Scripts, NEW step \in Steps, Moves(s, step)
      PROVE  pc' \in [Scripts -> Steps] /\ Past \subseteq Past'
  <2>1. pc' = [pc EXCEPT ![s] = step] /\ (pc[s] \notin BeforeApply => step \notin BeforeApply)
    BY <1>2 DEF Moves, GoTo
  <2> QED
    BY <1>0, <2>1 DEF Past
<1> QED
  BY <1>1, <1>2 DEF ScriptMoves

LEMMA DeploymentsInductive ==
    ASSUME TypeOK, DeploymentsCounted, [Next]_vars
    PROVE  /\ deployments' \in Seq(Tags) /\ Len(deployments') \in Ids
           /\ Len(deployments) <= Len(deployments')
           /\ \A k \in 1..Len(deployments) : deployments'[k] = deployments[k]
           /\ DeploymentsCounted'
<1>0. pc' \in [Scripts -> Steps] /\ Past \subseteq Past'
  BY StepIs, PcInductive
<1>1. Cardinality(Past) <= Cardinality(Past')
  BY <1>0, PastIs, FS_Subset
<1>2. deployments \in Seq(Tags) /\ Len(deployments) \in Nat /\ Len(deployments) >= 1
  BY DEF TypeOK, Ids, Primary
<1>3. Len(deployments) <= Cardinality(Past) + 1
  BY DEF DeploymentsCounted, Primary
<1>4. /\ deployments' \in Seq(Tags)
      /\ Len(deployments) <= Len(deployments')
      /\ \A k \in 1..Len(deployments) : deployments'[k] = deployments[k]
      /\ Len(deployments') <= Cardinality(Past') + 1
  <2>1. CASE deployments' = deployments
    BY <1>1, <1>2, <1>3, <2>1, PastIs
  <2>2. ASSUME NEW s \in Scripts, Apply(s)
        PROVE  /\ deployments' \in Seq(Tags)
               /\ Len(deployments) <= Len(deployments')
               /\ Len(deployments') <= Len(deployments) + 1
               /\ \A k \in 1..Len(deployments) : deployments'[k] = deployments[k]
               /\ Cardinality(Past) + 1 <= Cardinality(Past')
    <3>1. tag[s] \in Tags
      BY DEF TypeOK
    <3>2. deployments' = deployments \/ deployments' = Append(deployments, tag[s])
      BY <2>2 DEF Apply
    <3>3. s \notin Past /\ s \in Past'
      BY <2>2 DEF Apply, Past, BeforeApply, GoTo, TypeOK
    <3>4. Past \cup {s} \subseteq Past'
      BY <1>0, <3>3
    <3>5. Cardinality(Past \cup {s}) = Cardinality(Past) + 1
      BY <3>3, PastIs, FS_AddElement
    <3>6. Cardinality(Past) + 1 <= Cardinality(Past')
      BY <3>4, <3>5, PastIs, FS_Subset
    <3> QED
      BY <1>2, <3>1, <3>2, <3>6
  <2>3. ASSUME NEW s \in Scripts, Apply(s)
        PROVE  Len(deployments') <= Cardinality(Past') + 1
    <3>1. deployments' \in Seq(Tags) /\ Len(deployments') <= Len(deployments) + 1
          /\ Cardinality(Past) + 1 <= Cardinality(Past')
      BY <2>2, <2>3
    <3>2. Len(deployments') \in Nat
      BY <3>1
    <3> QED
      BY <1>2, <1>3, <3>1, <3>2, PastIs
  <2> QED
    BY <2>1, <2>2, <2>3, StepIs
<1>5. Len(deployments') \in Nat
  BY <1>4
<1>6. Len(deployments') \in Ids
  BY <1>2, <1>4, <1>5, PastIs DEF Ids
<1> QED
  BY <1>4, <1>6 DEF DeploymentsCounted, Primary

\* A task is one of a deployment there is.
TasksAreOfDeployments == \A d \in Ids : task[d] # "none" => d <= Primary

Typed == TypeOK /\ Watching /\ DeploymentsCounted /\ TasksAreOfDeployments

LEMMA PlaceholderTag == 0 \in Tags
<1>1. IsFiniteSet(Pipelines)
  BY ScriptsAssumption, FS_Subset DEF Scripts
<1> QED
  BY <1>1, FS_CardinalityType DEF Tags

LEMMA TypedInit == Init => Typed
<1> SUFFICES ASSUME Init PROVE Typed
  OBVIOUS
<1>1. Cardinality(Pipelines) \in Nat /\ Cardinality(Scripts) \in Nat
  BY ScriptsAssumption, FS_Subset, FS_CardinalityType DEF Scripts
<1>2. 0 \in Tags /\ 1 \in Ids
  BY <1>1 DEF Tags, Ids
<1>3. deployments \in Seq(Tags) /\ Primary = 1 /\ Primary \in Ids
  BY <1>2 DEF Init, Primary
<1>4. registry \in [Tags -> Images] /\ image \in [Ids -> Images]
      /\ task \in [Ids -> {"none", "running", "healthy"}]
  BY DEF Init, Images
<1>5. seen \in [Pipelines -> [id : 0..Primary, completed : BOOLEAN, running : BOOLEAN, image : Images]]
  BY <1>3 DEF Init, Nothing, Images
<1>6. /\ tag \in [Scripts -> Tags] /\ applied \in [Scripts -> 0..Primary]
      /\ deploymentId \in [Pipelines -> 0..Primary] /\ retries \in [Pipelines -> 0..MaxRetries]
  BY <1>2, <1>3, RetriesAssumption DEF Init
<1>7. TypeOK
  BY <1>3, <1>4, <1>5, <1>6 DEF Init, TypeOK
<1>8. Watching
  BY DEF Init, Watching, Scripts
<1>9. TasksAreOfDeployments
  BY DEF Init, TasksAreOfDeployments
<1> QED
  BY <1>3, <1>7, <1>8, <1>9, PastIs DEF Typed, DeploymentsCounted

LEMMA TypedStep ==
    ASSUME Typed, [Next]_vars
    PROVE  Typed'
<1> USE DEF Typed
<1>0. TypeOK
  OBVIOUS
<1>1. /\ deployments' \in Seq(Tags) /\ Len(deployments') \in Ids
      /\ Len(deployments) <= Len(deployments')
      /\ DeploymentsCounted'
  BY DeploymentsInductive
<1>2. pc \in [Scripts -> Steps] /\ pc' \in [Scripts -> Steps]
  BY StepIs, PcInductive DEF TypeOK, Steps
<1>3. Pipelines \subseteq Images /\ Placeholder \in Images /\ Nobody \in Images
  BY DEF Images
<1>4. registry' \in [Tags -> Images]
  <2>1. ASSUME NEW p \in Pipelines, Build(p) PROVE registry' \in [Tags -> Images]
    BY <1>3, <2>1 DEF Build, TypeOK
  <2>2. ASSUME NEW i \in Provisioners, PushPlaceholder(i) PROVE registry' \in [Tags -> Images]
    BY <1>3, <2>2 DEF PushPlaceholder, TypeOK
  <2> QED
    BY <2>1, <2>2, StepIs DEF TypeOK
<1>5. lock' \in Scripts \cup {Nobody}
  BY StepIs DEF Apply, ApplyEnds, TypeOK
<1>6. Len(deployments) \in Ids /\ Ids \subseteq Nat \ {0}
  BY Counted DEF TypeOK, Primary
<1>7. task' \in [Ids -> {"none", "running", "healthy"}]
  <2>1. CASE StartTask
    BY <2>1 DEF StartTask, SetTask, TypeOK
  <2>2. ASSUME NEW d \in Ids, TaskHealthy(d) \/ TaskFails(d) \/ Drain(d)
        PROVE  task' \in [Ids -> {"none", "running", "healthy"}]
    BY <2>2 DEF TaskHealthy, TaskFails, Drain, SetTask, TypeOK
  <2> QED
    BY <2>1, <2>2, StepIs DEF TypeOK
<1>8. image' \in [Ids -> Images]
  <2>1. CASE StartTask
    <3>1. deployments[Primary] \in Tags
      BY <1>6 DEF TypeOK, Primary
    <3> QED
      BY <2>1, <3>1 DEF StartTask, TypeOK
  <2>2. ASSUME NEW d \in Ids, TaskHealthy(d) \/ TaskFails(d) \/ Drain(d)
        PROVE  image' \in [Ids -> Images]
    BY <1>3, <2>2 DEF TaskHealthy, TaskFails, Drain, TypeOK
  <2> QED
    BY <2>1, <2>2, StepIs DEF TypeOK
<1>9. /\ completed' \subseteq 1..Len(deployments') /\ stopped' \subseteq 1..Len(deployments')
      /\ \A d \in Ids : task'[d] # "none" => d <= Len(deployments')
  <2>1. /\ completed \subseteq 1..Len(deployments) /\ stopped \subseteq 1..Len(deployments)
        /\ \A d \in Ids : task[d] # "none" => d <= Len(deployments)
    BY DEF TypeOK, Primary, TasksAreOfDeployments
  <2>2. 1..Len(deployments) \subseteq 1..Len(deployments') /\ Len(deployments) \in 1..Len(deployments)
    BY <1>1, <1>6
  <2>3. completed' \subseteq completed \cup {Len(deployments)}
    BY StepIs DEF Complete, Primary
  <2>4. \A d \in stopped' : d \in stopped \/ (d \in Ids /\ task[d] # "none")
    <3>1. ASSUME NEW d \in Ids, TaskFails(d)
          PROVE  stopped' = stopped \cup {d} /\ task[d] # "none"
      BY <3>1 DEF TaskFails
    <3> QED
      BY <3>1, StepIs
  <2>5. \A d \in Ids : task'[d] # "none" => task[d] # "none" \/ d = Len(deployments)
    <3>1. CASE StartTask
      BY <3>1 DEF StartTask, SetTask, TypeOK, Primary
    <3>2. ASSUME NEW e \in Ids, TaskHealthy(e) \/ TaskFails(e) \/ Drain(e)
          PROVE  \A d \in Ids : task'[d] # "none" => task[d] # "none"
      BY <3>2 DEF TaskHealthy, TaskFails, Drain, SetTask, TypeOK
    <3> QED
      BY <3>1, <3>2, StepIs
  <2>6. \A d \in Ids : task[d] # "none" => d \in 1..Len(deployments)
    BY <1>6, <2>1
  <2>7. \A d \in Ids : task'[d] # "none" => d <= Len(deployments')
    <3>1. \A d \in Ids : task'[d] # "none" => d \in 1..Len(deployments')
      BY <2>2, <2>5, <2>6
    <3> QED
      BY <3>1
  <2>8. stopped' \subseteq 1..Len(deployments')
    BY <2>1, <2>2, <2>4, <2>6
  <2>9. completed' \subseteq 1..Len(deployments')
    BY <2>1, <2>2, <2>3
  <2> QED
    BY <2>7, <2>8, <2>9
<1>10. tag' \in [Scripts -> Tags]
  <2>1. ASSUME NEW p \in Pipelines, Check(p) PROVE tag' \in [Scripts -> Tags]
    <3>1. PICK t \in 1..Cardinality(Pipelines) : tag' = [tag EXCEPT ![p] = t]
      BY <2>1 DEF Check
    <3>2. t \in Tags
      BY Counted DEF Tags
    <3> QED
      BY <3>1, <3>2 DEF TypeOK
  <2> QED
    BY <2>1, StepIs DEF TypeOK
<1>11. 0..Len(deployments) \subseteq 0..Len(deployments') /\ Len(deployments) \in 0..Len(deployments)
       /\ 0 \in 0..Len(deployments') /\ Len(deployments') \in 0..Len(deployments')
  BY <1>1, <1>6
<1>12. applied' \in [Scripts -> 0..Len(deployments')]
  <2>1. applied \in [Scripts -> 0..Len(deployments)]
    BY DEF TypeOK, Primary
  <2>2. ASSUME NEW s \in Scripts, Apply(s) PROVE applied' \in [Scripts -> 0..Len(deployments')]
    <3>1. applied' = [applied EXCEPT ![s] = Len(deployments')]
      BY <2>2 DEF Apply
    <3> QED
      BY <1>11, <2>1, <3>1
  <2> QED
    BY <1>11, <2>1, <2>2, StepIs
<1>13. deploymentId' \in [Pipelines -> 0..Len(deployments')]
  <2>1. deploymentId \in [Pipelines -> 0..Len(deployments)]
    BY DEF TypeOK, Primary
  <2>2. ASSUME NEW p \in Pipelines, ReadId(p)
        PROVE  deploymentId' \in [Pipelines -> 0..Len(deployments')]
    <3>1. PICK id \in {0, Len(deployments)} : deploymentId' = [deploymentId EXCEPT ![p] = id]
      BY <2>2 DEF ReadId, Primary
    <3> QED
      BY <1>11, <2>1, <3>1
  <2> QED
    BY <1>11, <2>1, <2>2, StepIs
<1>14. retries' \in [Pipelines -> 0..MaxRetries]
  <2>1. ASSUME NEW p \in Pipelines, DescribeFails(p) \/ KeepWatching(p)
        PROVE  retries' \in [Pipelines -> 0..MaxRetries]
    <3>1. retries[p] < MaxRetries /\ retries' = [retries EXCEPT ![p] = retries[p] + 1]
      BY <2>1 DEF DescribeFails, KeepWatching, Watching
    <3>2. retries[p] + 1 \in 0..MaxRetries
      BY <3>1, RetriesAssumption DEF TypeOK
    <3> QED
      BY <3>1, <3>2 DEF TypeOK
  <2> QED
    BY <2>1, StepIs DEF TypeOK
<1>15. seen' \in [Pipelines -> [id : 0..Len(deployments'), completed : BOOLEAN, running : BOOLEAN,
                                image : Images]]
  <2> DEFINE Views(n) == [id : 0..n, completed : BOOLEAN, running : BOOLEAN, image : Images]
  <2>1. seen \in [Pipelines -> Views(Len(deployments'))]
    <3>1. seen \in [Pipelines -> Views(Len(deployments))]
      BY DEF TypeOK, Primary
    <3> QED
      BY <1>11, <3>1
  <2>2. ASSUME NEW p \in Pipelines, Describe(p) \/ KeepWatching(p)
        PROVE  seen' \in [Pipelines -> Views(Len(deployments'))]
    <3>1. Nothing \in Views(Len(deployments'))
      BY <1>3, <1>11 DEF Nothing
    <3>2. image[Primary] \in Images /\ Len(deployments) \in 0..Len(deployments')
      BY <1>6, <1>11 DEF TypeOK, Primary
    <3>3. [id |-> Primary, completed |-> Primary \in completed, running |-> Running(Primary),
           image |-> image[Primary]] \in Views(Len(deployments'))
      BY <3>2 DEF Primary, Running
    <3> QED
      BY <2>1, <2>2, <3>1, <3>3 DEF Describe, KeepWatching
  <2> QED
    BY <2>1, <2>2, StepIs
<1>16. TypeOK'
  BY <1>1, <1>2, <1>4, <1>5, <1>7, <1>8, <1>9, <1>10, <1>12, <1>13, <1>14, <1>15 DEF TypeOK, Steps, Primary
<1>17. ASSUME NEW p \in Pipelines, pc'[p] = "tasks"
       PROVE  retries'[p] < MaxRetries
  <2>1. p \in Scripts
    BY ScriptsAre
  <2>2. retries'[p] = retries[p]
    <3>1. ASSUME NEW q \in Pipelines, DescribeFails(q) \/ KeepWatching(q)
          PROVE  retries'[p] = retries[p]
      <4>1. retries' = [retries EXCEPT ![q] = @ + 1]
        BY <3>1 DEF DescribeFails, KeepWatching
      <4>2. pc'[q] = "describe"
        BY <1>2, <3>1, ScriptsAre DEF DescribeFails, KeepWatching, GoTo
      <4> QED
        BY <1>17, <4>1, <4>2 DEF TypeOK
    <3> QED
      BY <3>1, StepIs
  <2>3. pc[p] = "tasks" \/ Describe(p)
    <3>1. ASSUME NEW s \in Scripts, NEW step \in Steps, Moves(s, step)
          PROVE  pc[p] = "tasks" \/ Describe(p)
      <4>1. pc' = [pc EXCEPT ![s] = step] /\ (step = "tasks" => Describe(s))
        BY <3>1 DEF Moves, GoTo
      <4> QED
        BY <1>2, <1>17, <2>1, <4>1
    <3> QED
      BY <1>17, <3>1, StepIs DEF ScriptMoves
  <2> QED
    BY <2>2, <2>3 DEF Watching, Describe
<1> QED
  BY <1>1, <1>9, <1>16, <1>17 DEF Watching, TasksAreOfDeployments, Primary

\* With no script, retry or deployment counted too few, every variable has its
\* type: so there are deployments for every apply, and for every task.
THEOREM TypeCorrect == Spec => []TypeOK
<1>1. Typed => TypeOK
  BY DEF Typed
<1>2. Typed /\ [Next]_vars => Typed'
  BY TypedStep
<1> QED
  BY <1>1, <1>2, TypedInit, PTL DEF Spec

-----------------------------------------------------------------------------
\* A pipeline has a tag as soon as it begins, a provisioner has none; and what
\* is to be applied has been pushed.
Tagged ==
    /\ \A s \in Scripts : pc[s] = "start" => tag[s] = 0
    /\ \A i \in Provisioners : tag[i] = 0
    /\ \A p \in Pipelines :
        /\ pc[p] \in {"build", "verify", "apply"} => tag[p] # 0
        /\ pc[p] = "apply" => registry[tag[p]] \in Pipelines

\* Under a tag is an image of a pipeline that has it; the placeholder has its own.
Registered ==
    /\ registry[0] = Placeholder
    /\ \A t \in Tags \ {0} :
        registry[t] # Nobody => registry[t] \in Pipelines /\ tag[registry[t]] = t

\* What is deployed has been pushed.
Deployed ==
    \A k \in 1..Primary : deployments[k] # 0 => registry[deployments[k]] \in Pipelines

\* A task runs what its deployment's tag stands for, and a placeholder is never
\* healthy, so that its rollout does not complete.
ImagesOfTasks ==
    /\ \A d \in Ids : Running(d) =>
        /\ deployments[d] = 0 => image[d] = Placeholder
        /\ deployments[d] # 0 => image[d] \in Pipelines /\ tag[image[d]] = deployments[d]
        /\ task[d] = "healthy" => deployments[d] # 0
    /\ \A d \in completed : deployments[d] # 0

\* So does what a monitor has seen, if it is a rollout that has completed.
ImagesSeen ==
    \A p \in Pipelines :
        /\ seen[p].completed /\ seen[p].running =>
            /\ seen[p].id \in 1..Primary
            /\ seen[p].image \in Pipelines
            /\ tag[seen[p].image] = deployments[seen[p].id]
            /\ deployments[seen[p].id] # 0
        /\ pc[p] = "succeeded" => seen[p].completed /\ seen[p].running

Origins == Typed /\ Tagged /\ Registered /\ Deployed /\ ImagesOfTasks /\ ImagesSeen

LEMMA OriginsInit == Init => Origins
<1> SUFFICES ASSUME Init PROVE Origins
  OBVIOUS
<1>1. Typed
  BY TypedInit
<1>2. Tagged
  BY DEF Init, Tagged, Scripts
<1>3. Registered
  <2>1. 0 \in Tags
    BY PlaceholderTag
  <2> QED
    BY <2>1 DEF Init, Registered
<1>4. Deployed
  BY DEF Init, Deployed, Primary
<1>5. ImagesOfTasks
  BY DEF Init, ImagesOfTasks, Running
<1>6. ImagesSeen
  BY DEF Init, ImagesSeen, Nothing, Scripts
<1> QED
  BY <1>1, <1>2, <1>3, <1>4, <1>5, <1>6 DEF Origins

\* A script keeps the tag it has.
LEMMA TagsStay ==
    ASSUME Origins, [Next]_vars
    PROVE  \A s \in Scripts : tag[s] # 0 => tag'[s] = tag[s]
<1>1. ASSUME NEW p \in Pipelines, Check(p)
      PROVE  \A s \in Scripts : tag[s] # 0 => tag'[s] = tag[s]
  <2>1. tag[p] = 0
    BY <1>1, ScriptsAre DEF Check, Starts, Origins, Tagged
  <2>2. PICK t : tag' = [tag EXCEPT ![p] = t]
    BY <1>1 DEF Check
  <2> QED
    BY <2>1, <2>2 DEF Origins, Typed, TypeOK
<1> QED
  BY <1>1, StepIs

\* Nor does an image of a pipeline give way to anything else.
LEMMA ImagesStay ==
    ASSUME Origins, [Next]_vars
    PROVE  \A t \in Tags : registry[t] \in Pipelines => registry'[t] \in Pipelines
<1>0. registry \in [Tags -> Images] /\ Placeholder \notin Pipelines /\ registry[0] = Placeholder
  BY NamesAssumption DEF Origins, Typed, TypeOK, Registered, Scripts
<1>1. ASSUME NEW p \in Pipelines, Build(p)
      PROVE  \A t \in Tags : registry[t] \in Pipelines => registry'[t] \in Pipelines
  BY <1>0, <1>1 DEF Build
<1>2. ASSUME NEW i \in Provisioners, PushPlaceholder(i)
      PROVE  \A t \in Tags : registry[t] \in Pipelines => registry'[t] \in Pipelines
  BY <1>0, <1>2 DEF PushPlaceholder
<1> QED
  BY <1>1, <1>2, StepIs

LEMMA TaggedStep ==
    ASSUME Origins, [Next]_vars
    PROVE  Tagged'
<1>0. /\ pc \in [Scripts -> Steps] /\ pc' \in [Scripts -> Steps]
      /\ tag \in [Scripts -> Tags] /\ registry \in [Tags -> Images]
      /\ Pipelines \cap Provisioners = {} /\ Tagged
  BY StepIs, PcInductive, ScriptsAssumption DEF Origins, Typed, TypeOK, Steps
<1>1. ASSUME NEW s \in Scripts, pc'[s] = "start" PROVE tag'[s] = 0
  <2>1. pc[s] = "start"
    <3>1. ASSUME NEW r \in Scripts, NEW step \in Steps, Moves(r, step) PROVE pc[s] = "start"
      BY <1>0, <1>1, <3>1 DEF Moves, GoTo
    <3> QED
      BY <1>1, <3>1, StepIs DEF ScriptMoves
  <2>2. tag' = tag \/ tag'[s] = tag[s]
    <3>1. ASSUME NEW p \in Pipelines, Check(p) PROVE tag'[s] = tag[s]
      <4>1. p # s
        BY <1>0, <1>1, <3>1, ScriptsAre DEF Check, GoTo
      <4>2. PICK t : tag' = [tag EXCEPT ![p] = t]
        BY <3>1 DEF Check
      <4> QED
        BY <1>0, <4>1, <4>2
    <3> QED
      BY <3>1, StepIs
  <2> QED
    BY <1>0, <2>1, <2>2 DEF Tagged
<1>2. ASSUME NEW i \in Provisioners PROVE tag'[i] = 0
  <2>1. ASSUME NEW p \in Pipelines, Check(p) PROVE tag'[i] = tag[i]
    <3>1. PICK t : tag' = [tag EXCEPT ![p] = t]
      BY <2>1 DEF Check
    <3> QED
      BY <1>0, <3>1, ScriptsAre
  <2> QED
    BY <1>0, <2>1, StepIs DEF Tagged
<1>3. ASSUME NEW p \in Pipelines, pc'[p] \in {"build", "verify", "apply"}
      PROVE  tag'[p] # 0
  <2>1. pc[p] \in {"build", "verify", "apply"} \/ Check(p)
    <3>1. ASSUME NEW r \in Scripts, NEW step \in Steps, Moves(r, step)
          PROVE  pc[p] \in {"build", "verify", "apply"} \/ Check(p)
      BY <1>0, <1>3, <3>1, ScriptsAre DEF Moves, GoTo, Build, Verify
    <3> QED
      BY <1>3, <3>1, StepIs DEF ScriptMoves
  <2>2. CASE Check(p)
    <3>1. PICK t \in 1..Cardinality(Pipelines) : tag' = [tag EXCEPT ![p] = t]
      BY <2>2 DEF Check
    <3>2. t # 0
      BY Counted
    <3> QED
      BY <1>0, <3>1, <3>2, ScriptsAre
  <2>3. CASE pc[p] \in {"build", "verify", "apply"}
    BY <1>0, <2>3, TagsStay, ScriptsAre DEF Tagged
  <2> QED
    BY <2>1, <2>2, <2>3
<1>4. ASSUME NEW p \in Pipelines, pc'[p] = "apply"
      PROVE  registry'[tag'[p]] \in Pipelines
  <2>1. pc[p] = "apply" \/ Verify(p)
    <3>1. ASSUME NEW r \in Scripts, NEW step \in Steps, Moves(r, step)
          PROVE  pc[p] = "apply" \/ Verify(p)
      BY <1>0, <1>4, <3>1, ScriptsAre DEF Moves, GoTo
    <3> QED
      BY <1>4, <3>1, StepIs DEF ScriptMoves
  <2>2. tag[p] # 0 /\ registry[tag[p]] \in Pipelines /\ tag[p] \in Tags
    BY <1>0, <2>1, ScriptsAre DEF Tagged, Verify
  <2> QED
    BY <2>2, TagsStay, ImagesStay, ScriptsAre
<1> QED
  BY <1>1, <1>2, <1>3, <1>4 DEF Tagged

LEMMA RegisteredStep ==
    ASSUME Origins, [Next]_vars
    PROVE  Registered'
<1>0. /\ registry \in [Tags -> Images] /\ tag \in [Scripts -> Tags]
      /\ Placeholder \notin Pipelines /\ Registered /\ Tagged
  BY NamesAssumption DEF Origins, Typed, TypeOK, Scripts
<1>1. ASSUME NEW t \in Tags \ {0}, registry'[t] # Nobody
      PROVE  registry'[t] \in Pipelines /\ tag'[registry'[t]] = t
  <2>1. registry'[t] \in Pipelines /\ tag[registry'[t]] = t
    <3>1. CASE registry' = registry
      BY <1>0, <1>1, <3>1 DEF Registered
    <3>2. ASSUME NEW p \in Pipelines, Build(p)
          PROVE  registry'[t] \in Pipelines /\ tag[registry'[t]] = t
      BY <1>0, <1>1, <3>2 DEF Build, Registered
    <3>3. ASSUME NEW i \in Provisioners, PushPlaceholder(i)
          PROVE  registry'[t] \in Pipelines /\ tag[registry'[t]] = t
      BY <1>0, <1>1, <3>3 DEF PushPlaceholder, Registered
    <3> QED
      BY <3>1, <3>2, <3>3, StepIs
  <2>2. registry'[t] \in Scripts /\ tag[registry'[t]] # 0
    BY <1>1, <2>1, ScriptsAre
  <2> QED
    BY <2>1, <2>2, TagsStay
<1>2. registry'[0] = Placeholder
  <2>1. ASSUME NEW p \in Pipelines, Build(p) PROVE registry'[0] = Placeholder
    <3>1. tag[p] # 0
      BY <1>0, <2>1 DEF Build, Tagged
    <3> QED
      BY <1>0, <2>1, <3>1 DEF Build, Registered
  <2>2. ASSUME NEW i \in Provisioners, PushPlaceholder(i) PROVE registry'[0] = Placeholder
    BY <1>0, <2>2, PlaceholderTag DEF PushPlaceholder
  <2> QED
    BY <1>0, <2>1, <2>2, StepIs DEF Registered
<1> QED
  BY <1>1, <1>2 DEF Registered

LEMMA DeployedStep ==
    ASSUME Origins, [Next]_vars
    PROVE  Deployed'
<1>0. deployments \in Seq(Tags) /\ Deployed /\ Tagged /\ tag \in [Scripts -> Tags]
  BY DEF Origins, Typed, TypeOK
<1>1. ASSUME NEW k \in 1..Len(deployments'), deployments'[k] # 0
      PROVE  deployments'[k] \in Tags /\ registry[deployments'[k]] \in Pipelines
  <2>1. CASE deployments' = deployments
    BY <1>0, <1>1, <2>1 DEF Deployed, Primary
  <2>2. ASSUME NEW s \in Scripts, Apply(s)
        PROVE  deployments'[k] \in Tags /\ registry[deployments'[k]] \in Pipelines
    <3>1. tag[s] # 0 => registry[tag[s]] \in Pipelines
      BY <1>0, <2>2 DEF Tagged, Apply, Scripts
    <3>2. deployments' = deployments \/ deployments' = Append(deployments, tag[s])
      BY <2>2 DEF Apply
    <3>3. CASE deployments' = Append(deployments, tag[s])
      <4>1. CASE k \in 1..Len(deployments)
        BY <1>0, <1>1, <3>3, <4>1 DEF Deployed, Primary
      <4>2. CASE k = Len(deployments) + 1
        BY <1>0, <1>1, <3>1, <3>3, <4>2
      <4> QED
        BY <1>0, <1>1, <3>3, <4>1, <4>2
    <3> QED
      BY <2>1, <3>2, <3>3
  <2> QED
    BY <2>1, <2>2, StepIs
<1>2. ASSUME NEW k \in 1..Len(deployments'), deployments'[k] # 0
      PROVE  registry'[deployments'[k]] \in Pipelines
  BY <1>1, <1>2, ImagesStay
<1> QED
  BY <1>2 DEF Deployed, Primary

\* What the tag of a deployment stands for is what its task runs, or will pull.
LEMMA ImagesOfTasksStep ==
    ASSUME Origins, [Next]_vars
    PROVE  ImagesOfTasks'
<1>0. /\ task \in [Ids -> {"none", "running", "healthy"}] /\ image \in [Ids -> Images]
      /\ deployments \in Seq(Tags) /\ Len(deployments) \in Ids /\ Ids \subseteq Nat \ {0}
      /\ completed \subseteq 1..Len(deployments)
      /\ \A d \in Ids : task[d] # "none" => d <= Len(deployments)
      /\ Registered /\ Deployed /\ ImagesOfTasks
  BY Counted DEF Origins, Typed, TypeOK, TasksAreOfDeployments, Primary
<1>1. \A k \in 1..Len(deployments) : deployments'[k] = deployments[k]
  BY DeploymentsInductive DEF Origins, Typed
<1>2. ASSUME NEW d \in Ids, task'[d] \in {"running", "healthy"}
      PROVE  \/ /\ task[d] \in {"running", "healthy"} /\ image'[d] = image[d]
                /\ task'[d] = task[d] \/ image[d] # Placeholder
             \/ /\ d = Len(deployments) /\ task'[d] = "running"
                /\ image'[d] = registry[deployments[d]]
  <2>1. CASE StartTask
    BY <1>0, <1>2, <2>1 DEF StartTask, SetTask, Primary
  <2>2. ASSUME NEW e \in Ids, TaskHealthy(e) \/ TaskFails(e) \/ Drain(e)
        PROVE  /\ task[d] \in {"running", "healthy"} /\ image'[d] = image[d]
               /\ task'[d] = task[d] \/ image[d] # Placeholder
    BY <1>0, <1>2, <2>2 DEF TaskHealthy, TaskFails, Drain, SetTask
  <2>3. CASE UNCHANGED <<task, image>>
    BY <1>2, <2>3
  <2> QED
    BY <2>1, <2>2, <2>3, StepIs
<1>3. ASSUME NEW d \in Ids, task'[d] \in {"running", "healthy"}
      PROVE  /\ deployments'[d] = 0 => image'[d] = Placeholder
             /\ deployments'[d] # 0 => image'[d] \in Pipelines /\ tag'[image'[d]] = deployments'[d]
             /\ task'[d] = "healthy" => deployments'[d] # 0
  <2>1. d \in 1..Len(deployments)
    BY <1>0, <1>2, <1>3
  <2>2. deployments'[d] = deployments[d] /\ deployments[d] \in Tags
    BY <1>0, <1>1, <2>1
  <2>3. /\ deployments[d] = 0 => image'[d] = Placeholder
        /\ deployments[d] # 0 => image'[d] \in Pipelines /\ tag[image'[d]] = deployments[d]
        /\ task'[d] = "healthy" => deployments[d] # 0
    <3>1. CASE /\ task[d] \in {"running", "healthy"} /\ image'[d] = image[d]
               /\ task'[d] = task[d] \/ image[d] # Placeholder
      BY <1>0, <3>1 DEF ImagesOfTasks, Running
    <3>2. CASE /\ d = Len(deployments) /\ task'[d] = "running"
               /\ image'[d] = registry[deployments[d]]
      <4>1. Nobody \notin Pipelines
        BY NamesAssumption DEF Scripts
      <4>2. deployments[d] # 0 => registry[deployments[d]] \in Pipelines
        BY <1>0, <2>1 DEF Deployed, Primary
      <4> QED
        BY <1>0, <2>2, <3>2, <4>1, <4>2 DEF Registered
    <3> QED
      BY <1>2, <1>3, <3>1, <3>2
  <2> QED
    BY <2>2, <2>3, TagsStay, ScriptsAre
<1>4. ASSUME NEW d \in completed' PROVE deployments'[d] # 0
  <2>1. d \in completed \/ (d = Len(deployments) /\ task[d] = "healthy")
    BY StepIs DEF Complete, Primary
  <2>2. d \in 1..Len(deployments)
    <3>1. Len(deployments) \in 1..Len(deployments)
      BY <1>0
    <3> QED
      BY <1>0, <2>1, <3>1
  <2>3. deployments[d] # 0
    BY <1>0, <2>1 DEF ImagesOfTasks, Running
  <2> QED
    BY <1>1, <2>2, <2>3
<1> QED
  BY <1>3, <1>4 DEF ImagesOfTasks, Running

\* What a monitor has seen stays as true as it was.
LEMMA ImagesSeenStep ==
    ASSUME Origins, [Next]_vars
    PROVE  ImagesSeen'
<1>0. /\ pc \in [Scripts -> Steps] /\ pc' \in [Scripts -> Steps] /\ DOMAIN seen = Pipelines
      /\ deployments \in Seq(Tags) /\ Len(deployments) \in Ids /\ Ids \subseteq Nat \ {0}
      /\ ImagesOfTasks /\ ImagesSeen
  BY Counted, StepIs, PcInductive DEF Origins, Typed, TypeOK, Steps, Primary
<1>1. /\ \A k \in 1..Len(deployments) : deployments'[k] = deployments[k]
      /\ Len(deployments) <= Len(deployments') /\ Len(deployments') \in Ids
  BY DeploymentsInductive DEF Origins, Typed
<1>2. ASSUME NEW p \in Pipelines
      PROVE  \/ seen'[p] = seen[p] /\ pc'[p] = pc[p]
             \/ seen'[p] = seen[p] /\ pc'[p] # "succeeded"
             \/ seen'[p] = seen[p] /\ Stable(p)
             \/ Describe(p)
             \/ KeepWatching(p)
  <2>1. seen'[p] = seen[p] \/ Describe(p) \/ KeepWatching(p)
    <3>1. ASSUME NEW q \in Pipelines, Describe(q) \/ KeepWatching(q)
          PROVE  seen'[p] = seen[p] \/ q = p
      BY <1>0, <3>1 DEF Describe, KeepWatching
    <3> QED
      BY <3>1, StepIs
  <2>2. pc'[p] = pc[p] \/ pc'[p] # "succeeded" \/ Stable(p)
    <3>1. ASSUME NEW r \in Scripts, NEW step \in Steps, Moves(r, step)
          PROVE  pc'[p] = pc[p] \/ pc'[p] # "succeeded" \/ Stable(p)
      BY <1>0, <3>1, ScriptsAre DEF Moves, GoTo
    <3> QED
      BY <3>1, StepIs DEF ScriptMoves
  <2> QED
    BY <2>1, <2>2
<1>3. ASSUME NEW p \in Pipelines, seen'[p].completed, seen'[p].running
      PROVE  /\ seen'[p].id \in 1..Len(deployments')
             /\ seen'[p].image \in Pipelines
             /\ tag'[seen'[p].image] = deployments'[seen'[p].id]
             /\ deployments'[seen'[p].id] # 0
  <2>1. /\ seen'[p].id \in 1..Len(deployments)
        /\ seen'[p].image \in Pipelines
        /\ tag[seen'[p].image] = deployments[seen'[p].id]
        /\ deployments[seen'[p].id] # 0
    <3>1. CASE seen'[p] = seen[p]
      BY <1>0, <1>3, <3>1 DEF ImagesSeen, Primary
    <3>2. CASE Describe(p)
      <4>1. /\ seen'[p].id = Len(deployments) /\ seen'[p].image = image[Len(deployments)]
            /\ Len(deployments) \in completed /\ Running(Len(deployments))
        BY <1>0, <1>3, <3>2 DEF Describe, Primary
      <4> QED
        BY <1>0, <4>1 DEF ImagesOfTasks
    <3>3. CASE KeepWatching(p)
      BY <1>0, <1>3, <3>3 DEF KeepWatching, Nothing
    <3> QED
      BY <1>2, <3>1, <3>2, <3>3
  <2>2. seen'[p].image \in Scripts /\ tag[seen'[p].image] # 0
    BY <2>1, ScriptsAre
  <2>3. seen'[p].id \in 1..Len(deployments')
    BY <1>0, <1>1, <2>1
  <2> QED
    BY <1>1, <2>1, <2>2, <2>3, TagsStay
<1>4. ASSUME NEW p \in Pipelines, pc'[p] = "succeeded"
      PROVE  seen'[p].completed /\ seen'[p].running
  <2>1. CASE Describe(p) \/ KeepWatching(p)
    BY <1>0, <1>4, <2>1, ScriptsAre DEF Describe, KeepWatching, GoTo
  <2> QED
    BY <1>0, <1>2, <1>4, <2>1 DEF ImagesSeen, Stable
<1> QED
  BY <1>3, <1>4 DEF ImagesSeen, Primary

LEMMA OriginsStep == Origins /\ [Next]_vars => Origins'
BY TypedStep, TaggedStep, RegisteredStep, DeployedStep, ImagesOfTasksStep, ImagesSeenStep DEF Origins

\* The placeholder has no health check to succeed at, so its rollout never
\* completes, and what a monitor has seen complete was deployed under a tag that
\* only pipelines push to (iac_create.sh:175, cicd.sh:63).
THEOREM PlaceholderNeverLiveHolds == Spec => []PlaceholderNeverLive
<1>1. Origins => PlaceholderNeverLive
  BY DEF Origins, ImagesSeen, PlaceholderNeverLive
<1> QED
  BY <1>1, OriginsInit, OriginsStep, PTL DEF Spec

\* What is under a tag was built by a pipeline that has the tag.
THEOREM OwnImageUnlessSharedTagHolds == Spec => []OwnImageUnlessSharedTag
<1>1. Origins => OwnImageUnlessSharedTag
  BY DEF Origins, ImagesSeen, OwnImageUnlessSharedTag
<1> QED
  BY <1>1, OriginsInit, OriginsStep, PTL DEF Spec
=============================================================================
