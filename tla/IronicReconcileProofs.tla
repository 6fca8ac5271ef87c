----------------------- MODULE IronicReconcileProofs -----------------------
(***************************************************************************)
(* What IronicReconcile guarantees for every set of versions and           *)
(* databases, every bound and every number of failures.                    *)
(***************************************************************************)
EXTENDS IronicReconcile, TLAPS

\* Replacing the status of a well-formed object by a well-formed one.
LEMMA WithStatusType ==
  ASSUME NEW o \in Objects, NEW status \in Statuses
  PROVE  [o EXCEPT !.status = status] \in Objects
  BY DEF Objects

\* One more failure stays within the bound.
LEMMA FaultType ==
  ASSUME faults \in 0 .. MaxFaults, Fault
  PROVE  faults' \in 0 .. MaxFaults
  BY BoundsAssumption DEF BoundsAssumption, Fault

\* A status update leaves well-formed objects behind.
LEMMA StatusUpdateType ==
  ASSUME TypeOK, NEW status \in Statuses, NEW ok \in BOOLEAN, StatusUpdate(status, ok)
  PROVE  /\ ironic' \in Objects
         /\ cache' \in Objects
         /\ cacheFresh' \in BOOLEAN
         /\ faults' \in 0 .. MaxFaults
  <1>1. [ironic EXCEPT !.status = status] \in Objects
    BY WithStatusType DEF TypeOK
  <1>2. Fault => faults' \in 0 .. MaxFaults
    BY FaultType DEF TypeOK
  <1> QED
    BY <1>1, <1>2 DEF TypeOK, StatusUpdate

\* What setCondition makes of a well-formed object is a well-formed status.
LEMMA SetConditionType ==
  ASSUME NEW o \in Objects, NEW reason \in Reasons
  PROVE  setCondition(o, reason) \in Statuses
  <1>1. o.status \in Statuses /\ o.gen \in 1 .. MaxGeneration
    BY DEF Objects
  <1>2. o.gen \in 0 .. MaxGeneration
    BY <1>1, BoundsAssumption DEF BoundsAssumption
  <1> QED
    BY <1>1, <1>2 DEF Statuses, setCondition

\* So is what updateIronicStatus makes of it.
LEMMA NewStatusType ==
  ASSUME NEW o \in Objects
  PROVE  NewStatus(o) \in Statuses
  <1>1. \A reason \in Reasons : setCondition(o, reason) \in Statuses
    BY SetConditionType
  <1>2. o.spec.version \in Versions
    BY DEF Objects, Specs
  <1> QED
    BY <1>1, <1>2 DEF NewStatus, Reasons, Statuses

\* The end of a reconcile leaves a well-formed, idle worker.
LEMMA EndReconcileType ==
  ASSUME TypeOK, NEW requeue \in BOOLEAN, EndReconcile(requeue)
  PROVE  /\ queued' \in BOOLEAN
         /\ pc' \in Steps
         /\ mem' \in Objects \cup {None}
         /\ (pc' = "idle" <=> mem' = None)
         /\ memFresh' \in BOOLEAN
         /\ outcome' \in Outcomes
  BY DEF TypeOK, EndReconcile, Steps, Outcomes

\* Every state a freshly created Ironic starts from is well-formed.
LEMMA InitType == Init => TypeOK
  <1> SUFFICES ASSUME Init PROVE TypeOK
    OBVIOUS
  <1>1. NoStatus \in Statuses
    BY BoundsAssumption DEF BoundsAssumption, NoStatus, Statuses, Reasons
  <1>2. ironic \in Objects
    <2>1. PICK s \in Specs : ironic = [spec |-> s, gen |-> 1, status |-> NoStatus]
      BY DEF Init
    <2>2. 1 \in 1 .. MaxGeneration
      BY BoundsAssumption DEF BoundsAssumption
    <2> QED
      BY <1>1, <2>1, <2>2 DEF Objects
  <1>3. Absent \in Workloads /\ NoJob \in Jobs
    BY DEF Absent, NoJob, Workloads, Jobs
  <1>4. 0 \in 0 .. MaxFaults
    BY BoundsAssumption DEF BoundsAssumption
  <1> QED
    BY <1>2, <1>3, <1>4 DEF Init, TypeOK, Steps, Outcomes

\* Every step of the reconciler keeps the state well-formed.
LEMMA ReconcilerType ==
  ASSUME TypeOK, Reconciler
  PROVE  TypeOK'
  <1> USE DEF object, worker, workloads, data
  <1>1. CASE StartReconcile
    BY <1>1, NoneAssumption DEF NoneAssumption, StartReconcile, TypeOK, Steps
  <1>m. pc # "idle" => mem \in Objects
    BY DEF TypeOK
  <1>2. CASE RefuseDowngrade
    <2>1. mem \in Objects /\ setCondition(mem, "Failed") \in Statuses
      BY <1>2, <1>m, SetConditionType DEF RefuseDowngrade, Reasons
    <2>2. PICK ok \in BOOLEAN : StatusUpdate(setCondition(mem, "Failed"), ok)
      BY <1>2 DEF RefuseDowngrade
    <2>3. EndReconcile(FALSE)
      BY <1>2 DEF RefuseDowngrade
    <2> QED
      BY <1>2, <2>1, <2>2, <2>3, StatusUpdateType, EndReconcileType
      DEF RefuseDowngrade, TypeOK
  <1>3. CASE RequestVersion
    <2> DEFINE status == [setCondition(mem, "InProgress")
                            EXCEPT !.requested = mem.spec.version]
    <2>1. mem \in Objects /\ setCondition(mem, "InProgress") \in Statuses
      BY <1>3, <1>m, SetConditionType DEF RequestVersion, Reasons
    <2>2. status \in Statuses
      BY <2>1 DEF Statuses, Objects, Specs
    <2>3. CASE /\ StatusUpdate(status, TRUE)
               /\ mem' = [mem EXCEPT !.status = status]
               /\ pc' = "linked"
               /\ UNCHANGED <<queued, memFresh, outcome>>
      <3>1. mem' \in Objects
        BY <2>1, <2>2, <2>3, WithStatusType
      <3>2. mem' # None
        BY <3>1, NoneAssumption DEF NoneAssumption
      <3> QED
        BY <1>3, <2>2, <2>3, <3>1, <3>2, StatusUpdateType
        DEF RequestVersion, TypeOK, Steps
    <2>4. CASE StatusUpdate(status, FALSE) /\ EndReconcile(TRUE)
      BY <1>3, <2>2, <2>4, StatusUpdateType, EndReconcileType
      DEF RequestVersion, TypeOK
    <2> QED
      BY <1>3, <2>3, <2>4 DEF RequestVersion
  <1>4. CASE RefuseResources
    <2>1. mem \in Objects /\ setCondition(mem, "Failed") \in Statuses
      BY <1>4, <1>m, SetConditionType DEF RefuseResources, Reasons
    <2>2. PICK ok \in BOOLEAN : StatusUpdate(setCondition(mem, "Failed"), ok)
      BY <1>4 DEF RefuseResources
    <2>3. EndReconcile(linked = "missing")
      BY <1>4 DEF RefuseResources
    <2> QED
      BY <1>4, <2>1, <2>2, <2>3, StatusUpdateType, EndReconcileType
      DEF RefuseResources, TypeOK
  <1>5. CASE AcceptResources
    BY <1>5 DEF AcceptResources, Goto, TypeOK, Steps, Outcomes
  <1>6. ASSUME NEW phase \in Phases, NEW next \in Steps \ {"idle"}, pc # "idle",
               EnsureUpgradeJob(phase, next, outcome),
               UNCHANGED <<object, workloads, svc, linked, data, faults>>
        PROVE  TypeOK'
    <2>1. mem \in Objects /\ mem.spec.db \in Databases \cup {NoDatabase}
      BY <1>6, <1>m DEF Objects, Specs
    <2>2. [state |-> "running", db |-> mem.spec.db] \in Jobs
      BY <2>1 DEF Jobs
    <2>3. jobs' \in [JobKeys -> Jobs]
      BY <1>6, <2>2 DEF EnsureUpgradeJob, TypeOK
    <2>4. CASE EndReconcile(TRUE)
      BY <1>6, <2>3, <2>4, EndReconcileType DEF TypeOK
    <2>5. CASE \E step \in Steps \ {"idle"}, result \in Outcomes : Goto(step, result)
      BY <1>6, <2>3, <2>5 DEF Goto, TypeOK
    <2> QED
      BY <1>6, <2>4, <2>5 DEF EnsureUpgradeJob, TypeOK, Steps, Outcomes
  <1>7. CASE EnsurePreUpgrade
    BY <1>7, <1>6 DEF EnsurePreUpgrade, Phases, Steps
  <1>8. CASE RemoveOtherWorkload
    <2>1. Absent \in Workloads
      BY DEF Absent, Workloads
    <2> QED
      BY <1>8, <2>1 DEF RemoveOtherWorkload, Goto, TypeOK, Steps
  <1>9. CASE WriteWorkload
    <2>1. mem \in Objects /\ KindOf(mem) \in Kinds
      BY <1>9, <1>m DEF WriteWorkload, KindOf, Kinds
    <2>2. [version |-> mem.spec.version, db |-> mem.spec.db,
           phase |-> "progressing"] \in Workloads
      BY <2>1 DEF Objects, Specs, Workloads
    <2>3. CASE ~depFresh[KindOf(mem)]
      BY <1>9, <2>3, EndReconcileType DEF WriteWorkload, TypeOK
    <2>4. CASE depFresh[KindOf(mem)]
      <3>1. /\ dep' \in [Kinds -> Workloads]
            /\ depFresh' \in [Kinds -> BOOLEAN]
        BY <1>9, <2>1, <2>2, <2>4 DEF WriteWorkload, TypeOK
      <3> QED
        BY <1>9, <2>4, <3>1 DEF WriteWorkload, Goto, TypeOK, Steps, Outcomes
    <2> QED
      BY <1>9, <2>3, <2>4 DEF WriteWorkload
  <1>10. CASE CheckWorkload
    <2>1. CASE EndReconcile(TRUE)
      BY <1>10, <2>1, EndReconcileType DEF CheckWorkload, TypeOK
    <2>2. CASE \E step \in Steps \ {"idle"}, result \in Outcomes : Goto(step, result)
      BY <1>10, <2>2 DEF CheckWorkload, Goto, TypeOK
    <2> QED
      BY <1>10, <2>1, <2>2 DEF CheckWorkload, Steps, Outcomes
  <1>11. CASE EnsureService
    <2>1. mem \in Objects
      BY <1>11, <1>m DEF EnsureService
    <2>2. <<mem.spec.version, mem.spec.ha>> \in Versions \X Topologies
      BY <2>1 DEF Objects, Specs
    <2> QED
      BY <1>11, <2>2 DEF EnsureService, Goto, TypeOK, Steps, Outcomes
  <1>12. CASE EnsurePostUpgrade
    BY <1>12, <1>6 DEF EnsurePostUpgrade, Phases, Steps
  <1>13. CASE UpdateIronicStatus
    <2>1. mem \in Objects /\ NewStatus(mem) \in Statuses
      BY <1>13, <1>m, NewStatusType DEF UpdateIronicStatus
    <2>2. CASE UNCHANGED <<object, faults>> /\ EndReconcile(outcome = "updated")
      BY <1>13, <2>2, EndReconcileType DEF UpdateIronicStatus, TypeOK
    <2>3. CASE \E ok \in BOOLEAN : /\ StatusUpdate(NewStatus(mem), ok)
                                   /\ EndReconcile(outcome = "updated" \/ ~ok)
      BY <1>13, <2>1, <2>3, StatusUpdateType, EndReconcileType
      DEF UpdateIronicStatus, TypeOK
    <2> QED
      BY <1>13, <2>2, <2>3 DEF UpdateIronicStatus
  <1> QED
    BY <1>1, <1>2, <1>3, <1>4, <1>5, <1>7, <1>8, <1>9, <1>10, <1>11, <1>12, <1>13
    DEF Reconciler
\* Every failure keeps the state well-formed.
LEMMA FailuresType ==
  ASSUME TypeOK, Failures
  PROVE  TypeOK'
  <1> USE DEF object, worker, workloads, data
  <1>f. Fault => faults' \in 0 .. MaxFaults
    BY FaultType DEF TypeOK
  <1>1. CASE TransientError
    BY <1>1, <1>f, EndReconcileType DEF TransientError, TypeOK
  <1>2. CASE Restart
    BY <1>2, <1>f, EndReconcileType DEF Restart, TypeOK
  <1>3. CASE BreakLinked
    BY <1>3, <1>f DEF BreakLinked, TypeOK
  <1>4. ASSUME NEW k \in Kinds, Degrade(k)
        PROVE  TypeOK'
    <2>1. PICK phase \in {"progressing", "stalled", "failing"} : SetPhase(k, phase)
      BY <1>4 DEF Degrade
    <2>2. [dep[k] EXCEPT !.phase = phase] \in Workloads
      BY DEF TypeOK, Workloads
    <2> QED
      BY <1>4, <1>f, <2>1, <2>2 DEF Degrade, SetPhase, TypeOK
  <1>5. ASSUME NEW j \in JobKeys, FailJob(j)
        PROVE  TypeOK'
    <2>1. [jobs[j] EXCEPT !.state = "failed"] \in Jobs
      BY DEF TypeOK, Jobs
    <2> QED
      BY <1>5, <1>f, <2>1 DEF FailJob, TypeOK
  <1>6. ASSUME NEW j \in JobKeys, ExpireCompleteJob(j)
        PROVE  TypeOK'
    <2>1. NoJob \in Jobs
      BY DEF NoJob, Jobs
    <2> QED
      BY <1>6, <1>f, <2>1 DEF ExpireCompleteJob, RemoveJob, TypeOK
  <1> QED
    BY <1>1, <1>2, <1>3, <1>4, <1>5, <1>6 DEF Failures

\* So do the informers, Kubernetes, the database and the user.
LEMMA EnvironmentType ==
  ASSUME TypeOK, Environment
  PROVE  TypeOK'
  <1> USE DEF object, worker, workloads, data
  <1>1. CASE SyncIronic
    BY <1>1 DEF SyncIronic, TypeOK
  <1>2. ASSUME NEW k \in Kinds, SyncWorkload(k)
        PROVE  TypeOK'
    BY <1>2 DEF SyncWorkload, TypeOK
  <1>3. ASSUME NEW k \in Kinds, RollOut(k)
        PROVE  TypeOK'
    <2>1. [dep[k] EXCEPT !.phase = "available"] \in Workloads
      BY DEF TypeOK, Workloads
    <2>2. migrated' \in [Databases -> SUBSET Versions]
      BY <1>3 DEF RollOut, TypeOK
    <2> QED
      BY <1>3, <2>1, <2>2 DEF RollOut, SetPhase, TypeOK
  <1>4. ASSUME NEW j \in JobKeys, FinishJob(j)
        PROVE  TypeOK'
    <2>1. [jobs[j] EXCEPT !.state = "complete"] \in Jobs
      BY DEF TypeOK, Jobs
    <2>0. j.to \in Versions
      BY DEF JobKeys
    <2>2. /\ schema' \in [Databases -> SUBSET Versions]
          /\ migrated' \in [Databases -> SUBSET Versions]
      BY <1>4, <2>0 DEF FinishJob, TypeOK
    <2> QED
      BY <1>4, <2>1, <2>2 DEF FinishJob, TypeOK
  <1>5. ASSUME NEW j \in JobKeys, ExpireFailedJob(j)
        PROVE  TypeOK'
    <2>1. NoJob \in Jobs
      BY DEF NoJob, Jobs
    <2> QED
      BY <1>5, <2>1 DEF ExpireFailedJob, RemoveJob, TypeOK
  <1>6. CASE FixLinked
    BY <1>6 DEF FixLinked, TypeOK
  <1>7. CASE UserEdit
    <2>1. PICK s \in Specs : ironic' = [ironic EXCEPT !.spec = s, !.gen = @ + 1]
      BY <1>7 DEF UserEdit
    <2>2. ironic.gen \in 1 .. MaxGeneration /\ ironic.gen < MaxGeneration
      BY <1>7 DEF UserEdit, TypeOK, Objects
    <2>3. ironic.gen + 1 \in 1 .. MaxGeneration
      BY <2>2, BoundsAssumption DEF BoundsAssumption
    <2>4. ironic' \in Objects
      BY <2>1, <2>3 DEF TypeOK, Objects
    <2> QED
      BY <1>7, <2>4 DEF UserEdit, TypeOK
  <1> QED
    BY <1>1, <1>2, <1>3, <1>4, <1>5, <1>6, <1>7 DEF Environment

\* TypeOK is an invariant, for all values of the constants.
THEOREM TypeCorrect == Spec => []TypeOK
  <1>1. TypeOK /\ UNCHANGED vars => TypeOK'
    BY DEF TypeOK, vars, object, worker, workloads, data
  <1>2. TypeOK /\ [Next]_vars => TypeOK'
    BY <1>1, ReconcilerType, FailuresType, EnvironmentType DEF Next
  <1> QED
    BY InitType, <1>2, PTL DEF Spec

-----------------------------------------------------------------------------
(* One workload.  The reconciler deletes the workload of the other kind just  *)
(* before it writes its own, and nothing else creates workloads, so at the    *)
(* writing step the other one is gone.                                        *)

OneWorkloadInv ==
  /\ OneWorkload
  /\ pc = "workload" => dep[OtherKind(mem)] = Absent

\* The two kinds are different and there is no third.
LEMMA KindsOfObject ==
  ASSUME NEW o
  PROVE  /\ KindOf(o) \in Kinds
         /\ OtherKind(o) \in Kinds
         /\ KindOf(o) # OtherKind(o)
         /\ Kinds = {KindOf(o), OtherKind(o)}
  BY DEF KindOf, OtherKind, Kinds

\* A change of phase never makes an absent workload appear.
LEMMA SetPhaseKeepsAbsent ==
  ASSUME TypeOK, NEW k \in Kinds, NEW phase, SetPhase(k, phase),
         dep[k].phase # "absent"
  PROVE  \A i \in Kinds : dep[i] = Absent => dep'[i] = Absent
  BY DEF SetPhase, TypeOK, Absent

\* No step of anyone breaks OneWorkloadInv.
LEMMA OneWorkloadStep ==
  ASSUME TypeOK, OneWorkloadInv, [Next]_vars
  PROVE  OneWorkloadInv'
  <1> USE DEF object, worker, workloads, data
  <1>1. CASE RemoveOtherWorkload
    <2>1. OtherKind(mem) \in Kinds
      BY KindsOfObject
    <2> QED
      BY <1>1, <2>1 DEF RemoveOtherWorkload, Goto, OneWorkloadInv, OneWorkload,
                        OtherKind, TypeOK
  <1>2. CASE WriteWorkload
    <2>1. dep[OtherKind(mem)] = Absent
      BY <1>2 DEF WriteWorkload, OneWorkloadInv
    <2>2. dep'[OtherKind(mem)] = Absent
      BY <1>2, <2>1, KindsOfObject DEF WriteWorkload, TypeOK
    <2>3. pc' # "workload"
      BY <1>2 DEF WriteWorkload, Goto, EndReconcile
    <2> QED
      BY <2>2, <2>3, KindsOfObject DEF OneWorkloadInv, OneWorkload
  <1>3. ASSUME NEW k \in Kinds, RollOut(k) \/ Degrade(k)
        PROVE  OneWorkloadInv'
    <2>1. PICK phase : SetPhase(k, phase) /\ dep[k].phase # "absent"
      BY <1>3 DEF RollOut, Degrade
    <2>2. \A i \in Kinds : dep[i] = Absent => dep'[i] = Absent
      BY <2>1, SetPhaseKeepsAbsent
    <2>3. UNCHANGED <<pc, mem>>
      BY <1>3 DEF RollOut, Degrade
    <2>4. OtherKind(mem)' = OtherKind(mem) /\ OtherKind(mem) \in Kinds
      BY <2>3, KindsOfObject DEF OtherKind
    <2> QED
      BY <2>2, <2>3, <2>4 DEF OneWorkloadInv, OneWorkload
  <1>4. ASSUME UNCHANGED dep, pc' # "workload" \/ UNCHANGED <<pc, mem>>
        PROVE  OneWorkloadInv'
    BY <1>4 DEF OneWorkloadInv, OneWorkload, OtherKind
  <1>5. CASE Reconciler /\ ~RemoveOtherWorkload /\ ~WriteWorkload
    <2>1. UNCHANGED dep
      BY <1>5 DEF Reconciler, StartReconcile, RefuseDowngrade, RequestVersion,
                  RefuseResources, AcceptResources, EnsurePreUpgrade, CheckWorkload,
                  EnsureService, EnsurePostUpgrade, UpdateIronicStatus
    <2>2. pc' # "workload"
      BY <1>5 DEF Reconciler, StartReconcile, RefuseDowngrade, RequestVersion,
                  RefuseResources, AcceptResources, EnsurePreUpgrade, CheckWorkload,
                  EnsureService, EnsurePostUpgrade, UpdateIronicStatus,
                  EnsureUpgradeJob, Goto, EndReconcile
    <2> QED
      BY <1>4, <2>1, <2>2
  <1>6. CASE Failures /\ ~\E k \in Kinds : Degrade(k)
    BY <1>4, <1>6 DEF Failures, TransientError, Restart, BreakLinked, FailJob,
                      ExpireCompleteJob, RemoveJob, EndReconcile
  <1>7. CASE Environment /\ ~\E k \in Kinds : RollOut(k)
    BY <1>4, <1>7 DEF Environment, SyncIronic, SyncWorkload, FinishJob,
                      ExpireFailedJob, RemoveJob, FixLinked, UserEdit
  <1>8. CASE UNCHANGED vars
    BY <1>4, <1>8 DEF vars
  <1> QED
    BY <1>1, <1>2, <1>3, <1>5, <1>6, <1>7, <1>8 DEF Next, Failures, Environment

\* So OneWorkloadInv is an invariant.
LEMMA OneWorkloadInductive == Spec => []OneWorkloadInv
  <1>1. Init => OneWorkloadInv
    BY DEF Init, OneWorkloadInv, OneWorkload, Kinds
  <1>2. TypeOK /\ OneWorkloadInv /\ [Next]_vars => OneWorkloadInv'
    BY OneWorkloadStep
  <1> QED
    BY TypeCorrect, <1>1, <1>2, PTL DEF Spec

\* An Ironic never has a Deployment and a DaemonSet at the same time.
THEOREM OneWorkloadAlways == Spec => []OneWorkload
  <1>1. OneWorkloadInv => OneWorkload
    BY DEF OneWorkloadInv
  <1> QED
    BY OneWorkloadInductive, <1>1, PTL

-----------------------------------------------------------------------------
(* The schema is ready.  An older copy of the object may still say that a     *)
(* version is installed, and a finished job stays for a day; both are safe    *)
(* because a schema upgrade is never undone, and the database is the same in  *)
(* every copy as long as users leave it alone.                                *)

\* What a copy of the object calls installed has upgraded the schema.
Upgraded(o) ==
  o.spec.db \in Databases /\ o.status.installed # None
    => o.status.installed \in schema[o.spec.db]

CopiesUpgraded ==
  /\ cache.spec.db = ironic.spec.db
  /\ Upgraded(ironic) /\ Upgraded(cache)
  /\ mem # None => mem.spec.db = ironic.spec.db /\ Upgraded(mem)

JobsUpgraded ==
  \A j \in JobKeys :
    /\ jobs[j].state = "complete" /\ j.phase = "pre"
    /\ jobs[j].db \in Databases
    => j.to \in schema[jobs[j].db]

\* Past the pre-upgrade job, and when about to report the version as installed.
WorkerUpgraded ==
  \/ pc \in {"remove", "workload", "service", "post"}
  \/ pc = "report" /\ outcome = "ready"
  => (mem.spec.db \in Databases => mem.spec.version \in schema[mem.spec.db])

SchemaInv == SchemaReady /\ CopiesUpgraded /\ JobsUpgraded /\ WorkerUpgraded

\* A status whose installed version has upgraded the schema may be written.
LEMMA StatusUpdateUpgraded ==
  ASSUME TypeOK, CopiesUpgraded, schema' = schema,
         NEW status \in Statuses, NEW ok, StatusUpdate(status, ok),
         ironic.spec.db \in Databases /\ status.installed # None
           => status.installed \in schema[ironic.spec.db]
  PROVE  /\ ironic'.spec.db = ironic.spec.db
         /\ cache' = cache
         /\ Upgraded(ironic)'
         /\ Upgraded(cache)'
  <1>1. \/ ironic' = ironic
        \/ ironic' = [ironic EXCEPT !.status = status]
    BY DEF StatusUpdate
  <1>2. ironic'.spec = ironic.spec /\ ironic'.status \in {ironic.status, status}
    BY <1>1 DEF TypeOK, Objects
  <1>3. cache' = cache
    BY DEF StatusUpdate
  <1> QED
    BY <1>2, <1>3 DEF CopiesUpgraded, Upgraded

\* The reconciler: it deploys and reports only what has upgraded the schema.
LEMMA SchemaReconciler ==
  ASSUME TypeOK, SchemaInv, Reconciler
  PROVE  SchemaInv'
  <1> USE DEF object, worker, workloads, data
  <1>s. schema' = schema
    BY DEF Reconciler, StartReconcile, RefuseDowngrade, RequestVersion, RefuseResources,
           AcceptResources, EnsurePreUpgrade, RemoveOtherWorkload, WriteWorkload,
           CheckWorkload, EnsureService, EnsurePostUpgrade, UpdateIronicStatus
  <1>m. pc # "idle" => mem \in Objects /\ mem # None
    BY DEF TypeOK
  <1>o. ironic \in Objects /\ cache \in Objects
    BY DEF TypeOK
  <1>1. ASSUME UNCHANGED <<ironic, cache, dep, jobs>>,
               mem' \in {None, mem}, WorkerUpgraded'
        PROVE  SchemaInv'
    BY <1>1, <1>s DEF SchemaInv, SchemaReady, CopiesUpgraded, Upgraded, JobsUpgraded
  <1>2. CASE StartReconcile
    <2>1. UNCHANGED <<ironic, cache, dep, jobs>> /\ mem' = cache
          /\ pc' \in {"version", "linked"}
      BY <1>2 DEF StartReconcile
    <2> QED
      BY <2>1, <1>s DEF SchemaInv, SchemaReady, CopiesUpgraded, Upgraded, JobsUpgraded,
                        WorkerUpgraded
  <1>3. ASSUME NEW status \in Statuses, NEW ok \in BOOLEAN, StatusUpdate(status, ok),
               ironic.spec.db \in Databases /\ status.installed # None
                 => status.installed \in schema[ironic.spec.db],
               UNCHANGED <<dep, jobs>>,
               \/ pc' = "idle" /\ mem' = None
               \/ pc' = "linked" /\ mem' = [mem EXCEPT !.status = status] /\ mem \in Objects
                  /\ mem # None
        PROVE  SchemaInv'
    <2>1. ironic'.spec.db = ironic.spec.db /\ cache' = cache /\ Upgraded(ironic)'
          /\ Upgraded(cache)'
      BY <1>3, <1>s, StatusUpdateUpgraded DEF SchemaInv
    <2>2. mem' # None => mem'.spec.db = ironic.spec.db /\ Upgraded(mem)'
      <3>1. ASSUME mem' # None
            PROVE  mem'.spec = mem.spec /\ mem'.status = status /\ mem # None
        BY <1>3, <3>1 DEF Objects
      <3> QED
        BY <1>3, <1>s, <3>1 DEF SchemaInv, CopiesUpgraded, Upgraded
    <2>3. WorkerUpgraded'
      BY <1>3 DEF WorkerUpgraded
    <2> QED
      BY <1>3, <1>s, <2>1, <2>2, <2>3
      DEF SchemaInv, SchemaReady, CopiesUpgraded, JobsUpgraded
  <1>4. ASSUME mem \in Objects, mem # None, NEW reason \in Reasons
        PROVE  /\ setCondition(mem, reason) \in Statuses
               /\ ironic.spec.db \in Databases /\ setCondition(mem, reason).installed # None
                    => setCondition(mem, reason).installed \in schema[ironic.spec.db]
    <2>1. setCondition(mem, reason).installed = mem.status.installed
      BY <1>4 DEF setCondition, Objects, Statuses
    <2> QED
      BY <1>4, <2>1, SetConditionType DEF SchemaInv, CopiesUpgraded, Upgraded
  <1>5. CASE RefuseDowngrade
    BY <1>5, <1>m, <1>3, <1>4 DEF RefuseDowngrade, EndReconcile, Reasons
  <1>6. CASE RequestVersion
    <2> DEFINE condition == setCondition(mem, "InProgress")
               status == [condition EXCEPT !.requested = mem.spec.version]
    <2>1. /\ mem \in Objects /\ mem # None
          /\ condition \in Statuses
          /\ ironic.spec.db \in Databases /\ condition.installed # None
               => condition.installed \in schema[ironic.spec.db]
      BY <1>6, <1>m, <1>4 DEF RequestVersion, Reasons
    <2>2. status \in Statuses /\ status.installed = condition.installed
      BY <2>1 DEF Statuses, Objects, Specs
    <2>3. \E ok \in BOOLEAN : StatusUpdate(status, ok)
      BY <1>6 DEF RequestVersion
    <2>4. \/ pc' = "idle" /\ mem' = None
          \/ pc' = "linked" /\ mem' = [mem EXCEPT !.status = status]
      BY <1>6 DEF RequestVersion, EndReconcile
    <2>5. UNCHANGED <<dep, jobs>>
      BY <1>6 DEF RequestVersion
    <2> HIDE DEF status, condition
    <2> QED
      BY <2>1, <2>2, <2>3, <2>4, <2>5, <1>3
  <1>7. CASE RefuseResources
    BY <1>7, <1>m, <1>3, <1>4 DEF RefuseResources, EndReconcile, Reasons
  <1>8. CASE AcceptResources
    <2>1. pc' = "remove" => ~upgradeJobRequired(mem)
      BY <1>8 DEF AcceptResources, Goto
    <2>2. pc' = "remove" /\ mem.spec.db \in Databases
            => mem.spec.version \in schema[mem.spec.db]
      <3>1. mem \in Objects /\ mem # None
        BY <1>8, <1>m DEF AcceptResources
      <3>2. mem.spec.version # None
        BY <3>1, NoneAssumption DEF NoneAssumption, Objects, Specs
      <3> QED
        BY <2>1, <3>1, <3>2, DatabasesAssumption
        DEF DatabasesAssumption, upgradeJobRequired, SchemaInv, CopiesUpgraded, Upgraded
    <2>3. pc' \in {"remove", "pre"} \/ (pc' = "report" /\ outcome' = "failed")
      BY <1>8 DEF AcceptResources, Goto
    <2>4. UNCHANGED <<ironic, cache, dep, jobs, mem>>
      BY <1>8 DEF AcceptResources, Goto
    <2> QED
      BY <1>1, <1>s, <2>2, <2>3, <2>4 DEF WorkerUpgraded
  <1>9. ASSUME NEW phase \in Phases, NEW next, mem \in Objects, mem # None,
               EnsureUpgradeJob(phase, next, outcome),
               UNCHANGED <<ironic, cache, dep>>,
               next \in {"remove", "report"},
               phase = "post" => pc \in {"post"}
        PROVE  SchemaInv'
    <2>1. JobName(mem, phase) \in JobKeys
      BY <1>9 DEF JobName, JobKeys, Objects, Specs, Statuses
    <2>2. JobsUpgraded'
      <3>1. ASSUME NEW j \in JobKeys
            PROVE  jobs'[j] = jobs[j] \/ jobs'[j].state = "running"
        <4>1. \/ jobs' = jobs
              \/ jobs' = [jobs EXCEPT ![JobName(mem, phase)] =
                                        [state |-> "running", db |-> mem.spec.db]]
          BY <1>9 DEF EnsureUpgradeJob
        <4> QED
          BY <2>1, <4>1 DEF TypeOK
      <3> QED
        BY <3>1, <1>s DEF SchemaInv, JobsUpgraded
    <2>3. CASE pc' = next /\ outcome' = outcome /\ jobs[JobName(mem, phase)].state = "complete"
                 /\ jobs[JobName(mem, phase)].db = mem.spec.db /\ mem' = mem
      <3>1. phase = "pre" /\ mem.spec.db \in Databases => mem.spec.version \in schema[mem.spec.db]
        BY <2>1, <2>3 DEF SchemaInv, JobsUpgraded, JobName
      <3>2. phase = "post" /\ mem.spec.db \in Databases => mem.spec.version \in schema[mem.spec.db]
        BY <1>9 DEF SchemaInv, WorkerUpgraded
      <3> QED
        BY <1>9, <1>s, <2>2, <2>3, <3>1, <3>2
        DEF SchemaInv, SchemaReady, CopiesUpgraded, Upgraded, WorkerUpgraded, Phases
    <2>4. CASE /\ pc' \in {"idle", "report"} /\ outcome' # "ready"
               /\ mem' \in {None, mem}
      BY <1>9, <1>s, <2>2, <2>4
      DEF SchemaInv, SchemaReady, CopiesUpgraded, Upgraded, WorkerUpgraded
    <2> QED
      BY <1>9, <2>3, <2>4 DEF EnsureUpgradeJob, Goto, EndReconcile
  <1>10. CASE EnsurePreUpgrade
    BY <1>10, <1>m, <1>9 DEF EnsurePreUpgrade, Phases
  <1>11. CASE EnsurePostUpgrade
    BY <1>11, <1>m, <1>9 DEF EnsurePostUpgrade, Phases
  <1>12. CASE RemoveOtherWorkload
    <2>1. \A k \in Kinds : dep'[k] \in {dep[k], Absent}
      BY <1>12, KindsOfObject DEF RemoveOtherWorkload, TypeOK
    <2>2. SchemaReady'
      BY <2>1, <1>s, DatabasesAssumption
      DEF DatabasesAssumption, SchemaInv, SchemaReady, Absent
    <2>3. UNCHANGED <<ironic, cache, jobs, mem>> /\ pc = "remove" /\ pc' = "workload"
      BY <1>12 DEF RemoveOtherWorkload, Goto
    <2> QED
      BY <2>2, <2>3, <1>s
      DEF SchemaInv, CopiesUpgraded, Upgraded, JobsUpgraded, WorkerUpgraded
  <1>13. CASE WriteWorkload
    <2>1. \A k \in Kinds : \/ dep'[k] = dep[k]
                           \/ dep'[k].version = mem.spec.version /\ dep'[k].db = mem.spec.db
      <3>1. \/ dep' = dep
            \/ dep' = [dep EXCEPT ![KindOf(mem)] = [version |-> mem.spec.version,
                                                   db      |-> mem.spec.db,
                                                   phase   |-> "progressing"]]
        BY <1>13 DEF WriteWorkload
      <3> QED
        BY <3>1 DEF TypeOK
    <2>2. pc = "workload" /\ (mem.spec.db \in Databases
                                => mem.spec.version \in schema[mem.spec.db])
      BY <1>13 DEF WriteWorkload, SchemaInv, WorkerUpgraded
    <2>3. SchemaReady'
      BY <2>1, <2>2, <1>s DEF SchemaInv, SchemaReady
    <2>4. /\ UNCHANGED <<ironic, cache, jobs>>
          /\ \/ pc' = "idle" /\ mem' = None
             \/ pc' = "service" /\ mem' = mem
      BY <1>13 DEF WriteWorkload, Goto, EndReconcile
    <2> QED
      BY <2>2, <2>3, <2>4, <1>s
      DEF SchemaInv, CopiesUpgraded, Upgraded, JobsUpgraded, WorkerUpgraded
  <1>14. CASE CheckWorkload
    <2>1. /\ UNCHANGED <<ironic, cache, dep, jobs>>
          /\ \/ pc' = "idle" /\ mem' = None
             \/ pc' = "service" /\ mem' = mem
             \/ pc' = "report" /\ mem' = mem /\ outcome' = "failed"
      BY <1>14 DEF CheckWorkload, Goto, EndReconcile
    <2> QED
      BY <1>1, <1>14, <2>1, <1>s DEF CheckWorkload, SchemaInv, WorkerUpgraded
  <1>15. CASE EnsureService
    <2>1. UNCHANGED <<ironic, cache, dep, jobs, mem>>
      BY <1>15 DEF EnsureService, Goto
    <2> QED
      BY <1>1, <1>15, <2>1, <1>s DEF EnsureService, SchemaInv, WorkerUpgraded
  <1>16. CASE UpdateIronicStatus
    <2>1. mem \in Objects /\ mem # None /\ NewStatus(mem) \in Statuses
      BY <1>16, <1>m, NewStatusType DEF UpdateIronicStatus
    <2>2. NewStatus(mem).installed = IF outcome = "ready" THEN mem.spec.version
                                                          ELSE mem.status.installed
      BY <2>1 DEF NewStatus, setCondition, Objects, Statuses
    <2>3. ironic.spec.db \in Databases /\ NewStatus(mem).installed # None
            => NewStatus(mem).installed \in schema[ironic.spec.db]
      BY <1>16, <2>1, <2>2
      DEF UpdateIronicStatus, SchemaInv, CopiesUpgraded, Upgraded, WorkerUpgraded
    <2>4. UNCHANGED <<dep, jobs>> /\ pc' = "idle" /\ mem' = None
      BY <1>16 DEF UpdateIronicStatus, EndReconcile
    <2>5. CASE UNCHANGED object
      BY <1>1, <2>4, <2>5 DEF WorkerUpgraded
    <2>6. CASE \E ok \in BOOLEAN : StatusUpdate(NewStatus(mem), ok)
      BY <1>3, <2>1, <2>3, <2>4, <2>6
    <2> QED
      BY <1>16, <2>5, <2>6 DEF UpdateIronicStatus
  <1> QED
    BY <1>2, <1>5, <1>6, <1>7, <1>8, <1>10, <1>11, <1>12, <1>13, <1>14, <1>15, <1>16
    DEF Reconciler

\* Failures change neither the schema nor what anyone believes of it.
LEMMA SchemaFailures ==
  ASSUME TypeOK, SchemaInv, Failures
  PROVE  SchemaInv'
  <1> USE DEF object, worker, workloads, data
  <1>1. UNCHANGED <<ironic, schema>> /\ cache' \in {cache, ironic}
    BY DEF Failures, TransientError, Restart, BreakLinked, Degrade, FailJob,
           ExpireCompleteJob, RemoveJob
  <1>2. \/ pc' = "idle" /\ mem' = None
        \/ UNCHANGED <<pc, mem, outcome>>
    BY DEF Failures, TransientError, Restart, BreakLinked, Degrade, FailJob,
           ExpireCompleteJob, RemoveJob, EndReconcile
  <1>3. \A k \in Kinds : dep'[k].version = dep[k].version /\ dep'[k].db = dep[k].db
    <2>1. \/ UNCHANGED dep
          \/ \E k \in Kinds, phase \in {"progressing", "stalled", "failing"} :
               dep' = [dep EXCEPT ![k].phase = phase]
      BY DEF Failures, TransientError, Restart, BreakLinked, Degrade, SetPhase, FailJob,
             ExpireCompleteJob, RemoveJob
    <2>2. ASSUME NEW k \in Kinds, NEW phase, dep' = [dep EXCEPT ![k].phase = phase]
          PROVE  \A i \in Kinds : dep'[i].version = dep[i].version /\ dep'[i].db = dep[i].db
      BY <2>2 DEF TypeOK, Workloads
    <2> QED
      BY <2>1, <2>2
  <1>4. \A j \in JobKeys : jobs'[j] = jobs[j] \/ jobs'[j].state \in {"failed", "absent"}
    <2>1. \/ UNCHANGED jobs
          \/ \E j \in JobKeys : \/ jobs' = [jobs EXCEPT ![j].state = "failed"]
                                \/ jobs' = [jobs EXCEPT ![j] = NoJob]
      BY DEF Failures, TransientError, Restart, BreakLinked, Degrade, FailJob,
             ExpireCompleteJob, RemoveJob
    <2> QED
      BY <2>1 DEF TypeOK, Jobs, NoJob
  <1> QED
    BY <1>1, <1>2, <1>3, <1>4
    DEF SchemaInv, SchemaReady, CopiesUpgraded, Upgraded, JobsUpgraded, WorkerUpgraded

\* The environment only adds to the schema; users leave the database alone.
LEMMA SchemaEnvironment ==
  ASSUME TypeOK, SchemaInv, Environment, ~DatabaseEdits
  PROVE  SchemaInv'
  <1> USE DEF object, worker, workloads, data
  <1>1. \A d \in Databases : schema[d] \subseteq schema'[d]
    <2>1. CASE \E j \in JobKeys : FinishJob(j)
      BY <2>1 DEF FinishJob
    <2>2. CASE schema' = schema
      BY <2>2
    <2> QED
      BY <2>1, <2>2
      DEF Environment, SyncIronic, SyncWorkload, RollOut, ExpireFailedJob, RemoveJob,
          FixLinked, UserEdit
  <1>2. UNCHANGED <<pc, mem, outcome>>
    BY DEF Environment, SyncIronic, SyncWorkload, RollOut, FinishJob,
           ExpireFailedJob, RemoveJob, FixLinked, UserEdit
  <1>3. /\ ironic'.spec.db = ironic.spec.db
        /\ ironic'.status = ironic.status
        /\ cache' \in {cache, ironic'}
    <2>1. \/ UNCHANGED ironic /\ cache' \in {cache, ironic}
          \/ /\ cache' = cache
             /\ \E s \in Specs : /\ s.db = ironic.spec.db
                                 /\ ironic' = [ironic EXCEPT !.spec = s, !.gen = @ + 1]
      BY DEF Environment, SyncIronic, SyncWorkload, RollOut, FinishJob,
             ExpireFailedJob, RemoveJob, FixLinked, UserEdit
    <2> QED
      BY <2>1 DEF TypeOK, Objects
  <1>4. \A k \in Kinds : dep'[k].version = dep[k].version /\ dep'[k].db = dep[k].db
    <2>1. \/ UNCHANGED dep
          \/ \E k \in Kinds : dep' = [dep EXCEPT ![k].phase = "available"]
      BY DEF Environment, SyncIronic, SyncWorkload, RollOut, SetPhase, FinishJob,
             ExpireFailedJob, RemoveJob, FixLinked, UserEdit
    <2> QED
      BY <2>1 DEF TypeOK, Workloads
  <1>5. ASSUME NEW k \in Kinds, dep[k].db \in Databases
        PROVE  dep'[k].version \in schema'[dep'[k].db]
    BY <1>1, <1>4, <1>5 DEF SchemaInv, SchemaReady
  <1>6. JobsUpgraded'
    <2>1. CASE \E i \in JobKeys : FinishJob(i)
      <3>1. PICK i \in JobKeys : FinishJob(i)
        BY <2>1
      <3>2. ASSUME NEW j \in JobKeys, j # i
            PROVE  jobs'[j] = jobs[j]
        BY <3>1, <3>2 DEF FinishJob, TypeOK
      <3>3. jobs'[i].db = jobs[i].db
        BY <3>1 DEF FinishJob, TypeOK, Jobs
      <3>4. i.phase = "pre" /\ jobs[i].db \in Databases => i.to \in schema'[jobs[i].db]
        BY <3>1 DEF FinishJob
      <3> QED
        BY <1>1, <3>2, <3>3, <3>4 DEF SchemaInv, JobsUpgraded
    <2>2. CASE \E i \in JobKeys : ExpireFailedJob(i)
      <3>1. \A j \in JobKeys : jobs'[j] = jobs[j] \/ jobs'[j].state = "absent"
        BY <2>2 DEF ExpireFailedJob, RemoveJob, TypeOK, NoJob
      <3> QED
        BY <1>1, <3>1 DEF SchemaInv, JobsUpgraded
    <2>3. CASE UNCHANGED jobs
      BY <1>1, <2>3 DEF SchemaInv, JobsUpgraded
    <2> QED
      BY <2>1, <2>2, <2>3
      DEF Environment, SyncIronic, SyncWorkload, RollOut, FixLinked, UserEdit
  <1>7. SchemaReady'
    BY <1>4, <1>5 DEF SchemaReady
  <1>8. CopiesUpgraded'
    BY <1>1, <1>2, <1>3 DEF SchemaInv, CopiesUpgraded, Upgraded
  <1>9. WorkerUpgraded'
    BY <1>1, <1>2 DEF SchemaInv, WorkerUpgraded
  <1> QED
    BY <1>6, <1>7, <1>8, <1>9 DEF SchemaInv

\* So SchemaInv is an invariant as long as users leave the database alone.
LEMMA SchemaInductive ==
  ASSUME ~DatabaseEdits
  PROVE  Spec => []SchemaInv
  <1>1. Init => SchemaInv
    <2> SUFFICES ASSUME Init PROVE SchemaInv
      OBVIOUS
    <2>1. ironic.status = NoStatus
      BY DEF Init
    <2>2. SchemaReady /\ JobsUpgraded
      BY DatabasesAssumption
      DEF DatabasesAssumption, Init, SchemaReady, JobsUpgraded, Absent, NoJob
    <2> QED
      BY <2>1, <2>2
      DEF Init, SchemaInv, CopiesUpgraded, Upgraded, WorkerUpgraded, NoStatus
  <1>2. TypeOK /\ SchemaInv /\ UNCHANGED vars => SchemaInv'
    BY DEF vars, object, worker, workloads, data, SchemaInv, SchemaReady,
           CopiesUpgraded, Upgraded, JobsUpgraded, WorkerUpgraded
  <1>3. TypeOK /\ SchemaInv /\ [Next]_vars => SchemaInv'
    BY <1>2, SchemaReconciler, SchemaFailures, SchemaEnvironment DEF Next
  <1> QED
    BY TypeCorrect, <1>1, <1>3, PTL DEF Spec

\* As long as users do not attach or detach the database, an Ironic that uses
\* one runs only on a schema upgraded by its own version.
THEOREM SchemaAlwaysReady ==
  ASSUME ~DatabaseEdits
  PROVE  Spec => []SchemaReady
  <1>1. SchemaInv => SchemaReady
    BY DEF SchemaInv
  <1> QED
    BY SchemaInductive, <1>1, PTL

-----------------------------------------------------------------------------
(* What status updates may do.  Only the reconciler writes the status, and    *)
(* only when the copy it works on is the current object.                      *)

FreshInv ==
  /\ cacheFresh => cache = ironic
  /\ memFresh => mem = ironic

\* The statuses the reconciler writes, by the step it is at.
WrittenStatus(status) ==
  \/ status = setCondition(mem, "Failed")
  \/ /\ pc = "version"
     /\ ~IsDowngrade(mem)
     /\ status = [setCondition(mem, "InProgress") EXCEPT !.requested = mem.spec.version]
  \/ pc = "report" /\ status = NewStatus(mem)

\* Every step leaves the object alone, or is an edit, or writes such a status
\* to the very object the reconciler holds.
LEMMA StatusWrites ==
  ASSUME TypeOK, FreshInv, [Next]_vars
  PROVE  \/ UNCHANGED ironic
         \/ UserEdit
         \/ /\ mem = ironic /\ memFresh /\ cache' = cache
            /\ \E status : /\ ironic' = [ironic EXCEPT !.status = status]
                           /\ WrittenStatus(status)
  <1> USE DEF object
  <1>1. ASSUME NEW status, NEW ok, StatusUpdate(status, ok)
        PROVE  \/ UNCHANGED ironic
               \/ /\ mem = ironic /\ memFresh /\ cache' = cache
                  /\ ironic' = [ironic EXCEPT !.status = status]
    BY <1>1 DEF StatusUpdate, FreshInv
  <1>2. CASE RefuseDowngrade \/ RefuseResources
    BY <1>1, <1>2 DEF RefuseDowngrade, RefuseResources, WrittenStatus
  <1>3. CASE RequestVersion
    <2> DEFINE status == [setCondition(mem, "InProgress")
                            EXCEPT !.requested = mem.spec.version]
    <2>1. (\E ok : StatusUpdate(status, ok)) /\ WrittenStatus(status)
      BY <1>3 DEF RequestVersion, WrittenStatus
    <2> QED
      BY <1>1, <2>1
  <1>4. CASE UpdateIronicStatus
    BY <1>1, <1>4 DEF UpdateIronicStatus, WrittenStatus
  <1>5. CASE Reconciler /\ ~(RefuseDowngrade \/ RefuseResources) /\ ~RequestVersion
             /\ ~UpdateIronicStatus
    BY <1>5 DEF Reconciler, StartReconcile, AcceptResources, EnsurePreUpgrade,
                RemoveOtherWorkload, WriteWorkload, CheckWorkload, EnsureService,
                EnsurePostUpgrade
  <1>6. CASE Failures
    BY <1>6 DEF Failures, TransientError, Restart, BreakLinked, Degrade, FailJob,
                ExpireCompleteJob, RemoveJob
  <1>7. CASE Environment /\ ~UserEdit
    BY <1>7 DEF Environment, SyncIronic, SyncWorkload, RollOut, FinishJob,
                ExpireFailedJob, RemoveJob, FixLinked
  <1>8. CASE UNCHANGED vars
    BY <1>8 DEF vars
  <1> QED
    BY <1>2, <1>3, <1>4, <1>5, <1>6, <1>7, <1>8 DEF Next

\* The marks "current" are right.
LEMMA FreshStep ==
  ASSUME TypeOK, FreshInv, [Next]_vars
  PROVE  FreshInv'
  <1> USE DEF object, worker
  <1>1. ASSUME NEW status, NEW ok \in BOOLEAN, StatusUpdate(status, ok)
        PROVE  /\ cacheFresh' => cache' = ironic'
               /\ ok => ironic' = [mem EXCEPT !.status = status]
    <2>1. ironic = [ironic EXCEPT !.status = ironic.status]
      BY DEF TypeOK, Objects
    <2>2. CASE /\ ironic' = [ironic EXCEPT !.status = status]
               /\ cacheFresh' = (cacheFresh /\ status = ironic.status)
               /\ cache' = cache
               /\ memFresh
      BY <2>1, <2>2 DEF FreshInv
    <2>3. CASE UNCHANGED <<ironic, cacheFresh, cache>> /\ ~ok
      BY <2>3 DEF FreshInv
    <2> QED
      BY <1>1, <2>2, <2>3 DEF StatusUpdate
  <1>2. CASE RefuseDowngrade \/ RefuseResources
    BY <1>1, <1>2 DEF RefuseDowngrade, RefuseResources, EndReconcile, FreshInv
  <1>3. CASE RequestVersion
    <2> DEFINE status == [setCondition(mem, "InProgress")
                            EXCEPT !.requested = mem.spec.version]
    <2>1. \/ StatusUpdate(status, TRUE) /\ mem' = [mem EXCEPT !.status = status]
             /\ memFresh' = memFresh
          \/ StatusUpdate(status, FALSE) /\ memFresh' = FALSE
      BY <1>3 DEF RequestVersion, EndReconcile
    <2> HIDE DEF status
    <2>2. cacheFresh' => cache' = ironic'
      BY <1>1, <2>1
    <2>3. memFresh' => mem' = ironic'
      BY <1>1, <2>1
    <2> QED
      BY <2>2, <2>3 DEF FreshInv
  <1>4. CASE UpdateIronicStatus
    <2>1. memFresh' = FALSE
      BY <1>4 DEF UpdateIronicStatus, EndReconcile
    <2> QED
      BY <1>1, <1>4, <2>1 DEF UpdateIronicStatus, FreshInv
  <1>5. CASE Reconciler /\ ~(RefuseDowngrade \/ RefuseResources) /\ ~RequestVersion
             /\ ~UpdateIronicStatus
    <2>1. UNCHANGED object
      BY <1>5 DEF Reconciler, StartReconcile, AcceptResources, EnsurePreUpgrade,
                  RemoveOtherWorkload, WriteWorkload, CheckWorkload, EnsureService,
                  EnsurePostUpgrade
    <2>2. \/ memFresh' = FALSE
          \/ UNCHANGED <<mem, memFresh>>
          \/ mem' = cache /\ memFresh' = cacheFresh
      BY <1>5 DEF Reconciler, StartReconcile, AcceptResources, EnsurePreUpgrade,
                  RemoveOtherWorkload, WriteWorkload, CheckWorkload, EnsureService,
                  EnsurePostUpgrade, EnsureUpgradeJob, Goto, EndReconcile
    <2> QED
      BY <2>1, <2>2 DEF FreshInv
  <1>6. CASE Failures
    BY <1>6 DEF Failures, TransientError, Restart, BreakLinked, Degrade, FailJob,
                ExpireCompleteJob, RemoveJob, EndReconcile, FreshInv
  <1>7. CASE Environment
    <2>1. CASE SyncIronic
      BY <2>1 DEF SyncIronic, FreshInv
    <2>2. CASE UserEdit
      BY <2>2 DEF UserEdit, FreshInv
    <2>3. CASE UNCHANGED <<ironic, cache, cacheFresh, mem, memFresh>>
      BY <2>3 DEF FreshInv
    <2> QED
      BY <1>7, <2>1, <2>2, <2>3
      DEF Environment, SyncWorkload, RollOut, FinishJob, ExpireFailedJob, RemoveJob,
          FixLinked
  <1>8. CASE UNCHANGED vars
    BY <1>8 DEF vars, FreshInv
  <1> QED
    BY <1>2, <1>3, <1>4, <1>5, <1>6, <1>7, <1>8 DEF Next

\* Copies marked current are current, whatever fails.
THEOREM CopiesFresh == Spec => []FreshInv
  <1>1. Init => FreshInv
    BY DEF Init, FreshInv
  <1>2. TypeOK /\ FreshInv /\ [Next]_vars => FreshInv'
    BY FreshStep
  <1> QED
    BY TypeCorrect, <1>1, <1>2, PTL DEF Spec

-----------------------------------------------------------------------------
(* Ready means installed.  The condition carries the generation it is about,  *)
(* so an edit makes it outdated instead of wrong.                             *)

ReadyInv ==
  /\ ironic.status.obsGen <= ironic.gen
  /\ ReadyMeansInstalled

\* The fields of the statuses the reconciler writes.
LEMMA WrittenFields ==
  ASSUME mem \in Objects, NEW status, WrittenStatus(status)
  PROVE  /\ status \in Statuses
         /\ status.obsGen = mem.gen
         /\ \/ /\ status.reason # "Available"
               /\ status.installed = mem.status.installed
               /\ \/ status.requested = mem.status.requested
                  \/ /\ pc = "version"
                     /\ status.requested = mem.spec.version
                     /\ ~IsDowngrade(mem)
            \/ /\ pc = "report" /\ outcome = "ready"
               /\ status.installed = mem.spec.version
               /\ status.requested = mem.status.requested
  <1>1. ASSUME NEW reason \in Reasons
        PROVE  /\ setCondition(mem, reason) \in Statuses
               /\ setCondition(mem, reason).reason = reason
               /\ setCondition(mem, reason).obsGen = mem.gen
               /\ setCondition(mem, reason).installed = mem.status.installed
               /\ setCondition(mem, reason).requested = mem.status.requested
    <2>1. setCondition(mem, reason) \in Statuses
      BY SetConditionType
    <2> QED
      BY <2>1 DEF setCondition, Objects, Statuses
  <1>2. CASE status = setCondition(mem, "Failed")
    BY <1>1, <1>2 DEF Reasons
  <1>3. CASE /\ pc = "version"
             /\ ~IsDowngrade(mem)
             /\ status = [setCondition(mem, "InProgress") EXCEPT !.requested = mem.spec.version]
    <2> DEFINE condition == setCondition(mem, "InProgress")
    <2>1. /\ condition \in Statuses
          /\ condition.reason = "InProgress"
          /\ condition.obsGen = mem.gen
          /\ condition.installed = mem.status.installed
      BY <1>1 DEF Reasons
    <2>2. mem.spec.version \in Versions
      BY DEF Objects, Specs
    <2> HIDE DEF condition
    <2>3. status = [condition EXCEPT !.requested = mem.spec.version]
      BY <1>3 DEF condition
    <2> QED
      BY <1>3, <2>1, <2>2, <2>3 DEF Statuses
  <1>4. CASE pc = "report" /\ status = NewStatus(mem)
    <2>1. PICK reason \in Reasons :
            /\ outcome # "ready" => reason # "Available"
            /\ NewStatus(mem) = [setCondition(mem, reason) EXCEPT
                 !.installed = IF outcome = "ready" THEN mem.spec.version ELSE @]
      BY DEF NewStatus, Reasons
    <2>2. mem.spec.version \in Versions
      BY DEF Objects, Specs
    <2> DEFINE condition == setCondition(mem, reason)
    <2>3. /\ condition \in Statuses
          /\ condition.reason = reason
          /\ condition.obsGen = mem.gen
          /\ condition.installed = mem.status.installed
          /\ condition.requested = mem.status.requested
      BY <1>1
    <2>4. status = [condition EXCEPT
                      !.installed = IF outcome = "ready" THEN mem.spec.version ELSE @]
      BY <1>4, <2>1
    <2> HIDE DEF condition
    <2>5. CASE outcome = "ready"
      BY <1>4, <2>2, <2>3, <2>4, <2>5 DEF Statuses
    <2>6. CASE outcome # "ready"
      BY <1>4, <2>1, <2>3, <2>4, <2>6 DEF Statuses
    <2> QED
      BY <2>5, <2>6
  <1> QED
    BY <1>2, <1>3, <1>4 DEF WrittenStatus

\* No step breaks ReadyInv.
LEMMA ReadyStep ==
  ASSUME TypeOK, FreshInv, ReadyInv, [Next]_vars
  PROVE  ReadyInv'
  <1>1. CASE UNCHANGED ironic
    BY <1>1 DEF ReadyInv, ReadyMeansInstalled, ReadyNow
  <1>2. CASE UserEdit
    <2>1. PICK s \in Specs : ironic' = [ironic EXCEPT !.spec = s, !.gen = @ + 1]
      BY <1>2 DEF UserEdit
    <2>2. ironic'.gen = ironic.gen + 1 /\ ironic'.status = ironic.status
      BY <2>1 DEF TypeOK, Objects
    <2>3. ironic.gen \in Nat /\ ironic.status.obsGen \in Nat
      BY BoundsAssumption DEF BoundsAssumption, TypeOK, Objects, Statuses
    <2>4. ironic.status.obsGen <= ironic.gen + 1 /\ ironic.status.obsGen # ironic.gen + 1
      BY <2>3 DEF ReadyInv
    <2> QED
      BY <2>2, <2>4 DEF ReadyInv, ReadyMeansInstalled, ReadyNow
  <1>3. ASSUME mem = ironic,
               NEW status, ironic' = [ironic EXCEPT !.status = status], WrittenStatus(status)
        PROVE  ReadyInv'
    <2>1. mem \in Objects
      BY <1>3 DEF TypeOK
    <2>2. ironic'.status = status /\ ironic'.gen = mem.gen /\ ironic'.spec = mem.spec
      BY <1>3, <2>1 DEF Objects
    <2>3. mem.gen <= mem.gen
      BY <2>1, BoundsAssumption DEF BoundsAssumption, Objects
    <2> QED
      BY <1>3, <2>1, <2>2, <2>3, WrittenFields DEF ReadyInv, ReadyMeansInstalled, ReadyNow
  <1> QED
    BY <1>1, <1>2, <1>3, StatusWrites

\* So ReadyInv is an invariant.
LEMMA ReadyInductive == Spec => []ReadyInv
  <1>1. Init => ReadyInv
    <2> SUFFICES ASSUME Init PROVE ReadyInv
      OBVIOUS
    <2>1. ironic.gen = 1 /\ ironic.status = NoStatus
      BY DEF Init
    <2> QED
      BY <2>1 DEF ReadyInv, ReadyMeansInstalled, ReadyNow, NoStatus
  <1>2. TypeOK /\ FreshInv /\ ReadyInv /\ [Next]_vars => ReadyInv'
    BY ReadyStep
  <1> QED
    BY TypeCorrect, CopiesFresh, <1>1, <1>2, PTL DEF Spec

\* A Ready condition for the current generation means that the version asked
\* for is the one recorded as installed.
THEOREM ReadyAlwaysMeansInstalled == Spec => []ReadyMeansInstalled
  <1>1. ReadyInv => ReadyMeansInstalled
    BY DEF ReadyInv
  <1> QED
    BY ReadyInductive, <1>1, PTL

-----------------------------------------------------------------------------
(* The installed version only goes forward.  The guard compares with the      *)
(* installed version alone, which is enough for this: what was requested      *)
(* passed the guard, and only what is requested or installed is deployed.     *)

\* What was requested last is not older than what is installed.
Forward(o) ==
  o.spec.db \in Databases /\ o.status.installed \notin {None, Latest}
  /\ o.status.requested # None
    => ~Less(o.status.requested, o.status.installed)

ForwardInv ==
  /\ cache.spec.db = ironic.spec.db
  /\ Forward(ironic) /\ Forward(cache)
  /\ mem # None => Forward(mem) /\ mem.spec.db = ironic.spec.db
  /\ pc \notin {"idle", "version"} => ~VersionChanged(mem)

\* A status the reconciler writes keeps requested ahead of installed, and does
\* not take installed back.
LEMMA WritesForward ==
  ASSUME mem \in Objects, Forward(mem),
         pc \notin {"idle", "version"} => ~VersionChanged(mem),
         NEW status, WrittenStatus(status)
  PROVE  /\ Forward([mem EXCEPT !.status = status])
         /\ LET old == mem.status.installed
            IN  mem.spec.db \in Databases /\ old # None /\ status.installed # old
                  => /\ status.installed # None
                     /\ old = Latest \/ ~Less(status.installed, old)
  <1> DEFINE new == [mem EXCEPT !.status = status]
  <1>1. new.spec = mem.spec /\ new.status = status
    BY DEF Objects
  <1>2. mem.spec.version \in Versions /\ mem.spec.version \in Nat
    BY VersionsAssumption DEF VersionsAssumption, Objects, Specs
  <1>3. ~Less(mem.spec.version, mem.spec.version)
    BY <1>2 DEF Less, Compare
  <1>4. mem.spec.db \in Databases => mem.spec.db # NoDatabase
    BY DatabasesAssumption DEF DatabasesAssumption
  <1>5. mem.spec.version # None
    BY <1>2, NoneAssumption DEF NoneAssumption
  <1> HIDE DEF new
  <1>6. CASE /\ status.installed = mem.status.installed
             /\ status.requested = mem.status.requested
    BY <1>1, <1>6 DEF Forward, new
  <1>7. CASE /\ status.installed = mem.status.installed
             /\ status.requested = mem.spec.version
             /\ ~IsDowngrade(mem)
    BY <1>1, <1>4, <1>7 DEF Forward, IsDowngrade, new
  <1>8. CASE /\ pc = "report"
             /\ status.installed = mem.spec.version
             /\ status.requested = mem.status.requested
    <2>1. \/ mem.spec.version = mem.status.installed
          \/ mem.spec.version = mem.status.requested
      BY <1>8 DEF VersionChanged
    <2> QED
      BY <1>1, <1>3, <1>5, <1>8, <2>1 DEF Forward, new
  <1> QED
    BY <1>6, <1>7, <1>8, WrittenFields

\* The copies of the object: each step gives them an old value or the new one.
LEMMA CopyStep ==
  ASSUME TypeOK, FreshInv, [Next]_vars
  PROVE  /\ cache' \in {cache, ironic, ironic'}
         /\ \/ UNCHANGED <<mem, pc>>
            \/ mem' = None /\ pc' = "idle"
            \/ mem' = cache /\ (pc' # "version" => ~VersionChanged(cache))
            \/ mem' = ironic' /\ ~VersionChanged(mem')
            \/ mem' = mem /\ pc \notin {"idle", "version"} /\ pc' # "idle"
  <1> USE DEF object, worker
  <1>1. CASE RequestVersion
    <2> DEFINE status == [setCondition(mem, "InProgress")
                            EXCEPT !.requested = mem.spec.version]
    <2>1. \/ StatusUpdate(status, TRUE) /\ mem' = [mem EXCEPT !.status = status]
          \/ StatusUpdate(status, FALSE) /\ mem' = None /\ pc' = "idle"
      BY <1>1 DEF RequestVersion, EndReconcile
    <2>2. cache' = cache
      BY <1>1 DEF RequestVersion, StatusUpdate
    <2>3. ASSUME StatusUpdate(status, TRUE), mem' = [mem EXCEPT !.status = status]
          PROVE  mem' = ironic' /\ ~VersionChanged(mem')
      <3>1. mem = ironic /\ ironic' = [ironic EXCEPT !.status = status]
        BY <2>3 DEF StatusUpdate, FreshInv
      <3>2. mem \in Objects
        BY <3>1 DEF TypeOK
      <3>3. setCondition(mem, "InProgress") \in Statuses
        BY <3>2, SetConditionType DEF Reasons
      <3>4. status.requested = mem.spec.version
        BY <3>3 DEF Statuses
      <3> HIDE DEF status
      <3>5. mem'.spec = mem.spec /\ mem'.status = status
        BY <2>3, <3>2 DEF Objects
      <3> QED
        BY <2>3, <3>1, <3>4, <3>5 DEF VersionChanged
    <2> QED
      BY <2>1, <2>2, <2>3
  <1>2. CASE Reconciler /\ ~RequestVersion
    <2>1. cache' = cache
      BY <1>2 DEF Reconciler, StartReconcile, AcceptResources, EnsurePreUpgrade,
                  RemoveOtherWorkload, WriteWorkload, CheckWorkload, EnsureService,
                  EnsurePostUpgrade, RefuseDowngrade, RefuseResources,
                  UpdateIronicStatus, StatusUpdate
    <2>2. \/ mem' = None /\ pc' = "idle"
          \/ mem' = cache /\ (pc' # "version" => ~VersionChanged(cache))
          \/ mem' = mem /\ pc \notin {"idle", "version"} /\ pc' # "idle"
      BY <1>2 DEF Reconciler, StartReconcile, AcceptResources, EnsurePreUpgrade,
                  RemoveOtherWorkload, WriteWorkload, CheckWorkload, EnsureService,
                  EnsurePostUpgrade, RefuseDowngrade, RefuseResources,
                  UpdateIronicStatus, EnsureUpgradeJob, Goto, EndReconcile
    <2> QED
      BY <2>1, <2>2
  <1>3. CASE Failures
    BY <1>3 DEF Failures, TransientError, Restart, BreakLinked, Degrade, FailJob,
                ExpireCompleteJob, RemoveJob, EndReconcile
  <1>4. CASE Environment
    BY <1>4 DEF Environment, SyncIronic, SyncWorkload, RollOut, FinishJob,
                ExpireFailedJob, RemoveJob, FixLinked, UserEdit
  <1>5. CASE UNCHANGED vars
    BY <1>5 DEF vars
  <1> QED
    BY <1>1, <1>2, <1>3, <1>4, <1>5 DEF Next

\* With a database that stays attached or detached, a step keeps ForwardInv and
\* does not take the installed version back.
LEMMA ForwardStep ==
  ASSUME TypeOK, FreshInv, ForwardInv, [Next]_vars, ~DatabaseEdits
  PROVE  /\ ForwardInv'
         /\ LET old == ironic.status.installed
                new == ironic'.status.installed
            IN  ironic.spec.db \in Databases /\ old # None /\ new # old
                  => new # None /\ (old = Latest \/ ~Less(new, old))
  <1>1. ironic \in Objects
    BY DEF TypeOK
  <1>2. /\ ironic'.spec.db = ironic.spec.db
        /\ Forward(ironic')
        /\ LET old == ironic.status.installed
               new == ironic'.status.installed
           IN  ironic.spec.db \in Databases /\ old # None /\ new # old
                 => new # None /\ (old = Latest \/ ~Less(new, old))
    <2>1. CASE UNCHANGED ironic
      BY <2>1 DEF ForwardInv, Forward
    <2>2. CASE UserEdit
      <3>1. PICK s \in Specs : /\ s.db = ironic.spec.db
                               /\ ironic' = [ironic EXCEPT !.spec = s, !.gen = @ + 1]
        BY <2>2 DEF UserEdit
      <3>2. ironic'.spec = s /\ ironic'.status = ironic.status
        BY <1>1, <3>1 DEF Objects
      <3> QED
        BY <3>1, <3>2 DEF ForwardInv, Forward
    <2>3. ASSUME mem = ironic,
                 NEW status, ironic' = [ironic EXCEPT !.status = status],
                 WrittenStatus(status)
          PROVE  /\ ironic'.spec.db = ironic.spec.db
                 /\ Forward(ironic')
                 /\ LET old == ironic.status.installed
                        new == ironic'.status.installed
                    IN  ironic.spec.db \in Databases /\ old # None /\ new # old
                          => new # None /\ (old = Latest \/ ~Less(new, old))
      <3>1. mem \in Objects /\ mem # None
        BY <1>1, <2>3, NoneAssumption DEF NoneAssumption
      <3>2. ironic' = [mem EXCEPT !.status = status]
        BY <2>3
      <3>3. ironic'.spec = mem.spec /\ ironic'.status = status
        BY <3>1, <3>2 DEF Objects
      <3>4. /\ Forward(ironic')
            /\ LET old == mem.status.installed
               IN  mem.spec.db \in Databases /\ old # None /\ status.installed # old
                     => /\ status.installed # None
                        /\ old = Latest \/ ~Less(status.installed, old)
        BY <2>3, <3>1, <3>2, WritesForward DEF ForwardInv
      <3>5. /\ ironic.spec.db = mem.spec.db
            /\ ironic.status.installed = mem.status.installed
            /\ ironic'.status.installed = status.installed
            /\ ironic'.spec.db = ironic.spec.db
        BY <2>3, <3>3
      <3> QED
        BY <3>4, <3>5
    <2> QED
      BY <2>1, <2>2, <2>3, StatusWrites
  <1>3. cache'.spec.db = ironic'.spec.db /\ Forward(cache')
    BY <1>2, CopyStep DEF ForwardInv
  <1>4. mem' # None => Forward(mem') /\ mem'.spec.db = ironic'.spec.db
    BY <1>2, CopyStep DEF ForwardInv
  <1>5. pc' \notin {"idle", "version"} => ~VersionChanged(mem')
    <2>1. VersionChanged(mem') <=> /\ mem'.spec.version # mem'.status.installed
                                   /\ mem'.spec.version # mem'.status.requested
      BY DEF VersionChanged
    <2> QED
      BY <2>1, CopyStep DEF ForwardInv, VersionChanged
  <1> QED
    BY <1>2, <1>3, <1>4, <1>5 DEF ForwardInv, VersionChanged, Forward

\* The downgrade guard, seen from the status: with a database that stays
\* attached, the installed version never moves to an older release.
THEOREM InstalledGoesForward ==
  ASSUME ~DatabaseEdits
  PROVE  Spec => InstalledNeverGoesBack
  <1> DEFINE Step == LET old == ironic.status.installed
                         new == ironic'.status.installed
                     IN  ironic.spec.db \in Databases /\ old # None /\ new # old
                           => new # None /\ (old = Latest \/ ~Less(new, old))
  <1>1. Init => ForwardInv
    <2> SUFFICES ASSUME Init PROVE ForwardInv
      OBVIOUS
    <2>1. ironic.status.installed = None
      BY DEF Init, NoStatus
    <2> QED
      BY <2>1 DEF Init, ForwardInv, Forward
  <1>2. TypeOK /\ FreshInv /\ ForwardInv /\ [Next]_vars => ForwardInv' /\ [Step]_vars
    BY ForwardStep
  <1> HIDE DEF Step
  <1>3. Spec => [][Step]_vars
    BY TypeCorrect, CopiesFresh, <1>1, <1>2, PTL DEF Spec
  <1> QED
    BY <1>3 DEF InstalledNeverGoesBack, Step

-----------------------------------------------------------------------------
(* What one step can do to the object, the workloads, the jobs and the data,  *)
(* and how it moves the reconciler on.                                        *)

\* What one step can do to the Ironic object: an edit, or a status written to
\* the current object, which changes at most one of the recorded versions.
LEMMA ObjectStep ==
  ASSUME TypeOK, FreshInv, [Next]_vars
  PROVE  \/ UNCHANGED ironic
         \/ UserEdit
         \/ /\ mem = ironic /\ memFresh /\ cache' = cache
            /\ ironic'.spec = ironic.spec
            /\ ironic'.gen = ironic.gen
            /\ \/ /\ ironic'.status.reason # "Available"
                  /\ ironic'.status.installed = ironic.status.installed
                  /\ \/ ironic'.status.requested = ironic.status.requested
                     \/ /\ pc = "version"
                        /\ ironic'.status.requested = ironic.spec.version
                        /\ ~IsDowngrade(ironic)
               \/ /\ pc = "report" /\ outcome = "ready"
                  /\ ironic'.status.installed = ironic.spec.version
                  /\ ironic'.status.requested = ironic.status.requested
  <1>1. ASSUME mem = ironic, memFresh, cache' = cache,
               NEW status, ironic' = [ironic EXCEPT !.status = status], WrittenStatus(status)
        PROVE  /\ ironic'.spec = ironic.spec
               /\ ironic'.gen = ironic.gen
               /\ \/ /\ ironic'.status.reason # "Available"
                     /\ ironic'.status.installed = ironic.status.installed
                     /\ \/ ironic'.status.requested = ironic.status.requested
                        \/ /\ pc = "version"
                           /\ ironic'.status.requested = ironic.spec.version
                           /\ ~IsDowngrade(ironic)
                  \/ /\ pc = "report" /\ outcome = "ready"
                     /\ ironic'.status.installed = ironic.spec.version
                     /\ ironic'.status.requested = ironic.status.requested
    <2>1. mem \in Objects
      BY <1>1 DEF TypeOK
    <2>2. ironic'.status = status /\ ironic'.gen = ironic.gen /\ ironic'.spec = ironic.spec
      BY <1>1, <2>1 DEF Objects
    <2> QED
      BY <1>1, <2>1, <2>2, WrittenFields
  <1> QED
    BY <1>1, StatusWrites

\* A workload stays, goes, is written at the step for it, or changes its phase.
Written(w, o) == w = [version |-> o.spec.version, db |-> o.spec.db, phase |-> "progressing"]

LEMMA WorkloadStep ==
  ASSUME TypeOK, [Next]_vars, NEW k \in Kinds
  PROVE  \/ dep'[k] = dep[k]
         \/ dep'[k] = Absent
         \/ /\ pc = "workload" /\ pc' = "service" /\ mem' = mem
            /\ k = KindOf(mem)
            /\ Written(dep'[k], mem)
         \/ /\ dep[k].phase # "absent" /\ dep'[k].phase # "absent"
            /\ dep'[k].version = dep[k].version
            /\ dep'[k].db = dep[k].db
            /\ UNCHANGED <<pc, mem>>
  <1> USE DEF object, worker, workloads, data
  <1>1. CASE RemoveOtherWorkload
    BY <1>1, KindsOfObject DEF RemoveOtherWorkload, TypeOK
  <1>2. CASE WriteWorkload
    <2>1. KindOf(mem) \in Kinds
      BY KindsOfObject
    <2> QED
      BY <1>2, <2>1 DEF WriteWorkload, Goto, TypeOK, Written
  <1>3. ASSUME NEW i \in Kinds, RollOut(i) \/ Degrade(i)
        PROVE  \/ dep'[k] = dep[k]
               \/ /\ dep[k].phase # "absent" /\ dep'[k].phase # "absent"
                  /\ dep'[k].version = dep[k].version
                  /\ dep'[k].db = dep[k].db
                  /\ UNCHANGED <<pc, mem>>
    <2>1. PICK phase : SetPhase(i, phase) /\ phase # "absent" /\ dep[i].phase # "absent"
      BY <1>3 DEF RollOut, Degrade
    <2>2. UNCHANGED <<pc, mem>>
      BY <1>3 DEF RollOut, Degrade
    <2>3. dep[i] \in Workloads
      BY DEF TypeOK
    <2>4. dep' = [dep EXCEPT ![i] = [dep[i] EXCEPT !.phase = phase]]
      BY <2>1 DEF SetPhase
    <2> QED
      BY <2>1, <2>2, <2>3, <2>4 DEF TypeOK, Workloads
  <1>4. CASE UNCHANGED dep
    BY <1>4
  <1>5. CASE Reconciler /\ ~RemoveOtherWorkload /\ ~WriteWorkload
    BY <1>4, <1>5 DEF Reconciler, StartReconcile, RefuseDowngrade, RequestVersion,
                RefuseResources, AcceptResources, EnsurePreUpgrade, CheckWorkload,
                EnsureService, EnsurePostUpgrade, UpdateIronicStatus
  <1>6. CASE Failures /\ ~\E i \in Kinds : Degrade(i)
    BY <1>4, <1>6 DEF Failures, TransientError, Restart, BreakLinked, FailJob,
                      ExpireCompleteJob, RemoveJob
  <1>7. CASE Environment /\ ~\E i \in Kinds : RollOut(i)
    BY <1>4, <1>7 DEF Environment, SyncIronic, SyncWorkload, FinishJob,
                      ExpireFailedJob, RemoveJob, FixLinked, UserEdit
  <1>8. CASE UNCHANGED vars
    BY <1>4, <1>8 DEF vars
  <1> QED
    BY <1>1, <1>2, <1>3, <1>5, <1>6, <1>7, <1>8 DEF Next, Failures, Environment

\* The informer's copy of a workload stays, or becomes what the server has.
LEMMA SeenStep ==
  ASSUME TypeOK, [Next]_vars, NEW k \in Kinds
  PROVE  seen'[k] = seen[k] \/ (seen'[k] = dep[k] /\ dep'[k] = dep[k])
  <1> USE DEF object, worker, workloads, data
  <1>1. CASE Reconciler
    BY <1>1 DEF Reconciler, StartReconcile, RefuseDowngrade, RequestVersion,
                RefuseResources, AcceptResources, EnsurePreUpgrade, RemoveOtherWorkload,
                WriteWorkload, CheckWorkload, EnsureService, EnsurePostUpgrade,
                UpdateIronicStatus
  <1>2. CASE Failures
    BY <1>2 DEF Failures, TransientError, Restart, BreakLinked, Degrade, SetPhase,
                FailJob, ExpireCompleteJob, RemoveJob
  <1>3. CASE SyncIronic \/ FixLinked \/ UserEdit \/ \E j \in JobKeys : FinishJob(j) \/ ExpireFailedJob(j)
    BY <1>3 DEF SyncIronic, FinishJob, ExpireFailedJob, RemoveJob, FixLinked, UserEdit
  <1>4. CASE \E i \in Kinds : RollOut(i)
    BY <1>4 DEF RollOut, SetPhase
  <1>5. ASSUME NEW i \in Kinds, SyncWorkload(i)
        PROVE  seen'[k] = seen[k] \/ (seen'[k] = dep[k] /\ dep'[k] = dep[k])
    <2>1. seen' = [seen EXCEPT ![i] = dep[i]] /\ dep' = dep
      BY <1>5 DEF SyncWorkload
    <2>2. k \in DOMAIN seen
      BY DEF TypeOK
    <2> QED
      BY <2>1, <2>2
  <1>6. CASE UNCHANGED vars
    BY <1>6 DEF vars
  <1> QED
    BY <1>1, <1>2, <1>3, <1>4, <1>5, <1>6 DEF Next, Environment

\* A job stays, is removed, is started by the walk at its step, fails, or
\* finishes.
LEMMA JobStep ==
  ASSUME TypeOK, [Next]_vars, NEW j \in JobKeys
  PROVE  \/ jobs'[j] = jobs[j]
         \/ jobs'[j].state = "absent"
         \/ /\ pc = j.phase /\ j = JobName(mem, j.phase)
            /\ jobs'[j].state = "running" /\ jobs'[j].db = mem.spec.db
            /\ UNCHANGED <<data, dep>>
         \/ /\ jobs[j].state = "running" /\ jobs'[j].state = "failed"
            /\ jobs'[j].db = jobs[j].db
         \/ /\ jobs'[j].db = jobs[j].db
            /\ FinishJob(j)
  <1> USE DEF object, worker, workloads, data
  <1>1. ASSUME NEW phase \in Phases, NEW next, pc = phase, EnsureUpgradeJob(phase, next, outcome),
               UNCHANGED <<data, dep>>
        PROVE  \/ jobs'[j] = jobs[j]
               \/ /\ pc = j.phase /\ j = JobName(mem, j.phase)
                  /\ jobs'[j].state = "running" /\ jobs'[j].db = mem.spec.db
                  /\ UNCHANGED <<data, dep>>
    <2>1. \/ jobs' = jobs
          \/ jobs' = [jobs EXCEPT ![JobName(mem, phase)] =
                                    [state |-> "running", db |-> mem.spec.db]]
      BY <1>1 DEF EnsureUpgradeJob
    <2>2. JobName(mem, phase).phase = phase
      BY DEF JobName
    <2> QED
      BY <1>1, <2>1, <2>2 DEF TypeOK
  <1>2. CASE EnsurePreUpgrade \/ EnsurePostUpgrade
    BY <1>1, <1>2 DEF EnsurePreUpgrade, EnsurePostUpgrade, Phases
  <1>3. ASSUME NEW i \in JobKeys, RemoveJob(i)
        PROVE  jobs'[j] = jobs[j] \/ jobs'[j].state = "absent"
    BY <1>3 DEF RemoveJob, NoJob, TypeOK
  <1>4. ASSUME NEW i \in JobKeys, FailJob(i)
        PROVE  \/ jobs'[j] = jobs[j]
               \/ /\ jobs[j].state = "running" /\ jobs'[j].state = "failed"
                  /\ jobs'[j].db = jobs[j].db
    BY <1>4 DEF FailJob, TypeOK, Jobs
  <1>5. ASSUME NEW i \in JobKeys, FinishJob(i)
        PROVE  \/ jobs'[j] = jobs[j]
               \/ jobs'[j].db = jobs[j].db /\ FinishJob(j)
    BY <1>5 DEF FinishJob, TypeOK, Jobs
  <1>6. CASE UNCHANGED jobs
    BY <1>6
  <1>7. CASE Reconciler /\ ~EnsurePreUpgrade /\ ~EnsurePostUpgrade
    BY <1>6, <1>7 DEF Reconciler, StartReconcile, RefuseDowngrade, RequestVersion,
                RefuseResources, AcceptResources, RemoveOtherWorkload, WriteWorkload,
                CheckWorkload, EnsureService, UpdateIronicStatus
  <1>8. CASE Failures /\ ~\E i \in JobKeys : FailJob(i) \/ ExpireCompleteJob(i)
    BY <1>6, <1>8 DEF Failures, TransientError, Restart, BreakLinked, Degrade
  <1>9. CASE Environment /\ ~\E i \in JobKeys : FinishJob(i) \/ ExpireFailedJob(i)
    BY <1>6, <1>9 DEF Environment, SyncIronic, SyncWorkload, RollOut, FixLinked, UserEdit
  <1>10. CASE UNCHANGED vars
    BY <1>6, <1>10 DEF vars
  <1> QED
    BY <1>2, <1>3, <1>4, <1>5, <1>7, <1>8, <1>9, <1>10
    DEF Next, Failures, Environment, ExpireFailedJob, ExpireCompleteJob

\* The data stays, loses migrations to an older Ironic that starts, or gains the
\* version of a job.
LEMMA DataStep ==
  ASSUME [Next]_vars
  PROVE  \/ UNCHANGED data
         \/ \E k \in Kinds : RollOut(k)
         \/ \E j \in JobKeys : FinishJob(j)
  <1> USE DEF data
  <1>1. CASE Reconciler
    BY <1>1 DEF Reconciler, StartReconcile, RefuseDowngrade, RequestVersion,
                RefuseResources, AcceptResources, EnsurePreUpgrade, RemoveOtherWorkload,
                WriteWorkload, CheckWorkload, EnsureService, EnsurePostUpgrade,
                UpdateIronicStatus
  <1>2. CASE Failures
    BY <1>2 DEF Failures, TransientError, Restart, BreakLinked, Degrade,
                FailJob, ExpireCompleteJob, RemoveJob
  <1>3. CASE Environment
    BY <1>3 DEF Environment, SyncIronic, SyncWorkload,
                ExpireFailedJob, RemoveJob, FixLinked, UserEdit
  <1>4. CASE UNCHANGED vars
    BY <1>4 DEF vars
  <1> QED
    BY <1>1, <1>2, <1>3, <1>4 DEF Next

\* How a walk of the reconciler moves on: every later step is reached from the
\* one before it, on the same copy and under the condition of that step.
LEMMA WalkStep ==
  ASSUME [Next]_vars
  PROVE  \/ UNCHANGED <<pc, mem, outcome>>
         \/ pc' \in {"idle", "version", "linked"}
         \/ /\ pc # "idle"
            /\ UNCHANGED <<mem, data, object, queued>>
            /\ \/ pc' = "pre" /\ upgradeJobRequired(mem)
               \/ pc' \in {"remove", "workload"}
               \/ /\ pc = "workload" /\ pc' = "service"
                  /\ \/ WriteWorkload /\ outcome' = "updated"
                     \/ /\ Matches(seen[KindOf(mem)], mem) /\ UNCHANGED workloads
                        /\ outcome' = "ready" => seen[KindOf(mem)].phase = "available"
               \/ /\ pc = "service" /\ pc' = "post"
                  /\ upgradeJobRequired(mem)
                  /\ svc' = <<mem.spec.version, mem.spec.ha>>
                  /\ UNCHANGED <<workloads, outcome>>
               \/ pc' = "report" /\ outcome' # "ready"
               \/ /\ pc = "service" /\ pc' = "report"
                  /\ ~upgradeJobRequired(mem)
                  /\ svc' = <<mem.spec.version, mem.spec.ha>>
                  /\ UNCHANGED <<workloads, outcome>>
               \/ /\ pc = "post" /\ pc' = "report"
                  /\ jobs[JobName(mem, "post")].state = "complete"
                  /\ UNCHANGED <<workloads, svc, outcome>>
  <1> USE DEF worker, data
  <1>1. CASE AcceptResources
    BY <1>1 DEF AcceptResources, Goto
  <1>2. CASE EnsurePreUpgrade
    BY <1>2 DEF EnsurePreUpgrade, EnsureUpgradeJob, Goto, EndReconcile
  <1>3. CASE RemoveOtherWorkload
    BY <1>3 DEF RemoveOtherWorkload, Goto
  <1>4. CASE WriteWorkload
    <2>1. \/ pc' = "idle"
          \/ pc' = "service" /\ outcome' = "updated" /\ UNCHANGED <<mem, queued>>
      BY <1>4 DEF WriteWorkload, Goto, EndReconcile
    <2> QED
      BY <1>4, <2>1 DEF WriteWorkload
  <1>5. CASE CheckWorkload
    BY <1>5 DEF CheckWorkload, Goto, EndReconcile
  <1>6. CASE EnsureService
    BY <1>6 DEF EnsureService, Goto
  <1>7. CASE EnsurePostUpgrade
    BY <1>7 DEF EnsurePostUpgrade, EnsureUpgradeJob, Goto, EndReconcile
  <1>8. CASE StartReconcile \/ RefuseDowngrade \/ RequestVersion \/ RefuseResources
             \/ UpdateIronicStatus
    BY <1>8 DEF StartReconcile, RefuseDowngrade, RequestVersion, RefuseResources,
                UpdateIronicStatus, EndReconcile
  <1>9. CASE Failures
    BY <1>9 DEF Failures, TransientError, Restart, BreakLinked, Degrade, FailJob,
                ExpireCompleteJob, RemoveJob, EndReconcile
  <1>10. CASE Environment
    BY <1>10 DEF Environment, SyncIronic, SyncWorkload, RollOut, FinishJob,
                 ExpireFailedJob, RemoveJob, FixLinked, UserEdit
  <1>11. CASE UNCHANGED vars
    BY <1>11 DEF vars
  <1> QED
    BY <1>1, <1>2, <1>3, <1>4, <1>5, <1>6, <1>7, <1>8, <1>9, <1>10, <1>11
    DEF Next, Reconciler

-----------------------------------------------------------------------------
(* No lost wake-up.  Whatever makes a Ready condition wrong leaves a trace    *)
(* that starts another reconcile: an entry in the queue, or a copy in a cache *)
(* that is not current and whose refresh will queue the object.               *)

\* A cached workload marked current is the one on the server.
SeenInv == \A k \in Kinds : depFresh[k] => seen[k] = dep[k]

\* A walk that nothing has been queued behind works on the current object, and a
\* walk past the checks has passed them.
WalkInv ==
  /\ pc # "idle" /\ ~queued /\ cacheFresh => memFresh
  /\ pc = "version" => VersionChanged(mem)
  /\ pc \notin {"idle", "version", "linked"} => Supported(mem)
  /\ pc \notin {"service", "post", "report"} => outcome = "none"
  /\ ReadyNow => Supported(ironic)

\* What a walk about to report Ready has seen is there, or else a newer copy of
\* the workload is on its way.
ReportInv ==
  /\ pc \in {"workload", "service", "post"} \/ (pc = "report" /\ outcome = "ready")
       => dep[OtherKind(mem)] = Absent
  /\ pc \in {"service", "post", "report"} /\ outcome = "ready"
     /\ ~queued /\ depFresh[KindOf(mem)]
       => Matches(dep[KindOf(mem)], mem) /\ dep[KindOf(mem)].phase = "available"
  /\ pc \in {"post", "report"} /\ outcome = "ready"
       => svc = <<mem.spec.version, mem.spec.ha>>

TruthInv == SeenInv /\ WalkInv /\ ReportInv /\ QuiescentIsTruthful

\* What holds in every reachable state and is proved above.
CopiesInv == TypeOK /\ FreshInv /\ OneWorkloadInv /\ ReadyInv

\* The marks on the cached workloads are right.
LEMMA SeenInvStep ==
  ASSUME TypeOK, SeenInv, [Next]_vars
  PROVE  SeenInv'
  <1> USE DEF object, worker, workloads, data
  <1>1. CASE RemoveOtherWorkload
    BY <1>1 DEF RemoveOtherWorkload, SeenInv, TypeOK
  <1>2. CASE WriteWorkload
    BY <1>2 DEF WriteWorkload, SeenInv, TypeOK
  <1>3. CASE Reconciler /\ ~RemoveOtherWorkload /\ ~WriteWorkload
    BY <1>3 DEF Reconciler, StartReconcile, RefuseDowngrade, RequestVersion,
                RefuseResources, AcceptResources, EnsurePreUpgrade, CheckWorkload,
                EnsureService, EnsurePostUpgrade, UpdateIronicStatus, SeenInv
  <1>4. CASE Failures
    BY <1>4 DEF Failures, TransientError, Restart, BreakLinked, Degrade, SetPhase,
                FailJob, ExpireCompleteJob, RemoveJob, SeenInv, TypeOK
  <1>5. CASE SyncIronic \/ FixLinked \/ UserEdit \/ \E j \in JobKeys : FinishJob(j) \/ ExpireFailedJob(j)
    BY <1>5 DEF SyncIronic, FinishJob, ExpireFailedJob, RemoveJob, FixLinked, UserEdit, SeenInv
  <1>6. ASSUME NEW i \in Kinds, RollOut(i)
        PROVE  SeenInv'
    BY <1>6 DEF RollOut, SetPhase, SeenInv, TypeOK
  <1>7. ASSUME NEW i \in Kinds, SyncWorkload(i)
        PROVE  SeenInv'
    <2>1. seen' = [seen EXCEPT ![i] = dep[i]] /\ dep' = dep /\ depFresh' = [depFresh EXCEPT ![i] = TRUE]
      BY <1>7 DEF SyncWorkload
    <2>2. DOMAIN seen = Kinds /\ DOMAIN depFresh = Kinds
      BY DEF TypeOK
    <2> QED
      BY <2>1, <2>2 DEF SeenInv
  <1>8. CASE UNCHANGED vars
    BY <1>8 DEF vars, SeenInv
  <1> QED
    BY <1>1, <1>2, <1>3, <1>4, <1>5, <1>6, <1>7, <1>8 DEF Next, Environment

\* Where a walk that nothing was queued behind stands, and on what copy.
LEMMA FreshWalk ==
  ASSUME TypeOK, WalkInv, [Next]_vars, pc' # "idle", ~queued', cacheFresh'
  PROVE  memFresh'
  <1> USE DEF object, worker, workloads, data
  <1>1. CASE Reconciler
    <2>1. CASE StartReconcile
      BY <2>1 DEF StartReconcile
    <2>2. CASE RequestVersion
      <3>1. /\ pc # "idle" /\ queued' = queued /\ memFresh' = memFresh
            /\ \E status : StatusUpdate(status, TRUE)
        BY <2>2 DEF RequestVersion, EndReconcile
      <3> QED
        BY <3>1 DEF StatusUpdate
    <2>3. CASE Reconciler /\ ~StartReconcile /\ ~RequestVersion
      <3>1. pc # "idle" /\ UNCHANGED <<queued, memFresh, cacheFresh>>
        BY <2>3 DEF Reconciler, RefuseDowngrade, RefuseResources, AcceptResources,
                    EnsurePreUpgrade, RemoveOtherWorkload, WriteWorkload, CheckWorkload,
                    EnsureService, EnsurePostUpgrade, UpdateIronicStatus,
                    EnsureUpgradeJob, Goto, EndReconcile
      <3> QED
        BY <3>1 DEF WalkInv
    <2> QED
      BY <1>1, <2>1, <2>2, <2>3
  <1>2. CASE Failures
    BY <1>2 DEF Failures, TransientError, Restart, BreakLinked, Degrade,
                FailJob, ExpireCompleteJob, RemoveJob, EndReconcile, WalkInv
  <1>3. CASE Environment
    BY <1>3 DEF Environment, SyncIronic, SyncWorkload, RollOut, FinishJob,
                ExpireFailedJob, RemoveJob, FixLinked, UserEdit, WalkInv
  <1>4. CASE UNCHANGED vars
    BY <1>4 DEF vars, WalkInv
  <1> QED
    BY <1>1, <1>2, <1>3, <1>4 DEF Next

\* A walk passes the version step and CheckVersion with what they let through,
\* and has computed nothing before it looks at the workload.
LEMMA CheckedWalk ==
  ASSUME TypeOK, WalkInv, [Next]_vars
  PROVE  /\ pc' = "version" => VersionChanged(mem')
         /\ pc' \notin {"idle", "version", "linked"} => Supported(mem')
         /\ pc' \notin {"service", "post", "report"} => outcome' = "none"
  <1> USE DEF object, worker, workloads, data
  <1>1. CASE Reconciler
    BY <1>1 DEF Reconciler, StartReconcile, RefuseDowngrade, RequestVersion,
                RefuseResources, AcceptResources, EnsurePreUpgrade, RemoveOtherWorkload,
                WriteWorkload, CheckWorkload, EnsureService, EnsurePostUpgrade,
                UpdateIronicStatus, EnsureUpgradeJob, Goto, EndReconcile, WalkInv
  <1>2. CASE Failures
    BY <1>2 DEF Failures, TransientError, Restart, BreakLinked, Degrade,
                FailJob, ExpireCompleteJob, RemoveJob, EndReconcile, WalkInv
  <1>3. CASE Environment
    BY <1>3 DEF Environment, SyncIronic, SyncWorkload, RollOut, FinishJob,
                ExpireFailedJob, RemoveJob, FixLinked, UserEdit, WalkInv
  <1>4. CASE UNCHANGED vars
    BY <1>4 DEF vars, WalkInv
  <1> QED
    BY <1>1, <1>2, <1>3, <1>4 DEF Next

\* WalkInv survives every step.
LEMMA WalkInvStep ==
  ASSUME CopiesInv, WalkInv, [Next]_vars
  PROVE  WalkInv'
  <1>1. TypeOK /\ FreshInv /\ ReadyInv
    BY DEF CopiesInv
  <1>2. ReadyNow' => Supported(ironic')
    <2>1. CASE UNCHANGED ironic
      BY <2>1 DEF WalkInv, ReadyNow
    <2>2. CASE UserEdit
      <3>1. PICK s \in Specs : ironic' = [ironic EXCEPT !.spec = s, !.gen = @ + 1]
        BY <2>2 DEF UserEdit
      <3>2. ironic'.gen = ironic.gen + 1 /\ ironic'.status = ironic.status
        BY <1>1, <3>1 DEF TypeOK, Objects
      <3>3. ironic.gen \in Nat /\ ironic.status.obsGen \in Nat
        BY <1>1, BoundsAssumption DEF BoundsAssumption, TypeOK, Objects, Statuses
      <3> QED
        BY <1>1, <3>2, <3>3 DEF ReadyNow, ReadyInv
    <2>3. CASE ironic'.status.reason # "Available"
      BY <2>3 DEF ReadyNow
    <2>4. CASE mem = ironic /\ pc = "report" /\ ironic'.spec = ironic.spec
      BY <2>4 DEF WalkInv, Supported
    <2> QED
      BY <1>1, <2>1, <2>2, <2>3, <2>4, ObjectStep
  <1> QED
    BY <1>1, <1>2, FreshWalk, CheckedWalk DEF WalkInv, VersionChanged, Supported

\* A step that leaves the walk where it is wakes it up again if it touches a
\* workload.
LEMMA QuietStep ==
  ASSUME TypeOK, [Next]_vars, UNCHANGED <<pc, mem, outcome>>, pc # "idle"
  PROVE  /\ svc' = svc
         /\ ~queued' => /\ ~queued
                        /\ \A k \in Kinds : depFresh'[k] => depFresh[k] /\ dep'[k] = dep[k]
  <1> USE DEF object, worker, workloads, data
  <1>1. ~Reconciler
    BY DEF Reconciler, StartReconcile, RefuseDowngrade, RequestVersion,
           RefuseResources, AcceptResources, EnsurePreUpgrade, RemoveOtherWorkload,
           WriteWorkload, CheckWorkload, EnsureService, EnsurePostUpgrade,
           UpdateIronicStatus, EnsureUpgradeJob, Goto, EndReconcile
  <1>2. CASE Failures
    BY <1>2 DEF Failures, TransientError, Restart, BreakLinked, Degrade, SetPhase,
                FailJob, ExpireCompleteJob, RemoveJob, EndReconcile, TypeOK
  <1>3. CASE Environment
    BY <1>3 DEF Environment, SyncIronic, SyncWorkload, RollOut, SetPhase, FinishJob,
                ExpireFailedJob, RemoveJob, FixLinked, UserEdit, TypeOK
  <1>4. CASE UNCHANGED vars
    BY <1>4 DEF vars
  <1> QED
    BY <1>1, <1>2, <1>3, <1>4 DEF Next

\* ReportInv survives every step.
LEMMA ReportInvStep ==
  ASSUME CopiesInv, SeenInv, ReportInv, [Next]_vars
  PROVE  ReportInv'
  <1>1. TypeOK /\ OneWorkloadInv /\ OneWorkloadInv'
    BY OneWorkloadStep DEF CopiesInv
  <1>2. Absent.phase = "absent"
    BY DEF Absent
  <1>3. \A o : KindOf(o) \in Kinds /\ OtherKind(o) \in Kinds /\ KindOf(o) # OtherKind(o)
    BY KindsOfObject
  <1>4. ASSUME mem' = mem, dep[OtherKind(mem)] = Absent
        PROVE  dep'[OtherKind(mem')] = Absent
    BY <1>1, <1>2, <1>3, <1>4, WorkloadStep
  <1>5. \/ pc' \in {"workload", "service", "post"}
        \/ pc' = "report" /\ outcome' = "ready"
        => dep'[OtherKind(mem')] = Absent
    <2>1. CASE UNCHANGED <<pc, mem, outcome>>
      BY <1>4, <2>1 DEF ReportInv
    <2>2. CASE mem' = mem /\ pc \in {"workload", "service", "post"}
      BY <1>4, <2>2 DEF ReportInv
    <2>3. CASE pc' = "workload"
      BY <1>1, <2>3 DEF OneWorkloadInv, OtherKind
    <2> QED
      BY <2>1, <2>2, <2>3, WalkStep
  <1>6. ASSUME pc' \in {"service", "post", "report"}, outcome' = "ready",
               ~queued', depFresh'[KindOf(mem')]
        PROVE  Matches(dep'[KindOf(mem')], mem') /\ dep'[KindOf(mem')].phase = "available"
    <2>1. CASE UNCHANGED <<pc, mem, outcome>>
      <3>1. ~queued /\ depFresh[KindOf(mem)] /\ dep'[KindOf(mem)] = dep[KindOf(mem)]
        BY <1>1, <1>3, <1>6, <2>1, QuietStep
      <3> QED
        BY <1>6, <2>1, <3>1 DEF ReportInv
    <2>2. CASE pc \in {"service", "post"} /\ UNCHANGED <<mem, outcome, queued, workloads>>
      BY <1>6, <2>2 DEF ReportInv, workloads
    <2>3. CASE /\ pc = "workload" /\ UNCHANGED <<mem, queued, workloads>>
               /\ Matches(seen[KindOf(mem)], mem)
               /\ seen[KindOf(mem)].phase = "available"
      <3>1. seen[KindOf(mem)] = dep[KindOf(mem)]
        BY <1>3, <1>6, <2>3 DEF SeenInv, workloads
      <3> QED
        BY <2>3, <3>1 DEF workloads
    <2> QED
      BY <1>6, <2>1, <2>2, <2>3, WalkStep
  <1>7. ASSUME pc' \in {"post", "report"}, outcome' = "ready"
        PROVE  svc' = <<mem'.spec.version, mem'.spec.ha>>
    <2>1. CASE UNCHANGED <<pc, mem, outcome>>
      BY <1>1, <1>7, <2>1, QuietStep DEF ReportInv
    <2>2. CASE pc = "post" /\ UNCHANGED <<mem, outcome, svc>>
      BY <1>7, <2>2 DEF ReportInv
    <2>3. CASE mem' = mem /\ svc' = <<mem.spec.version, mem.spec.ha>>
      BY <2>3
    <2> QED
      BY <1>7, <2>1, <2>2, <2>3, WalkStep
  <1> QED
    BY <1>5, <1>6, <1>7 DEF ReportInv, Matches, KindOf, OtherKind

\* Which steps end in a quiescent state.
LEMMA QuiescentStep ==
  ASSUME TypeOK, [Next]_vars, Quiescent'
  PROVE  \/ UNCHANGED vars
         \/ pc = "version" /\ RefuseDowngrade
         \/ pc = "linked" /\ RefuseResources /\ ~Supported(mem)
         \/ pc = "report" /\ UpdateIronicStatus
  <1> USE DEF object, worker, workloads, data
  <1>1. CASE Reconciler
    BY <1>1 DEF Reconciler, StartReconcile, RefuseDowngrade, RequestVersion,
                RefuseResources, AcceptResources, EnsurePreUpgrade, RemoveOtherWorkload,
                WriteWorkload, CheckWorkload, EnsureService, EnsurePostUpgrade,
                UpdateIronicStatus, EnsureUpgradeJob, Goto, EndReconcile, Quiescent
  <1>2. CASE Failures
    BY <1>2 DEF Failures, TransientError, Restart, BreakLinked, Degrade, SetPhase,
                FailJob, ExpireCompleteJob, RemoveJob, EndReconcile, Quiescent, TypeOK
  <1>3. CASE Environment
    BY <1>3 DEF Environment, SyncIronic, SyncWorkload, RollOut, SetPhase, FinishJob,
                ExpireFailedJob, RemoveJob, FixLinked, UserEdit, Quiescent, TypeOK
  <1> QED
    BY <1>1, <1>2, <1>3 DEF Next

\* The Ready condition of a quiescent state is the truth.
LEMMA TruthStep ==
  ASSUME CopiesInv, TruthInv, [Next]_vars
  PROVE  QuiescentIsTruthful'
  <1> SUFFICES ASSUME Quiescent', ReadyNow'
               PROVE  /\ Matches(dep'[KindOf(ironic')], ironic')
                      /\ dep'[KindOf(ironic')].phase = "available"
                      /\ dep'[OtherKind(ironic')] = Absent
                      /\ svc' = <<ironic'.spec.version, ironic'.spec.ha>>
    BY DEF QuiescentIsTruthful, Matches, KindOf, OtherKind
  <1>1. /\ TypeOK /\ FreshInv /\ ReadyMeansInstalled
        /\ WalkInv /\ ReportInv /\ QuiescentIsTruthful
    BY DEF CopiesInv, ReadyInv, TruthInv
  <1>2. /\ ~queued' /\ cacheFresh' /\ \A k \in Kinds : depFresh'[k]
    BY DEF Quiescent
  <1>3. ASSUME NEW status, NEW ok, StatusUpdate(status, ok)
        PROVE  ironic' = ironic /\ cacheFresh /\ (ok => status = ironic.status)
    <2>1. [ironic EXCEPT !.status = ironic.status] = ironic
      BY <1>1 DEF TypeOK, Objects
    <2> QED
      BY <1>2, <1>3, <2>1 DEF StatusUpdate
  <1>4. ASSUME pc # "idle", ironic' = ironic, cacheFresh, ~queued
        PROVE  mem = ironic /\ mem \in Objects /\ ReadyNow
    BY <1>1, <1>4 DEF WalkInv, FreshInv, TypeOK, ReadyNow
  <1>5. CASE UNCHANGED vars
    BY <1>1, <1>5
    DEF vars, object, worker, workloads, QuiescentIsTruthful, Quiescent, ReadyNow
  <1>6. CASE pc = "version" /\ RefuseDowngrade
    <2>1. ironic' = ironic /\ cacheFresh /\ ~queued
      BY <1>2, <1>3, <1>6 DEF RefuseDowngrade, EndReconcile
    <2>2. VersionChanged(ironic) /\ ReadyNow
      BY <1>1, <1>4, <1>6, <2>1 DEF WalkInv
    <2> QED
      BY <1>1, <2>2 DEF VersionChanged, ReadyMeansInstalled
  <1>7. CASE pc = "linked" /\ RefuseResources /\ ~Supported(mem)
    <2>1. ironic' = ironic /\ cacheFresh /\ ~queued
      BY <1>2, <1>3, <1>7 DEF RefuseResources, EndReconcile
    <2> QED
      BY <1>1, <1>4, <1>7, <2>1 DEF WalkInv
  <1>8. CASE pc = "report" /\ UpdateIronicStatus
    <2>1. /\ ironic' = ironic /\ cacheFresh /\ ~queued
          /\ NewStatus(mem) = mem.status \/ NewStatus(mem) = ironic.status
          /\ UNCHANGED <<workloads, svc>>
      BY <1>2, <1>3, <1>8 DEF UpdateIronicStatus, EndReconcile, object
    <2>2. mem = ironic /\ mem \in Objects /\ ReadyNow
      BY <1>4, <1>8, <2>1
    <2>3. NewStatus(mem).reason = "Available"
      BY <2>1, <2>2 DEF ReadyNow
    <2>4. outcome = "ready"
      BY <1>8, <2>2, <2>3, WrittenFields DEF WrittenStatus
    <2>5. KindOf(mem) \in Kinds
      BY KindsOfObject
    <2>6. depFresh[KindOf(mem)]
      BY <1>2, <2>1, <2>5 DEF workloads
    <2> QED
      BY <1>1, <1>8, <2>1, <2>2, <2>4, <2>6 DEF ReportInv, workloads
  <1> QED
    BY <1>1, <1>5, <1>6, <1>7, <1>8, QuiescentStep

\* No lost wake-up, whatever users do and whatever fails: when nothing is queued,
\* running or on its way, a Ready condition for the current generation is the
\* truth about the workloads and the Service.
THEOREM QuiescentAlwaysTruthful == Spec => []QuiescentIsTruthful
  <1>1. Init => TruthInv
    <2> SUFFICES ASSUME Init PROVE TruthInv
      OBVIOUS
    <2>1. ironic.status.reason = "None" /\ pc = "idle" /\ outcome = "none" /\ seen = dep
      BY DEF Init, NoStatus
    <2>2. ~ReadyNow
      BY <2>1 DEF ReadyNow
    <2> QED
      BY <2>1, <2>2 DEF TruthInv, SeenInv, WalkInv, ReportInv, QuiescentIsTruthful
  <1>2. CopiesInv /\ TruthInv /\ [Next]_vars => TruthInv'
    BY SeenInvStep, WalkInvStep, ReportInvStep, TruthStep DEF CopiesInv, TruthInv
  <1>3. TypeOK /\ FreshInv /\ OneWorkloadInv /\ ReadyInv => CopiesInv
    BY DEF CopiesInv
  <1>4. TruthInv => QuiescentIsTruthful
    BY DEF TruthInv
  <1> QED
    BY TypeCorrect, CopiesFresh, OneWorkloadInductive, ReadyInductive,
       <1>1, <1>2, <1>3, <1>4, PTL DEF Spec

=============================================================================
