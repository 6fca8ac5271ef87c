--------------------------- MODULE OperatorsProofs ---------------------------
(***************************************************************************)
(* What Operators guarantees for any number of operators, any versions and *)
(* images, and any number of starts, edits and lost writes.                *)
(***************************************************************************)
EXTENDS Operators, TLAPS

\* Every copy a step reads is an object.
Held ==
  \A o \in Operators : /\ o \in active => cache[o] \in Objects
                       /\ pc[o] # "idle" => mem[o] \in Objects

\* Every edit is an event.
Edited == ironic.gen <= events + 1

TypeInv == TypeOK /\ Held /\ Edited

\* Version numbers are pairs of naturals, and None is not one.
LEMMA VersionsType ==
  /\ Versions \subseteq Numbers
  /\ None \notin Versions
  BY OperatorsAssumption, ChoicesAssumption, NoneAssumption
  DEF OperatorsAssumption, ChoicesAssumption, NoneAssumption, Versions

\* The version and the image an operator works out for an object.
LEMMA VersionForType ==
  ASSUME NEW o \in Operators, NEW i \in Objects
  PROVE  VersionFor(o, i) \in Versions
  BY DEF VersionFor, Versions, Objects

LEMMA ImageForType ==
  ASSUME NEW o \in Operators, NEW i \in Objects
  PROVE  ImageFor(o, i) \in Images
  BY VersionForType DEF ImageFor, Images

\* Statuses made from well-formed objects are well-formed.
LEMMA ConditionType ==
  ASSUME NEW i \in Objects, NEW reason \in Reasons
  PROVE  setCondition(i, reason) \in Statuses
  <1>1. i.status \in Statuses /\ i.gen \in Generations
    BY DEF Objects
  <1> QED
    BY <1>1 DEF setCondition, Statuses

LEMMA NewStatusType ==
  ASSUME NEW o \in Operators, NEW i \in Objects
  PROVE  NewStatus(o, i) \in Statuses
  <1>1. setCondition(i, "Available") \in Statuses /\ setCondition(i, "InProgress") \in Statuses
    BY ConditionType DEF Reasons
  <1>2. [setCondition(i, "Available") EXCEPT !.installed = VersionFor(o, i)] \in Statuses
    BY <1>1, VersionForType DEF Statuses
  <1> QED
    BY <1>1, <1>2 DEF NewStatus

LEMMA RequestedType ==
  ASSUME NEW o \in Operators, NEW i \in Objects
  PROVE  [setCondition(i, "InProgress") EXCEPT !.requested = VersionFor(o, i)] \in Statuses
  <1>1. setCondition(i, "InProgress") \in Statuses
    BY ConditionType DEF Reasons
  <1> QED
    BY <1>1, VersionForType DEF Statuses

\* One more event stays within the bound.
LEMMA EventType ==
  ASSUME events \in 0 .. MaxEvents, Event
  PROVE  events' \in 0 .. MaxEvents /\ events' = events + 1
  BY BoundsAssumption DEF BoundsAssumption, Event

\* A stored status leaves a well-formed object behind.
LEMMA StoreType ==
  ASSUME TypeOK, NEW o \in Operators, NEW status \in Statuses, NEW hold \in BOOLEAN,
         Store(o, status, hold)
  PROVE  /\ ironic' \in Objects
         /\ ironic'.gen = ironic.gen
         /\ fresh' \in [Operators -> BOOLEAN]
         /\ memFresh' \in [Operators -> BOOLEAN]
  <1>1. ironic' \in Objects /\ ironic'.gen = ironic.gen
    BY DEF TypeOK, Store, Objects
  <1>2. \A p \in Operators : fresh[p] \in BOOLEAN /\ memFresh[p] \in BOOLEAN
    BY DEF TypeOK
  <1> QED
    BY <1>1, <1>2 DEF Store

\* What an update of the status can do to the object, whether it works or not.
StatusStep ==
  /\ ironic' \in Objects
  /\ ironic'.gen = ironic.gen
  /\ fresh' \in [Operators -> BOOLEAN]
  /\ memFresh' \in [Operators -> BOOLEAN]
  /\ events' \in 0 .. MaxEvents
  /\ events' >= events

LEMMA WrittenType ==
  ASSUME TypeOK, NEW o \in Operators, NEW status \in Statuses, NEW hold \in BOOLEAN,
         Written(o, status, hold)
  PROVE  StatusStep
  <1>1. events \in 0 .. MaxEvents
    BY DEF TypeOK
  <1> QED
    BY <1>1, StoreType, BoundsAssumption DEF Written, StatusStep, BoundsAssumption

LEMMA KeepType ==
  ASSUME TypeOK, NEW o \in Operators, Keep(o)
  PROVE  /\ ironic' \in Objects
         /\ ironic'.gen = ironic.gen
         /\ fresh' \in [Operators -> BOOLEAN]
         /\ memFresh' \in [Operators -> BOOLEAN]
  BY DEF TypeOK, Keep

LEMMA NotWrittenType ==
  ASSUME TypeOK, NEW o \in Operators, NEW status \in Statuses, NotWritten(o, status)
  PROVE  StatusStep
  <1>1. events \in 0 .. MaxEvents
    BY DEF TypeOK
  <1>2. Keep(o) \/ Store(o, status, FALSE)
    BY DEF NotWritten
  <1>3. events' = events \/ Event
    BY DEF NotWritten
  <1>4. events' \in 0 .. MaxEvents /\ events' >= events
    BY <1>1, <1>3, EventType, BoundsAssumption DEF BoundsAssumption
  <1> QED
    BY <1>2, <1>4, KeepType, StoreType DEF StatusStep

\* The end of a reconcile.
LEMMA EndReconcileType ==
  ASSUME TypeOK, Held, active' = active, cache' = cache,
         NEW o \in Operators, NEW requeue \in BOOLEAN, EndReconcile(o, requeue)
  PROVE  /\ queued' \in [Operators -> BOOLEAN]
         /\ pc' \in [Operators -> Steps]
         /\ mem' \in [Operators -> Objects \cup {None}]
         /\ outcome' \in [Operators -> {"none", "ready", "updated", "inProgress"}]
         /\ Held'
  BY DEF TypeOK, Held, EndReconcile, Steps

\* One step on.
LEMMA GotoType ==
  ASSUME TypeOK, Held, active' = active, cache' = cache,
         NEW o \in Operators, pc[o] # "idle",
         NEW step \in Steps, NEW result \in {"none", "ready", "updated", "inProgress"},
         Goto(o, step, result)
  PROVE  /\ pc' \in [Operators -> Steps]
         /\ mem' = mem
         /\ memFresh' = memFresh
         /\ outcome' \in [Operators -> {"none", "ready", "updated", "inProgress"}]
         /\ Held'
  BY DEF TypeOK, Held, Goto

LEMMA WakeType ==
  ASSUME TypeOK, Wake
  PROVE  queued' \in [Operators -> BOOLEAN]
  BY DEF TypeOK, Wake

\* Well-formed from the start.
LEMMA InitType == Init => TypeInv
  <1> SUFFICES ASSUME Init PROVE TypeInv
    OBVIOUS
  <1>1. 1 \in Generations /\ 0 \in 0 .. MaxEvents
    BY BoundsAssumption DEF BoundsAssumption, Generations
  <1>2. NoStatus \in Statuses
    BY DEF NoStatus, Statuses, Reasons
  <1>3. ironic \in Objects /\ ironic.gen = 1
    <2>1. CASE \E v \in Choices : ironic = [version |-> v, gen |-> 1, status |-> NoStatus]
      BY <1>1, <1>2, <2>1 DEF Objects
    <2>2. CASE \E v \in Choices, o \in Operators : DeployedBy(o, v)
      <3>1. PICK v \in Choices, o \in Operators : DeployedBy(o, v)
        BY <2>2
      <3> DEFINE i == [version |-> v, gen |-> 1, status |-> NoStatus]
      <3>2. i \in Objects
        BY <1>1, <1>2 DEF Objects
      <3>3. VersionFor(o, i) \in Versions
        BY <3>2, VersionForType
      <3> QED
        BY <1>1, <3>1, <3>2, <3>3 DEF DeployedBy, Objects, Statuses, Reasons
    <2> QED
      BY <2>1, <2>2 DEF Init
  <1>4. /\ workload \in [version : Versions \cup {None},
                         image   : Images \cup {None},
                         phase   : {"absent", "progressing", "available"}]
        /\ schema \subseteq Versions
    <2>1. CASE workload = NoWorkload /\ schema = {}
      BY <2>1 DEF NoWorkload
    <2>2. CASE \E v \in Choices, o \in Operators : DeployedBy(o, v)
      <3>1. PICK v \in Choices, o \in Operators : DeployedBy(o, v)
        BY <2>2
      <3> DEFINE i == [version |-> v, gen |-> 1, status |-> NoStatus]
      <3>2. i \in Objects
        BY <1>1, <1>2 DEF Objects
      <3>3. VersionFor(o, i) \in Versions /\ ImageFor(o, i) \in Images
        BY <3>2, VersionForType, ImageForType
      <3> QED
        BY <3>1, <3>3 DEF DeployedBy
    <2> QED
      BY <2>1, <2>2 DEF Init
  <1>5. NoJob \in [state : {"absent", "running", "complete"}, image : Images \cup {None}]
    BY DEF NoJob
  <1>6. TypeOK
    BY <1>1, <1>3, <1>4, <1>5, ElectionsAssumption
    DEF Init, TypeOK, Steps, ElectionsAssumption
  <1>7. Held /\ Edited
    BY <1>3 DEF Init, Held, Edited
  <1> QED
    BY <1>6, <1>7 DEF TypeInv

LEMMA StartReconcileType ==
  ASSUME TypeInv, NEW o \in Operators, StartReconcile(o)
  PROVE  TypeInv'
  <1> USE DEF cluster, copies, TypeInv
  <1>1. cache[o] \in Objects /\ fresh[o] \in BOOLEAN
    BY DEF StartReconcile, Held, TypeOK
  <1>2. TypeOK'
    BY <1>1 DEF StartReconcile, TypeOK, Steps, FirstStep
  <1>3. Held'
    BY <1>1 DEF StartReconcile, TypeOK, Held
  <1> QED
    BY <1>2, <1>3 DEF StartReconcile, Edited

LEMMA RefuseDowngradeType ==
  ASSUME TypeInv, NEW o \in Operators, RefuseDowngrade(o)
  PROVE  TypeInv'
  <1> USE DEF cluster, TypeInv
  <1> DEFINE status == setCondition(mem[o], "Failed")
  <1>1. mem[o] \in Objects /\ status \in Statuses
    BY ConditionType DEF RefuseDowngrade, Held, Reasons
  <1>2. Written(o, status, FALSE) \/ NotWritten(o, status)
    BY DEF RefuseDowngrade
  <1>3. StatusStep
    BY <1>1, <1>2, WrittenType, NotWrittenType
  <1>4. lost' \subseteq Operators
    BY DEF RefuseDowngrade, TypeOK
  <1>5. /\ EndReconcile(o, FALSE) /\ active' = active /\ cache' = cache
        /\ workload' = workload /\ jobs' = jobs /\ schema' = schema /\ elect' = elect
    BY DEF RefuseDowngrade
  <1>6. /\ queued' \in [Operators -> BOOLEAN]
        /\ pc' \in [Operators -> Steps]
        /\ mem' \in [Operators -> Objects \cup {None}]
        /\ outcome' \in [Operators -> {"none", "ready", "updated", "inProgress"}]
        /\ Held'
    BY <1>5, EndReconcileType
  <1>7. Edited'
    BY <1>3, BoundsAssumption DEF StatusStep, Edited, TypeOK, Objects, Generations,
                                  BoundsAssumption
  <1> QED
    BY <1>3, <1>4, <1>5, <1>6, <1>7 DEF StatusStep, TypeOK

LEMMA RequestVersionType ==
  ASSUME TypeInv, NEW o \in Operators, RequestVersion(o)
  PROVE  TypeInv'
  <1> USE DEF cluster, TypeInv
  <1> DEFINE status == [setCondition(mem[o], "InProgress")
                          EXCEPT !.requested = VersionFor(o, mem[o])]
  <1>1. mem[o] \in Objects /\ status \in Statuses
    BY RequestedType DEF RequestVersion, Held
  <1>2. /\ active' = active /\ cache' = cache /\ lost' = lost
        /\ workload' = workload /\ jobs' = jobs /\ schema' = schema /\ elect' = elect
    BY DEF RequestVersion
  <1>3. StatusStep
    BY <1>1, WrittenType, NotWrittenType DEF RequestVersion
  <1>4. /\ queued' \in [Operators -> BOOLEAN]
        /\ pc' \in [Operators -> Steps]
        /\ mem' \in [Operators -> Objects \cup {None}]
        /\ outcome' \in [Operators -> {"none", "ready", "updated", "inProgress"}]
        /\ Held'
    <2>1. CASE EndReconcile(o, TRUE)
      BY <1>2, <2>1, EndReconcileType
    <2>2. CASE /\ mem' = [mem EXCEPT ![o].status = status]
               /\ pc' = [pc EXCEPT ![o] = FirstStep(o, mem[o])]
               /\ UNCHANGED <<queued, outcome>>
      <3>1. [mem[o] EXCEPT !.status = status] \in Objects
        BY <1>1 DEF Objects
      <3>2. mem' = [mem EXCEPT ![o] = [mem[o] EXCEPT !.status = status]]
        BY <2>2 DEF TypeOK
      <3>3. mem' \in [Operators -> Objects \cup {None}] /\ mem'[o] \in Objects
        BY <3>1, <3>2 DEF TypeOK
      <3>4. FirstStep(o, mem[o]) \in Steps
        BY DEF FirstStep, Steps
      <3>5. \A p \in Operators \ {o} : mem'[p] = mem[p] /\ pc'[p] = pc[p]
        BY <2>2, <3>2 DEF TypeOK
      <3>6. Held'
        BY <1>2, <3>3, <3>5 DEF Held
      <3> QED
        BY <2>2, <3>3, <3>4, <3>6 DEF TypeOK
    <2> QED
      BY <2>1, <2>2 DEF RequestVersion
  <1>5. Edited'
    BY <1>3, BoundsAssumption DEF StatusStep, Edited, TypeOK, Objects, Generations,
                                  BoundsAssumption
  <1> QED
    BY <1>2, <1>3, <1>4, <1>5 DEF StatusStep, TypeOK

LEMMA EnsureUpgradeJobType ==
  ASSUME TypeInv, NEW o \in Operators, NEW phase \in Phases, NEW next \in Steps,
         NEW result \in {"none", "ready", "updated", "inProgress"},
         EnsureUpgradeJob(o, phase, next, result)
  PROVE  TypeInv'
  <1> USE DEF copies, TypeInv
  <1> DEFINE name == JobName(o, mem[o], phase)
             job == jobs[name]
             image == ImageFor(o, mem[o])
  <1>1. pc[o] # "idle" /\ mem[o] \in Objects
    BY DEF EnsureUpgradeJob, Held, Phases
  <1>2. image \in Images /\ name \in JobKeys
    <2>1. mem[o].status.installed \in Versions \cup {None}
      BY <1>1 DEF Objects, Statuses
    <2> QED
      BY <1>1, <2>1, ImageForType, VersionForType DEF JobName, JobKeys
  <1>3. /\ active' = active /\ cache' = cache /\ fresh' = fresh /\ lost' = lost
        /\ ironic' = ironic /\ workload' = workload /\ schema' = schema
        /\ elect' = elect /\ events' = events
    BY DEF EnsureUpgradeJob
  <1>4. "report" \in Steps
    BY DEF Steps
  <1>5. jobs' \in [JobKeys -> [state : {"absent", "running", "complete"},
                               image : Images \cup {None}]]
    <2>1. jobs' = [jobs EXCEPT ![name] = [state |-> "running", image |-> image]] \/ jobs' = jobs
      BY DEF EnsureUpgradeJob
    <2> QED
      BY <1>2, <2>1 DEF TypeOK
  <1>6. /\ pc' \in [Operators -> Steps]
        /\ mem' \in [Operators -> Objects \cup {None}]
        /\ memFresh' \in [Operators -> BOOLEAN]
        /\ outcome' \in [Operators -> {"none", "ready", "updated", "inProgress"}]
        /\ queued' \in [Operators -> BOOLEAN]
        /\ Held'
    <2>1. CASE Goto(o, "report", "updated") /\ Wake
      BY <1>1, <1>3, <1>4, <2>1, GotoType, WakeType DEF TypeOK
    <2>2. CASE EndReconcile(o, TRUE) /\ memFresh' = [memFresh EXCEPT ![o] = FALSE]
      <3>1. memFresh' \in [Operators -> BOOLEAN]
        BY <2>2 DEF TypeOK
      <3> QED
        BY <1>3, <2>2, <3>1, EndReconcileType
    <2>3. CASE /\ queued' = queued
               /\ Goto(o, "report", "inProgress") \/ Goto(o, next, result)
      BY <1>1, <1>3, <1>4, <2>3, GotoType DEF TypeOK
    <2> QED
      BY <2>1, <2>2, <2>3 DEF EnsureUpgradeJob
  <1> QED
    BY <1>3, <1>5, <1>6 DEF TypeOK, Edited

LEMMA EnsureWorkloadType ==
  ASSUME TypeInv, NEW o \in Operators, EnsureWorkload(o)
  PROVE  TypeInv'
  <1> USE DEF copies, TypeInv
  <1> DEFINE v == VersionFor(o, mem[o])
             image == ImageFor(o, mem[o])
             next == IF upgradeJobRequired(o, mem[o]) THEN "post" ELSE "report"
  <1>1. pc[o] # "idle" /\ mem[o] \in Objects
    BY DEF EnsureWorkload, Held
  <1>2. v \in Versions /\ image \in Images /\ next \in Steps
    BY <1>1, VersionForType, ImageForType DEF Steps
  <1>3. /\ active' = active /\ cache' = cache /\ fresh' = fresh /\ lost' = lost
        /\ ironic' = ironic /\ jobs' = jobs /\ schema' = schema
        /\ elect' = elect /\ events' = events
    BY DEF EnsureWorkload
  <1>4. workload' \in [version : Versions \cup {None},
                       image   : Images \cup {None},
                       phase   : {"absent", "progressing", "available"}]
    <2>1. \/ workload' = workload
          \/ workload' = [version |-> v, image |-> image, phase |-> "progressing"]
      BY DEF EnsureWorkload
    <2> QED
      BY <1>2, <2>1 DEF TypeOK
  <1>5. queued' = queued \/ Wake
    BY DEF EnsureWorkload
  <1>6. PICK result \in {"none", "ready", "updated", "inProgress"} : Goto(o, next, result)
    BY DEF EnsureWorkload
  <1> QED
    BY <1>1, <1>2, <1>3, <1>4, <1>5, <1>6, GotoType, WakeType DEF TypeOK, Edited

LEMMA UpdateIronicStatusType ==
  ASSUME TypeInv, NEW o \in Operators, UpdateIronicStatus(o)
  PROVE  TypeInv'
  <1> USE DEF cluster, TypeInv
  <1> DEFINE status == NewStatus(o, mem[o])
  <1>1. mem[o] \in Objects /\ status \in Statuses
    BY NewStatusType DEF UpdateIronicStatus, Held
  <1>2. /\ active' = active /\ cache' = cache /\ lost' = lost
        /\ workload' = workload /\ jobs' = jobs /\ schema' = schema /\ elect' = elect
    BY DEF UpdateIronicStatus
  <1>3. StatusStep
    <2>1. CASE Keep(o) /\ events' = events
      BY <2>1, KeepType, BoundsAssumption DEF StatusStep, TypeOK, BoundsAssumption
    <2>2. CASE Written(o, status, FALSE) \/ NotWritten(o, status)
      BY <1>1, <2>2, WrittenType, NotWrittenType
    <2> QED
      BY <2>1, <2>2 DEF UpdateIronicStatus
  <1>4. PICK requeue \in BOOLEAN : EndReconcile(o, requeue)
    BY DEF UpdateIronicStatus
  <1>5. /\ queued' \in [Operators -> BOOLEAN]
        /\ pc' \in [Operators -> Steps]
        /\ mem' \in [Operators -> Objects \cup {None}]
        /\ outcome' \in [Operators -> {"none", "ready", "updated", "inProgress"}]
        /\ Held'
    BY <1>2, <1>4, EndReconcileType
  <1>6. Edited'
    BY <1>3, BoundsAssumption DEF StatusStep, Edited, TypeOK, Objects, Generations,
                                  BoundsAssumption
  <1> QED
    BY <1>2, <1>3, <1>5, <1>6 DEF StatusStep, TypeOK

\* Every step of a reconcile keeps the state well-formed.
LEMMA ReconcileType ==
  ASSUME TypeInv, NEW o \in Operators, Reconcile(o)
  PROVE  TypeInv'
  <1>1. CASE EnsurePreUpgrade(o)
    BY <1>1, EnsureUpgradeJobType DEF EnsurePreUpgrade, Phases, Steps
  <1>2. CASE EnsurePostUpgrade(o)
    <2>1. outcome[o] \in {"none", "ready", "updated", "inProgress"}
      BY DEF TypeInv, TypeOK
    <2> QED
      BY <1>2, <2>1, EnsureUpgradeJobType DEF EnsurePostUpgrade, Phases, Steps
  <1> QED
    BY <1>1, <1>2, StartReconcileType, RefuseDowngradeType, RequestVersionType,
       EnsureWorkloadType, UpdateIronicStatusType DEF Reconcile

\* So does everything that happens around the operators.
LEMMA OperatorType ==
  ASSUME TypeInv, NEW o \in Operators, Start(o) \/ Stop(o) \/ SyncIronic(o)
  PROVE  TypeInv'
  <1> USE DEF cluster, TypeInv
  <1>1. CASE Start(o)
    <2>1. events' \in 0 .. MaxEvents /\ events' = events + 1
      BY <1>1, EventType DEF Start, TypeOK
    <2>2. TypeOK'
      BY <1>1, <2>1 DEF Start, TypeOK
    <2>3. Held'
      BY <1>1 DEF Start, Held, TypeOK
    <2> QED
      BY <1>1, <2>1, <2>2, <2>3, BoundsAssumption
      DEF Start, Edited, TypeOK, Objects, Generations, BoundsAssumption
  <1>2. CASE Stop(o)
    <2>1. TypeOK'
      BY <1>2 DEF Stop, TypeOK, Steps
    <2>2. Held'
      BY <1>2 DEF Stop, Held, TypeOK
    <2> QED
      BY <1>2, <2>1, <2>2 DEF Stop, Edited
  <1>3. CASE SyncIronic(o)
    <2>1. TypeOK'
      BY <1>3 DEF SyncIronic, TypeOK
    <2>2. Held'
      BY <1>3 DEF SyncIronic, Held, TypeOK
    <2> QED
      BY <1>3, <2>1, <2>2 DEF SyncIronic, Edited
  <1> QED
    BY <1>1, <1>2, <1>3

LEMMA JobType ==
  ASSUME TypeInv, NEW j \in JobKeys, FinishJob(j) \/ ExpireJob(j)
  PROVE  TypeInv'
  <1> USE DEF copies, TypeInv
  <1>1. CASE FinishJob(j)
    <2>1. schema' \subseteq Versions
      BY <1>1 DEF FinishJob, TypeOK, JobKeys
    <2>2. jobs' \in [JobKeys -> [state : {"absent", "running", "complete"},
                                 image : Images \cup {None}]]
      BY <1>1 DEF FinishJob, TypeOK
    <2>3. TypeOK'
      BY <1>1, <2>1, <2>2, WakeType DEF FinishJob, TypeOK
    <2> QED
      BY <1>1, <2>3 DEF FinishJob, Held, Edited
  <1>2. CASE ExpireJob(j)
    <2>1. events' = events \/ Event
      BY <1>2 DEF ExpireJob
    <2>2. events' \in 0 .. MaxEvents /\ events' >= events
      BY <2>1, EventType, BoundsAssumption DEF TypeOK, BoundsAssumption
    <2>3. jobs' \in [JobKeys -> [state : {"absent", "running", "complete"},
                                 image : Images \cup {None}]]
      BY <1>2 DEF ExpireJob, TypeOK, NoJob
    <2>4. TypeOK'
      BY <1>2, <2>2, <2>3, WakeType DEF ExpireJob, TypeOK
    <2>5. Edited'
      BY <1>2, <2>2, BoundsAssumption DEF ExpireJob, Edited, TypeOK, Objects, Generations,
                                          BoundsAssumption
    <2> QED
      BY <1>2, <2>4, <2>5 DEF ExpireJob, Held
  <1> QED
    BY <1>1, <1>2

LEMMA OutsideType ==
  ASSUME TypeInv, RollOut \/ UserEdit
  PROVE  TypeInv'
  <1> USE DEF copies, cluster, TypeInv
  <1>1. CASE RollOut
    <2>1. TypeOK'
      BY <1>1, WakeType DEF RollOut, TypeOK
    <2> QED
      BY <1>1, <2>1 DEF RollOut, Held, Edited
  <1>2. CASE UserEdit
    <2>1. events' \in 0 .. MaxEvents /\ events' = events + 1
      BY <1>2, EventType DEF UserEdit, TypeOK
    <2>2. PICK v \in Choices : ironic' = [ironic EXCEPT !.version = v, !.gen = @ + 1]
      BY <1>2 DEF UserEdit
    <2>3. ironic.gen \in Nat \ {0} /\ ironic.gen + 1 <= events' + 1
      BY <2>1, BoundsAssumption DEF TypeOK, Objects, Generations, Edited, BoundsAssumption
    <2>4. ironic.gen + 1 \in Generations
      BY <2>1, <2>3, BoundsAssumption DEF Generations, BoundsAssumption
    <2>5. ironic' \in Objects /\ ironic'.gen = ironic.gen + 1
      BY <2>2, <2>4 DEF TypeOK, Objects
    <2>6. TypeOK'
      BY <1>2, <2>1, <2>5 DEF UserEdit, TypeOK
    <2> QED
      BY <1>2, <2>3, <2>5, <2>6 DEF UserEdit, Held, Edited
  <1> QED
    BY <1>1, <1>2

LEMMA TypeStep == TypeInv /\ [Next]_vars => TypeInv'
  <1> SUFFICES ASSUME TypeInv, [Next]_vars PROVE TypeInv'
    OBVIOUS
  <1>1. CASE Next
    BY <1>1, ReconcileType, OperatorType, JobType, OutsideType DEF Next
  <1>2. CASE UNCHANGED vars
    BY <1>2 DEF vars, cluster, copies, worker, TypeInv, TypeOK, Held, Edited
  <1> QED
    BY <1>1, <1>2

\* The state is well-formed in every behaviour.
THEOREM OperatorsTypeCorrect == Spec => []TypeOK
  <1>1. TypeInv => TypeOK
    BY DEF TypeInv
  <1> QED
    BY <1>1, InitType, TypeStep, PTL DEF Spec

-----------------------------------------------------------------------------
(* The installed version never goes back.                                     *)

\* A copy that would still be accepted is the object.
Current ==
  \A o \in Operators : /\ fresh[o] => cache[o] = ironic
                       /\ memFresh[o] => mem[o] = ironic

\* Past the version check with such a copy, the version is the recorded one.
Recorded ==
  \A o \in Operators :
    memFresh[o] /\ pc[o] \notin {"idle", "version"} => ~VersionChanged(o, mem[o])

\* No older release than the installed one is ever recorded.
Above(status) ==
  status.installed \notin {None, Latest} =>
    /\ status.requested # None
    /\ ~Less(status.requested, status.installed)

\* What a write may do to the status.
Forward(old, new) ==
  /\ new.installed # old.installed =>
       /\ new.installed # None
       /\ old.installed \in {None, Latest} \/ ~Less(new.installed, old.installed)
  /\ Above(old) => Above(new)

ForwardInv == Current /\ Recorded /\ Above(ironic.status)

\* No release is older than itself.
LEMMA LessIrreflexive ==
  ASSUME NEW v \in Versions
  PROVE  ~Less(v, v)
  BY VersionsType DEF Less, Numbers

\* The writes of the three steps that write, from a copy that is the object.
LEMMA ConditionForward ==
  ASSUME NEW i \in Objects, NEW reason \in Reasons
  PROVE  Forward(i.status, setCondition(i, reason))
  BY DEF Forward, Above, setCondition, Objects, Statuses

LEMMA RequestForward ==
  ASSUME NEW o \in Operators, NEW i \in Objects, ~IsDowngrade(o, i)
  PROVE  Forward(i.status, [setCondition(i, "InProgress")
                              EXCEPT !.requested = VersionFor(o, i)])
  <1>1. VersionFor(o, i) # None
    BY VersionForType, VersionsType
  <1>2. i.status \in Statuses
    BY DEF Objects
  <1> QED
    BY <1>1, <1>2 DEF Forward, Above, setCondition, IsDowngrade, Statuses

LEMMA ReportForward ==
  ASSUME NEW o \in Operators, NEW i \in Objects, ~VersionChanged(o, i), Above(i.status)
  PROVE  Forward(i.status, NewStatus(o, i))
  <1> DEFINE v == VersionFor(o, i)
  <1>1. v \in Versions /\ v # None /\ ~Less(v, v)
    BY VersionForType, VersionsType, LessIrreflexive
  <1>2. i.status \in Statuses
    BY DEF Objects
  <1>3. CASE outcome[o] = "ready"
    <2>1. /\ NewStatus(o, i).installed = v
          /\ NewStatus(o, i).requested = i.status.requested
      BY <1>2, <1>3 DEF NewStatus, setCondition, Statuses
    <2>2. v = i.status.installed \/ v = i.status.requested
      BY DEF VersionChanged
    <2> QED
      BY <1>1, <2>1, <2>2 DEF Forward, Above
  <1>4. CASE outcome[o] # "ready"
    BY <1>4, ConditionForward DEF NewStatus, Reasons
  <1> QED
    BY <1>3, <1>4

\* A write that ends the reconcile leaves the other copies as current as before.
LEMMA EndsCurrent ==
  ASSUME TypeInv, Current, Recorded, NEW o \in Operators, NEW status \in Statuses,
         NEW requeue \in BOOLEAN, EndReconcile(o, requeue), cache' = cache,
         Store(o, status, FALSE) \/ Keep(o)
  PROVE  Current' /\ Recorded'
  <1>1. status = ironic.status => [ironic EXCEPT !.status = status] = ironic
    BY DEF TypeInv, TypeOK, Objects
  <1>2. ~memFresh'[o]
    BY DEF Store, Keep, TypeInv, TypeOK
  <1>3. \A p \in Operators : /\ fresh'[p] => fresh[p] /\ ironic' = ironic
                             /\ memFresh'[p] => memFresh[p] /\ ironic' = ironic /\ p # o
    BY <1>1, <1>2 DEF Store, Keep, TypeInv, TypeOK
  <1>4. \A p \in Operators \ {o} : mem'[p] = mem[p] /\ pc'[p] = pc[p]
    BY DEF EndReconcile, TypeInv, TypeOK
  <1>5. Current'
    BY <1>3, <1>4 DEF Current
  <1>6. Recorded'
    BY <1>3, <1>4 DEF Recorded, VersionChanged, VersionFor
  <1> QED
    BY <1>5, <1>6

\* Nothing, or the status that was to be stored.
LEMMA StoredOrKept ==
  ASSUME TypeOK, NEW o \in Operators, NEW status \in Statuses, NEW hold \in BOOLEAN,
         Store(o, status, hold) \/ Keep(o)
  PROVE  ironic'.status \in {ironic.status, status}
  BY DEF Store, Keep, TypeOK, Objects

LEMMA ForwardReflexive ==
  ASSUME NEW status
  PROVE  Forward(status, status)
  BY DEF Forward

\* The result of a step, for the invariant and for the property.
Advances == ForwardInv' /\ Forward(ironic.status, ironic'.status)

LEMMA RefuseForward ==
  ASSUME TypeInv, ForwardInv, NEW o \in Operators, RefuseDowngrade(o)
  PROVE  Advances
  <1> USE DEF ForwardInv
  <1> DEFINE status == setCondition(mem[o], "Failed")
  <1>1. mem[o] \in Objects /\ status \in Statuses
    BY ConditionType DEF RefuseDowngrade, TypeInv, Held, Reasons
  <1>2. EndReconcile(o, FALSE) /\ cache' = cache
    BY DEF RefuseDowngrade
  <1>3. (memFresh[o] /\ Store(o, status, FALSE)) \/ Keep(o)
    BY DEF RefuseDowngrade, Written, NotWritten
  <1>4. Current' /\ Recorded'
    BY <1>1, <1>2, <1>3, EndsCurrent
  <1>5. memFresh[o] => Forward(ironic.status, status)
    BY <1>1, ConditionForward DEF Current, Reasons
  <1>6. ironic'.status = ironic.status \/ (memFresh[o] /\ ironic'.status = status)
    BY <1>1, <1>3, StoredOrKept DEF TypeInv, Keep
  <1>7. Forward(ironic.status, ironic'.status)
    BY <1>5, <1>6, ForwardReflexive
  <1> QED
    BY <1>4, <1>7 DEF Advances, Forward

LEMMA RequestVersionForward ==
  ASSUME TypeInv, ForwardInv, NEW o \in Operators, RequestVersion(o)
  PROVE  Advances
  <1> USE DEF ForwardInv
  <1> DEFINE status == [setCondition(mem[o], "InProgress")
                          EXCEPT !.requested = VersionFor(o, mem[o])]
  <1>1. mem[o] \in Objects /\ status \in Statuses
    BY RequestedType DEF RequestVersion, TypeInv, Held
  <1>2. cache' = cache /\ ~IsDowngrade(o, mem[o])
    BY DEF RequestVersion
  <1>3. memFresh[o] => Forward(ironic.status, status)
    BY <1>1, <1>2, RequestForward DEF Current
  <1>4. CASE NotWritten(o, status) /\ EndReconcile(o, TRUE)
    <2>1. (memFresh[o] /\ Store(o, status, FALSE)) \/ Keep(o)
      BY <1>4 DEF NotWritten
    <2>2. Current' /\ Recorded'
      BY <1>1, <1>2, <1>4, <2>1, EndsCurrent
    <2>3. ironic'.status = ironic.status \/ (memFresh[o] /\ ironic'.status = status)
      BY <1>1, <2>1, StoredOrKept DEF TypeInv, Keep
    <2>4. Forward(ironic.status, ironic'.status)
      BY <1>3, <2>3, ForwardReflexive
    <2> QED
      BY <2>2, <2>4 DEF Advances, Forward
  <1>5. CASE /\ Written(o, status, TRUE)
             /\ mem' = [mem EXCEPT ![o].status = status]
             /\ pc' = [pc EXCEPT ![o] = FirstStep(o, mem[o])]
    <2>1. memFresh[o] /\ Store(o, status, TRUE) /\ mem[o] = ironic
      BY <1>5 DEF Written, Current
    <2>2. mem'[o] = ironic' /\ ironic' = [mem[o] EXCEPT !.status = status]
      BY <1>5, <2>1 DEF Store, TypeInv, TypeOK
    <2>3. status = ironic.status => ironic' = ironic
      BY <2>1 DEF Store, TypeInv, TypeOK, Objects
    <2>4. \A p \in Operators \ {o} : /\ mem'[p] = mem[p] /\ pc'[p] = pc[p]
                                     /\ memFresh'[p] => memFresh[p] /\ ironic' = ironic
      BY <1>5, <2>1, <2>3 DEF Store, TypeInv, TypeOK
    <2>5. \A p \in Operators : fresh'[p] => fresh[p] /\ ironic' = ironic
      BY <2>1, <2>3 DEF Store, TypeInv, TypeOK
    <2>6. Current'
      BY <1>2, <2>2, <2>4, <2>5 DEF Current
    <2>7. ~VersionChanged(o, mem'[o])
      <3>1. mem'[o].version = mem[o].version /\ mem'[o].status = status
        BY <1>1, <2>2 DEF Objects
      <3>2. status.requested = VersionFor(o, mem[o])
        BY <1>1 DEF Objects, Statuses, setCondition
      <3> QED
        BY <3>1, <3>2 DEF VersionChanged, VersionFor
    <2>8. Recorded'
      BY <2>4, <2>7 DEF Recorded, VersionChanged, VersionFor
    <2>9. Forward(ironic.status, ironic'.status)
      BY <1>1, <1>3, <2>1, <2>2 DEF Objects
    <2> QED
      BY <2>6, <2>8, <2>9 DEF Advances, Forward
  <1> QED
    BY <1>4, <1>5 DEF RequestVersion

LEMMA ReportStepForward ==
  ASSUME TypeInv, ForwardInv, NEW o \in Operators, UpdateIronicStatus(o)
  PROVE  Advances
  <1> USE DEF ForwardInv
  <1> DEFINE status == NewStatus(o, mem[o])
  <1>1. mem[o] \in Objects /\ status \in Statuses
    BY NewStatusType DEF UpdateIronicStatus, TypeInv, Held
  <1>2. cache' = cache
    BY DEF UpdateIronicStatus
  <1>3. PICK requeue \in BOOLEAN : EndReconcile(o, requeue)
    BY DEF UpdateIronicStatus
  <1>4. (memFresh[o] /\ Store(o, status, FALSE)) \/ Keep(o)
    BY DEF UpdateIronicStatus, Written, NotWritten
  <1>5. Current' /\ Recorded'
    BY <1>1, <1>2, <1>3, <1>4, EndsCurrent
  <1>6. memFresh[o] => Forward(ironic.status, status)
    <2>1. SUFFICES ASSUME memFresh[o] PROVE Forward(ironic.status, status)
      OBVIOUS
    <2>2. mem[o] = ironic /\ ~VersionChanged(o, mem[o])
      BY <2>1 DEF Current, Recorded, UpdateIronicStatus
    <2> QED
      BY <1>1, <2>2, ReportForward
  <1>7. ironic'.status = ironic.status \/ (memFresh[o] /\ ironic'.status = status)
    BY <1>1, <1>4, StoredOrKept DEF TypeInv, Keep
  <1>8. Forward(ironic.status, ironic'.status)
    BY <1>6, <1>7, ForwardReflexive
  <1> QED
    BY <1>5, <1>8 DEF Advances, Forward

\* A step that leaves the status alone only has to keep the copies current.
LEMMA QuietForward ==
  ASSUME ForwardInv, ironic'.status = ironic.status, Current', Recorded'
  PROVE  Advances
  BY ForwardReflexive DEF ForwardInv, Advances, Forward

\* A step of one operator that writes nothing to the object.
LEMMA EnsureForward ==
  ASSUME TypeInv, ForwardInv, NEW o \in Operators,
         EnsurePreUpgrade(o) \/ EnsureWorkload(o) \/ EnsurePostUpgrade(o)
  PROVE  Advances
  <1> USE DEF ForwardInv, copies
  <1>1. ironic' = ironic /\ cache' = cache /\ fresh' = fresh
    BY DEF EnsurePreUpgrade, EnsurePostUpgrade, EnsureUpgradeJob, EnsureWorkload
  <1>2. pc[o] \notin {"idle", "version"}
    BY DEF EnsurePreUpgrade, EnsurePostUpgrade, EnsureUpgradeJob, EnsureWorkload
  <1>3. \A p \in Operators \ {o} : mem'[p] = mem[p] /\ pc'[p] = pc[p] /\ memFresh'[p] = memFresh[p]
    BY DEF EnsurePreUpgrade, EnsurePostUpgrade, EnsureUpgradeJob, EnsureWorkload,
           Goto, EndReconcile, TypeInv, TypeOK
  <1>4. (mem'[o] = mem[o] /\ memFresh'[o] = memFresh[o]) \/ ~memFresh'[o]
    BY DEF EnsurePreUpgrade, EnsurePostUpgrade, EnsureUpgradeJob, EnsureWorkload,
           Goto, TypeInv, TypeOK
  <1>5. Current'
    BY <1>1, <1>3, <1>4 DEF Current
  <1>6. Recorded'
    BY <1>2, <1>3, <1>4 DEF Recorded, VersionChanged, VersionFor
  <1> QED
    BY <1>1, <1>5, <1>6, QuietForward

LEMMA StartReconcileForward ==
  ASSUME TypeInv, ForwardInv, NEW o \in Operators, StartReconcile(o)
  PROVE  Advances
  <1> USE DEF ForwardInv, copies
  <1>1. ironic' = ironic
    BY DEF StartReconcile
  <1>2. Current'
    BY DEF StartReconcile, Current, TypeInv, TypeOK
  <1>3. pc'[o] # "version" => ~VersionChanged(o, mem'[o])
    BY DEF StartReconcile, TypeInv, TypeOK
  <1>4. \A p \in Operators \ {o} : mem'[p] = mem[p] /\ pc'[p] = pc[p] /\ memFresh'[p] = memFresh[p]
    BY DEF StartReconcile, TypeInv, TypeOK
  <1>5. Recorded'
    BY <1>3, <1>4 DEF Recorded, VersionChanged, VersionFor
  <1> QED
    BY <1>1, <1>2, <1>5, QuietForward

LEMMA OperatorForward ==
  ASSUME TypeInv, ForwardInv, NEW o \in Operators, Start(o) \/ Stop(o) \/ SyncIronic(o)
  PROVE  Advances
  <1> USE DEF ForwardInv, TypeInv
  <1>1. ironic' = ironic
    BY DEF Start, Stop, SyncIronic
  <1>2. Current'
    BY DEF Start, Stop, SyncIronic, Current, TypeOK
  <1>3. \A p \in Operators : \/ ~memFresh'[p]
                             \/ mem'[p] = mem[p] /\ pc'[p] = pc[p] /\ memFresh'[p] = memFresh[p]
    BY DEF Start, Stop, SyncIronic, TypeOK
  <1>4. Recorded'
    BY <1>3 DEF Recorded, VersionChanged, VersionFor
  <1> QED
    BY <1>1, <1>2, <1>4, QuietForward

LEMMA OutsideForward ==
  ASSUME TypeInv, ForwardInv,
         RollOut \/ UserEdit \/ \E j \in JobKeys : FinishJob(j) \/ ExpireJob(j)
  PROVE  Advances
  <1> USE DEF ForwardInv, copies
  <1>1. CASE UserEdit
    <2>1. ironic'.status = ironic.status
      BY <1>1 DEF UserEdit, TypeInv, TypeOK, Objects
    <2>2. \A o \in Operators : ~fresh'[o] /\ ~memFresh'[o]
      BY <1>1 DEF UserEdit
    <2> QED
      BY <2>1, <2>2, QuietForward DEF Current, Recorded
  <1>2. CASE RollOut \/ \E j \in JobKeys : FinishJob(j) \/ ExpireJob(j)
    <2>1. UNCHANGED <<ironic, cache, fresh, pc, mem, memFresh>>
      BY <1>2 DEF RollOut, FinishJob, ExpireJob
    <2> QED
      BY <2>1, QuietForward DEF Current, Recorded, VersionChanged, VersionFor
  <1> QED
    BY <1>1, <1>2

LEMMA ForwardStep == TypeInv /\ ForwardInv /\ [Next]_vars => Advances
  <1> SUFFICES ASSUME TypeInv, ForwardInv, [Next]_vars PROVE Advances
    OBVIOUS
  <1>1. CASE Next
    BY <1>1, StartReconcileForward, RefuseForward, RequestVersionForward, EnsureForward,
       ReportStepForward, OperatorForward, OutsideForward DEF Next, Reconcile
  <1>2. CASE UNCHANGED vars
    BY <1>2, QuietForward
    DEF vars, copies, worker, ForwardInv, Current, Recorded, VersionChanged, VersionFor
  <1> QED
    BY <1>1, <1>2

LEMMA ForwardInit == Init => ForwardInv
  <1> SUFFICES ASSUME Init PROVE ForwardInv
    OBVIOUS
  <1>1. Current /\ Recorded
    BY DEF Init, Current, Recorded
  <1>2. Above(ironic.status)
    <2>1. CASE \E v \in Choices : ironic = [version |-> v, gen |-> 1, status |-> NoStatus]
      BY <2>1 DEF Above, NoStatus
    <2>2. CASE \E v \in Choices, o \in Operators : DeployedBy(o, v)
      <3>1. PICK v \in Choices, o \in Operators : DeployedBy(o, v)
        BY <2>2
      <3> DEFINE i == [version |-> v, gen |-> 1, status |-> NoStatus]
                 w == VersionFor(o, i)
      <3>2. w \in Versions
        BY DEF VersionFor, Versions
      <3>3. ironic.status.installed = w /\ ironic.status.requested = w
        BY <3>1 DEF DeployedBy
      <3> QED
        BY <3>2, <3>3, LessIrreflexive, VersionsType DEF Above
    <2> QED
      BY <2>1, <2>2 DEF Init
  <1> QED
    BY <1>1, <1>2 DEF ForwardInv

\* Whatever operators, however many at once: the optimistic lock and the guard
\* together never let the installed version go back.
THEOREM OperatorsNeverGoBack == Spec => NeverGoesBack
  <1> DEFINE Step == LET old == ironic.status.installed
                         new == ironic'.status.installed
                     IN  new # old =>
                           new # None /\ (old \in {None, Latest} \/ ~Less(new, old))
  <1>1. TypeInv /\ ForwardInv /\ [Next]_vars => ForwardInv' /\ [Step]_vars
    BY ForwardStep DEF Advances, Forward
  <1> HIDE DEF Step
  <1>2. Spec => [][Step]_vars
    BY InitType, TypeStep, ForwardInit, <1>1, PTL DEF Spec
  <1> QED
    BY <1>2 DEF NeverGoesBack, Step

-----------------------------------------------------------------------------
(* What is deployed has upgraded the schema.                                  *)

\* The version a status calls installed ran its upgrade.
Ran(i) == i.status.installed # None => i.status.installed \in schema

CopiesRan ==
  /\ Ran(ironic)
  /\ \A o \in Operators : /\ o \in active => Ran(cache[o])
                          /\ pc[o] # "idle" => Ran(mem[o])

JobsRan == \A j \in JobKeys : j.phase = "pre" /\ jobs[j].state = "complete" => j.to \in schema

\* A reconcile that got to the workload, or found it ready, is for such a version.
Prepared ==
  \A o \in Operators :
    pc[o] \in {"workload", "post"} \/ (pc[o] = "report" /\ outcome[o] = "ready")
      => VersionFor(o, mem[o]) \in schema

SchemaInv == CopiesRan /\ JobsRan /\ Prepared /\ RunsOnItsSchema

\* Where a reconcile goes when its version is the installed one.
LEMMA FirstStepPrepared ==
  ASSUME NEW o \in Operators, NEW i \in Objects, Ran(i)
  PROVE  FirstStep(o, i) = "workload" => VersionFor(o, i) \in schema
  BY VersionForType, VersionsType DEF FirstStep, upgradeJobRequired, Ran

LEMMA SchemaInit == Init => SchemaInv
  <1> SUFFICES ASSUME Init PROVE SchemaInv
    OBVIOUS
  <1>1. Ran(ironic) /\ RunsOnItsSchema
    <2>1. CASE /\ \E v \in Choices : ironic = [version |-> v, gen |-> 1, status |-> NoStatus]
               /\ workload = NoWorkload
      BY <2>1 DEF Ran, NoStatus, NoWorkload, RunsOnItsSchema
    <2>2. CASE \E v \in Choices, o \in Operators : DeployedBy(o, v)
      BY <2>2 DEF DeployedBy, Ran, RunsOnItsSchema
    <2> QED
      BY <2>1, <2>2 DEF Init
  <1>2. CopiesRan
    BY <1>1 DEF Init, CopiesRan, Ran
  <1>3. JobsRan /\ Prepared
    BY DEF Init, JobsRan, Prepared, NoJob
  <1> QED
    BY <1>1, <1>2, <1>3 DEF SchemaInv

\* A reconcile that ends, whether or not its status was stored.
LEMMA EndsSchema ==
  ASSUME TypeInv, SchemaInv, NEW o \in Operators, NEW status \in Statuses,
         NEW requeue \in BOOLEAN, EndReconcile(o, requeue),
         status.installed # None => status.installed \in schema,
         ironic'.status \in {ironic.status, status},
         UNCHANGED <<schema, jobs, workload, active, cache>>
  PROVE  SchemaInv'
  <1> USE DEF SchemaInv
  <1>1. Ran(ironic)'
    BY DEF CopiesRan, Ran
  <1>2. pc'[o] = "idle" /\ \A p \in Operators \ {o} : mem'[p] = mem[p] /\ pc'[p] = pc[p]
                                                     /\ outcome'[p] = outcome[p]
    BY DEF EndReconcile, TypeInv, TypeOK
  <1>3. CopiesRan'
    BY <1>1, <1>2 DEF CopiesRan, Ran
  <1>4. Prepared'
    BY <1>2 DEF Prepared, VersionFor
  <1> QED
    BY <1>3, <1>4 DEF JobsRan, RunsOnItsSchema

LEMMA RefuseSchema ==
  ASSUME TypeInv, SchemaInv, NEW o \in Operators, RefuseDowngrade(o)
  PROVE  SchemaInv'
  <1> DEFINE status == setCondition(mem[o], "Failed")
  <1>1. mem[o] \in Objects /\ status \in Statuses
    BY ConditionType DEF RefuseDowngrade, TypeInv, Held, Reasons
  <1>2. status.installed = mem[o].status.installed
    BY <1>1 DEF setCondition, Objects, Statuses
  <1>3. status.installed # None => status.installed \in schema
    BY <1>2 DEF RefuseDowngrade, SchemaInv, CopiesRan, Ran
  <1>4. Store(o, status, FALSE) \/ Keep(o)
    BY DEF RefuseDowngrade, Written, NotWritten
  <1>5. ironic'.status \in {ironic.status, status}
    BY <1>1, <1>4, StoredOrKept DEF TypeInv
  <1> QED
    BY <1>1, <1>3, <1>5, EndsSchema DEF RefuseDowngrade, cluster

LEMMA ReportSchema ==
  ASSUME TypeInv, SchemaInv, NEW o \in Operators, UpdateIronicStatus(o)
  PROVE  SchemaInv'
  <1> DEFINE status == NewStatus(o, mem[o])
  <1>1. mem[o] \in Objects /\ status \in Statuses
    BY NewStatusType DEF UpdateIronicStatus, TypeInv, Held
  <1>2. status.installed = IF outcome[o] = "ready" THEN VersionFor(o, mem[o])
                                                  ELSE mem[o].status.installed
    BY <1>1 DEF NewStatus, setCondition, Objects, Statuses
  <1>3. status.installed # None => status.installed \in schema
    BY <1>2 DEF UpdateIronicStatus, SchemaInv, CopiesRan, Prepared, Ran
  <1>4. Store(o, status, FALSE) \/ Keep(o)
    BY DEF UpdateIronicStatus, Written, NotWritten
  <1>5. ironic'.status \in {ironic.status, status}
    BY <1>1, <1>4, StoredOrKept DEF TypeInv
  <1>6. PICK requeue \in BOOLEAN : EndReconcile(o, requeue)
    BY DEF UpdateIronicStatus
  <1> QED
    BY <1>1, <1>3, <1>5, <1>6, EndsSchema DEF UpdateIronicStatus, cluster

LEMMA RequestSchema ==
  ASSUME TypeInv, SchemaInv, NEW o \in Operators, RequestVersion(o)
  PROVE  SchemaInv'
  <1> USE DEF cluster
  <1> DEFINE status == [setCondition(mem[o], "InProgress")
                          EXCEPT !.requested = VersionFor(o, mem[o])]
  <1>1. mem[o] \in Objects /\ status \in Statuses
    BY RequestedType DEF RequestVersion, TypeInv, Held
  <1>2. status.installed = mem[o].status.installed
    BY <1>1 DEF setCondition, Objects, Statuses
  <1>3. Ran(mem[o])
    BY DEF RequestVersion, SchemaInv, CopiesRan
  <1>4. UNCHANGED <<schema, jobs, workload, active, cache>>
    BY DEF RequestVersion
  <1>5. CASE NotWritten(o, status) /\ EndReconcile(o, TRUE)
    <2>1. Store(o, status, FALSE) \/ Keep(o)
      BY <1>5 DEF NotWritten
    <2>2. ironic'.status \in {ironic.status, status}
      BY <1>1, <2>1, StoredOrKept DEF TypeInv
    <2> QED
      BY <1>1, <1>2, <1>3, <1>4, <1>5, <2>2, EndsSchema DEF Ran
  <1>6. CASE /\ Written(o, status, TRUE)
             /\ mem' = [mem EXCEPT ![o].status = status]
             /\ pc' = [pc EXCEPT ![o] = FirstStep(o, mem[o])]
             /\ UNCHANGED <<queued, outcome>>
    <2>1. ironic'.status = status
      BY <1>6 DEF Written, Store, TypeInv, TypeOK, Objects
    <2>2. mem'[o].status = status /\ mem'[o].version = mem[o].version
      <3>1. mem'[o] = [mem[o] EXCEPT !.status = status]
        BY <1>6 DEF TypeInv, TypeOK
      <3> QED
        BY <1>1, <3>1 DEF Objects
    <2>3. pc'[o] = FirstStep(o, mem[o]) /\ \A p \in Operators \ {o} : mem'[p] = mem[p] /\ pc'[p] = pc[p]
      BY <1>6 DEF TypeInv, TypeOK
    <2>4. CopiesRan'
      BY <1>2, <1>3, <1>4, <2>1, <2>2, <2>3 DEF SchemaInv, CopiesRan, Ran
    <2>5. FirstStep(o, mem[o]) \in {"pre", "workload"}
      BY DEF FirstStep
    <2>6. FirstStep(o, mem[o]) = "workload" => VersionFor(o, mem[o]) \in schema
      BY <1>1, <1>3, FirstStepPrepared
    <2>7. Prepared'
      BY <1>4, <1>6, <2>2, <2>3, <2>5, <2>6 DEF SchemaInv, Prepared, VersionFor
    <2> QED
      BY <1>4, <2>4, <2>7 DEF SchemaInv, JobsRan, RunsOnItsSchema
  <1> QED
    BY <1>5, <1>6 DEF RequestVersion

LEMMA StartReconcileSchema ==
  ASSUME TypeInv, SchemaInv, NEW o \in Operators, StartReconcile(o)
  PROVE  SchemaInv'
  <1> USE DEF cluster, copies, SchemaInv
  <1>1. cache[o] \in Objects /\ Ran(cache[o])
    BY DEF StartReconcile, TypeInv, Held, CopiesRan
  <1>2. mem'[o] = cache[o] /\ pc'[o] \in {"version", FirstStep(o, cache[o])}
    BY DEF StartReconcile, TypeInv, TypeOK
  <1>3. \A p \in Operators \ {o} : mem'[p] = mem[p] /\ pc'[p] = pc[p]
    BY DEF StartReconcile, TypeInv, TypeOK
  <1>4. UNCHANGED <<ironic, schema, jobs, workload, active, cache, outcome>>
    BY DEF StartReconcile
  <1>5. CopiesRan'
    BY <1>1, <1>2, <1>3, <1>4 DEF CopiesRan, Ran
  <1>6. FirstStep(o, cache[o]) \in {"pre", "workload"}
    BY DEF FirstStep
  <1>7. FirstStep(o, cache[o]) = "workload" => VersionFor(o, cache[o]) \in schema
    BY <1>1, FirstStepPrepared
  <1>8. Prepared'
    BY <1>2, <1>3, <1>4, <1>6, <1>7 DEF Prepared, VersionFor
  <1> QED
    BY <1>4, <1>5, <1>8 DEF JobsRan, RunsOnItsSchema

LEMMA EnsureUpgradeJobSchema ==
  ASSUME TypeInv, SchemaInv, NEW o \in Operators,
         EnsurePreUpgrade(o) \/ EnsurePostUpgrade(o)
  PROVE  SchemaInv'
  <1> USE DEF copies, SchemaInv
  <1>1. PICK phase \in Phases, next \in Steps, result \in {"none", outcome[o]} :
          /\ EnsureUpgradeJob(o, phase, next, result)
          /\ \/ phase = "pre" /\ next = "workload"
             \/ phase = "post" /\ next = "report" /\ result = outcome[o]
    BY DEF EnsurePreUpgrade, EnsurePostUpgrade, Phases, Steps
  <1> DEFINE name == JobName(o, mem[o], phase)
  <1>2. pc[o] = phase /\ mem[o] \in Objects
    BY <1>1 DEF EnsureUpgradeJob, TypeInv, Held, Phases
  <1>3. name \in JobKeys /\ name.to = VersionFor(o, mem[o]) /\ name.phase = phase
    <2>1. mem[o].status.installed \in Versions \cup {None}
      BY <1>2 DEF Objects, Statuses
    <2> QED
      BY <1>2, <2>1, VersionForType DEF JobName, JobKeys
  <1>4. UNCHANGED <<ironic, schema, workload, active, cache>>
    BY <1>1 DEF EnsureUpgradeJob
  <1>5. \A p \in Operators \ {o} : mem'[p] = mem[p] /\ pc'[p] = pc[p] /\ outcome'[p] = outcome[p]
    BY <1>1 DEF EnsureUpgradeJob, Goto, EndReconcile, TypeInv, TypeOK
  <1>6. \/ pc'[o] = "idle"
        \/ mem'[o] = mem[o] /\ pc'[o] = "report" /\ outcome'[o] # "ready"
        \/ /\ mem'[o] = mem[o] /\ pc'[o] = next /\ outcome'[o] = result
           /\ jobs[name].state = "complete"
    BY <1>1 DEF EnsureUpgradeJob, Goto, EndReconcile, TypeInv, TypeOK
  <1>7. CopiesRan'
    BY <1>2, <1>4, <1>5, <1>6 DEF CopiesRan, Ran, Phases
  <1>8. JobsRan'
    <2> DEFINE started == [state |-> "running", image |-> ImageFor(o, mem[o])]
    <2>1. jobs' = jobs \/ jobs' = [jobs EXCEPT ![name] = started]
      BY <1>1 DEF EnsureUpgradeJob
    <2>2. \A j \in JobKeys : jobs'[j] = jobs[j] \/ jobs'[j].state = "running"
      BY <2>1 DEF TypeInv, TypeOK
    <2> QED
      BY <1>4, <2>2 DEF JobsRan
  <1>9. next = "workload" /\ jobs[name].state = "complete" => VersionFor(o, mem[o]) \in schema
    BY <1>1, <1>3 DEF JobsRan
  <1>10. next = "report" => VersionFor(o, mem[o]) \in schema
    BY <1>1, <1>2 DEF Prepared
  <1>11. Prepared'
    BY <1>1, <1>4, <1>5, <1>6, <1>9, <1>10 DEF Prepared, VersionFor
  <1> QED
    BY <1>4, <1>7, <1>8, <1>11 DEF RunsOnItsSchema

LEMMA EnsureWorkloadSchema ==
  ASSUME TypeInv, SchemaInv, NEW o \in Operators, EnsureWorkload(o)
  PROVE  SchemaInv'
  <1> USE DEF copies, SchemaInv
  <1>1. VersionFor(o, mem[o]) \in schema
    BY DEF EnsureWorkload, Prepared
  <1>2. UNCHANGED <<ironic, schema, jobs, active, cache>>
    BY DEF EnsureWorkload
  <1>3. /\ mem' = mem
        /\ \A p \in Operators \ {o} : pc'[p] = pc[p] /\ outcome'[p] = outcome[p]
    BY DEF EnsureWorkload, Goto, TypeInv, TypeOK
  <1>4. workload'.version \in {workload.version, VersionFor(o, mem[o])}
    BY DEF EnsureWorkload
  <1>5. CopiesRan'
    BY <1>2, <1>3 DEF EnsureWorkload, CopiesRan, Ran
  <1>6. Prepared'
    BY <1>1, <1>2, <1>3 DEF Prepared, VersionFor
  <1> QED
    BY <1>1, <1>2, <1>4, <1>5, <1>6 DEF JobsRan, RunsOnItsSchema

\* Around the operators the schema only gains versions.
LEMMA OperatorSchema ==
  ASSUME TypeInv, SchemaInv, NEW o \in Operators, Start(o) \/ Stop(o) \/ SyncIronic(o)
  PROVE  SchemaInv'
  <1> USE DEF cluster, SchemaInv
  <1>1. UNCHANGED <<ironic, schema, jobs, workload>>
    BY DEF Start, Stop, SyncIronic
  <1>2. \A p \in Operators : \/ pc'[p] = "idle"
                             \/ /\ mem'[p] = mem[p] /\ pc'[p] = pc[p]
                                /\ outcome'[p] = outcome[p]
    BY DEF Start, Stop, SyncIronic, TypeInv, TypeOK
  <1>3. \A p \in active' : cache'[p] = ironic \/ (p \in active /\ cache'[p] = cache[p])
    BY DEF Start, Stop, SyncIronic, TypeInv, TypeOK
  <1>4. CopiesRan'
    BY <1>1, <1>2, <1>3 DEF CopiesRan, Ran, TypeInv, TypeOK
  <1>5. Prepared'
    BY <1>1, <1>2 DEF Prepared, VersionFor
  <1> QED
    BY <1>1, <1>4, <1>5 DEF JobsRan, RunsOnItsSchema

LEMMA OutsideSchema ==
  ASSUME TypeInv, SchemaInv,
         RollOut \/ UserEdit \/ \E j \in JobKeys : FinishJob(j) \/ ExpireJob(j)
  PROVE  SchemaInv'
  <1> USE DEF copies, cluster, SchemaInv
  <1>1. UNCHANGED <<active, cache, pc, mem, outcome>> /\ schema \subseteq schema'
    BY DEF RollOut, UserEdit, FinishJob, ExpireJob
  <1>2. ironic'.status = ironic.status /\ workload'.version = workload.version
    BY DEF RollOut, UserEdit, FinishJob, ExpireJob, TypeInv, TypeOK, Objects
  <1>3. CopiesRan' /\ Prepared' /\ RunsOnItsSchema'
    BY <1>1, <1>2 DEF CopiesRan, Ran, Prepared, VersionFor, RunsOnItsSchema
  <1>4. JobsRan'
    <2>1. CASE UNCHANGED jobs
      BY <1>1, <2>1 DEF JobsRan
    <2>2. ASSUME NEW j \in JobKeys, FinishJob(j) PROVE JobsRan'
      BY <1>1, <2>2 DEF FinishJob, JobsRan, TypeInv, TypeOK
    <2>3. ASSUME NEW j \in JobKeys, ExpireJob(j) PROVE JobsRan'
      BY <1>1, <2>3 DEF ExpireJob, JobsRan, NoJob, TypeInv, TypeOK
    <2> QED
      BY <2>1, <2>2, <2>3 DEF RollOut, UserEdit
  <1> QED
    BY <1>3, <1>4

LEMMA SchemaStep == TypeInv /\ SchemaInv /\ [Next]_vars => SchemaInv'
  <1> SUFFICES ASSUME TypeInv, SchemaInv, [Next]_vars PROVE SchemaInv'
    OBVIOUS
  <1>1. CASE Next
    BY <1>1, StartReconcileSchema, RefuseSchema, RequestSchema, EnsureUpgradeJobSchema,
       EnsureWorkloadSchema, ReportSchema, OperatorSchema, OutsideSchema DEF Next, Reconcile
  <1>2. CASE UNCHANGED vars
    BY <1>2 DEF vars, copies, cluster, worker, SchemaInv, CopiesRan, JobsRan, Prepared,
                RunsOnItsSchema, Ran, VersionFor
  <1> QED
    BY <1>1, <1>2

\* No operator, however outdated the copy it works on, deploys a version whose
\* database upgrade has not run.
THEOREM OperatorsRunOnTheirSchema == Spec => []RunsOnItsSchema
  <1>1. SchemaInv => RunsOnItsSchema
    BY DEF SchemaInv
  <1> QED
    BY <1>1, InitType, TypeStep, SchemaInit, SchemaStep, PTL DEF Spec

-----------------------------------------------------------------------------
(* A refusal is reported.                                                     *)

\* No wake-up is lost: an operator that has heard of every change and has nothing
\* queued works on the object itself.
Awake ==
  \A o \in Operators : pc[o] # "idle" /\ fresh[o] /\ ~queued[o] => memFresh[o]

\* An operator that rests and refuses has said so.
Told ==
  \A o \in active \ lost :
    pc[o] = "idle" /\ ~queued[o] /\ fresh[o] /\ Refuses(o, ironic) =>
      ironic.status.reason = "Failed" /\ ironic.status.obsGen = ironic.gen

ReportInv == Awake /\ Told

LEMMA ReportInit == Init => ReportInv
  BY DEF Init, ReportInv, Awake, Told

\* What a step leaves alone: the operator's worker, and the object as long as
\* the operator has heard of every change.
Untouched(o) ==
  /\ pc'[o] = pc[o]
  /\ queued[o] => queued'[o]
  /\ fresh'[o] => fresh[o] /\ ironic' = ironic
  /\ memFresh'[o] \/ ~memFresh[o] \/ ~fresh'[o]

\* An operator a step leaves alone stays as it was.
LEMMA UntouchedReport ==
  ASSUME ReportInv, NEW o \in Operators, Untouched(o),
         o \in active' \ lost' => o \in active \ lost
  PROVE  /\ pc'[o] # "idle" /\ fresh'[o] /\ ~queued'[o] => memFresh'[o]
         /\ o \in active' \ lost' /\ pc'[o] = "idle" /\ ~queued'[o] /\ fresh'[o]
              /\ Refuses(o, ironic') =>
              ironic'.status.reason = "Failed" /\ ironic'.status.obsGen = ironic'.gen
  <1>1. pc'[o] # "idle" /\ fresh'[o] /\ ~queued'[o] => memFresh'[o]
    BY DEF ReportInv, Awake, Untouched
  <1>2. ASSUME o \in active' \ lost', pc'[o] = "idle", ~queued'[o], fresh'[o], Refuses(o, ironic')
        PROVE  ironic'.status.reason = "Failed" /\ ironic'.status.obsGen = ironic'.gen
    <2>1. ironic' = ironic /\ o \in active \ lost /\ pc[o] = "idle" /\ ~queued[o] /\ fresh[o]
      BY <1>2 DEF Untouched
    <2>2. Refuses(o, ironic)
      BY <1>2, <2>1
    <2> QED
      BY <2>1, <2>2 DEF ReportInv, Told
  <1> QED
    BY <1>1, <1>2

\* It is enough to look at each operator in turn.
LEMMA EachReport ==
  ASSUME TypeOK',
         \A o \in Operators :
           /\ pc'[o] # "idle" /\ fresh'[o] /\ ~queued'[o] => memFresh'[o]
           /\ o \in active' \ lost' /\ pc'[o] = "idle" /\ ~queued'[o] /\ fresh'[o]
                /\ Refuses(o, ironic') =>
                ironic'.status.reason = "Failed" /\ ironic'.status.obsGen = ironic'.gen
  PROVE  ReportInv'
  <1>1. Awake'
    BY DEF Awake
  <1>2. active' \subseteq Operators
    BY DEF TypeOK
  <1>3. SUFFICES ASSUME NEW o \in active' \ lost', pc'[o] = "idle", ~queued'[o], fresh'[o],
                        Refuses(o, ironic')
                 PROVE  ironic'.status.reason = "Failed" /\ ironic'.status.obsGen = ironic'.gen
    BY <1>1 DEF ReportInv, Told, Refuses, VersionChanged, IsDowngrade, VersionFor
  <1> QED
    BY <1>2, <1>3

\* An update of the status, seen by the operators that did not make it.
LEMMA StatusUntouched ==
  ASSUME TypeInv, NEW o \in Operators, NEW status \in Statuses, NEW hold \in BOOLEAN,
         Store(o, status, hold) \/ Keep(o)
  PROVE  /\ \A p \in Operators : fresh'[p] => fresh[p] /\ ironic' = ironic
         /\ \A p \in Operators \ {o} : memFresh'[p] \/ ~memFresh[p] \/ ~fresh'[p]
  <1>1. status = ironic.status => [ironic EXCEPT !.status = status] = ironic
    BY DEF TypeInv, TypeOK, Objects
  <1> QED
    BY <1>1 DEF Store, Keep, TypeInv, TypeOK

\* Whoever refuses a downgrade, and rests, has said so.
LEMMA RefuseTells ==
  ASSUME TypeInv, ForwardInv, ReportInv, NEW o \in Operators, RefuseDowngrade(o),
         o \notin lost', ~queued'[o], fresh'[o]
  PROVE  ironic'.status.reason = "Failed" /\ ironic'.status.obsGen = ironic'.gen
  <1> DEFINE status == setCondition(mem[o], "Failed")
  <1>1. mem[o] \in Objects /\ status \in Statuses /\ pc[o] # "idle"
    BY ConditionType DEF RefuseDowngrade, TypeInv, Held, Reasons
  <1>2. (memFresh[o] /\ Store(o, status, FALSE)) \/ Keep(o)
    BY DEF RefuseDowngrade, Written, NotWritten
  <1>3. fresh[o] /\ ironic' = ironic
    BY <1>1, <1>2, StatusUntouched
  <1>4. ~queued[o]
    BY DEF RefuseDowngrade, EndReconcile, TypeInv, TypeOK
  <1>5. memFresh[o] /\ mem[o] = ironic
    BY <1>1, <1>3, <1>4 DEF ReportInv, Awake, ForwardInv, Current
  <1>6. memFresh[o] /\ ironic'.status # status => o \in lost'
    BY DEF RefuseDowngrade
  <1>7. ironic'.status = status /\ ironic'.gen = mem[o].gen
    BY <1>3, <1>5, <1>6
  <1> QED
    BY <1>1, <1>7 DEF setCondition, Objects, Statuses

LEMMA RefuseReport ==
  ASSUME TypeInv, ForwardInv, ReportInv, NEW o \in Operators, RefuseDowngrade(o)
  PROVE  ReportInv'
  <1> DEFINE status == setCondition(mem[o], "Failed")
  <1>1. mem[o] \in Objects /\ status \in Statuses /\ pc[o] # "idle"
    BY ConditionType DEF RefuseDowngrade, TypeInv, Held, Reasons
  <1>2. active' = active /\ EndReconcile(o, FALSE)
    BY DEF RefuseDowngrade
  <1>3. (memFresh[o] /\ Store(o, status, FALSE)) \/ Keep(o)
    BY DEF RefuseDowngrade, Written, NotWritten
  <1>4. /\ \A p \in Operators : fresh'[p] => fresh[p] /\ ironic' = ironic
        /\ \A p \in Operators \ {o} : memFresh'[p] \/ ~memFresh[p] \/ ~fresh'[p]
    BY <1>1, <1>3, StatusUntouched
  <1>5. \A p \in Operators \ {o} : Untouched(p)
    BY <1>2, <1>4 DEF EndReconcile, Untouched, TypeInv, TypeOK
  <1>6. lost \subseteq lost'
    BY DEF RefuseDowngrade
  <1>7. pc'[o] = "idle"
    BY <1>2 DEF EndReconcile, TypeInv, TypeOK
  <1>8. ASSUME o \in active' \ lost', ~queued'[o], fresh'[o]
        PROVE  ironic'.status.reason = "Failed" /\ ironic'.status.obsGen = ironic'.gen
    BY <1>8, RefuseTells
  <1>9. \A p \in Operators \ {o} : p \in active' \ lost' => p \in active \ lost
    BY <1>2, <1>6
  <1>10. TypeOK'
    BY RefuseDowngradeType DEF TypeInv
  <1> QED
    BY <1>5, <1>7, <1>8, <1>9, <1>10, UntouchedReport, EachReport

LEMMA ReportReport ==
  ASSUME TypeInv, ForwardInv, ReportInv, NEW o \in Operators, UpdateIronicStatus(o)
  PROVE  ReportInv'
  <1> DEFINE status == NewStatus(o, mem[o])
  <1>1. mem[o] \in Objects /\ status \in Statuses /\ pc[o] = "report"
    BY NewStatusType DEF UpdateIronicStatus, TypeInv, Held
  <1>2. active' = active /\ lost' = lost
    BY DEF UpdateIronicStatus
  <1>3. PICK requeue \in BOOLEAN : EndReconcile(o, requeue)
    BY DEF UpdateIronicStatus
  <1>4. (memFresh[o] /\ Store(o, status, FALSE)) \/ Keep(o)
    BY DEF UpdateIronicStatus, Written, NotWritten
  <1>5. /\ \A p \in Operators : fresh'[p] => fresh[p] /\ ironic' = ironic
        /\ \A p \in Operators \ {o} : memFresh'[p] \/ ~memFresh[p] \/ ~fresh'[p]
    BY <1>1, <1>4, StatusUntouched
  <1>6. \A p \in Operators \ {o} : Untouched(p)
    BY <1>3, <1>5 DEF EndReconcile, Untouched, TypeInv, TypeOK
  <1>7. pc'[o] = "idle" /\ (queued[o] => queued'[o])
    BY <1>3 DEF EndReconcile, TypeInv, TypeOK
  <1>8. ASSUME ~queued'[o], fresh'[o] PROVE ~Refuses(o, ironic')
    <2>1. memFresh[o] /\ mem[o] = ironic /\ ironic' = ironic
      BY <1>1, <1>5, <1>7, <1>8 DEF ReportInv, Awake, ForwardInv, Current
    <2>2. ~VersionChanged(o, ironic)
      BY <1>1, <2>1 DEF ForwardInv, Recorded
    <2> QED
      BY <2>1, <2>2 DEF Refuses
  <1>9. TypeOK'
    BY UpdateIronicStatusType DEF TypeInv
  <1> QED
    BY <1>2, <1>6, <1>7, <1>8, <1>9, UntouchedReport, EachReport

LEMMA RequestReport ==
  ASSUME TypeInv, ForwardInv, ReportInv, NEW o \in Operators, RequestVersion(o)
  PROVE  ReportInv'
  <1> DEFINE status == [setCondition(mem[o], "InProgress")
                          EXCEPT !.requested = VersionFor(o, mem[o])]
  <1>1. mem[o] \in Objects /\ status \in Statuses
    BY RequestedType DEF RequestVersion, TypeInv, Held
  <1>2. active' = active /\ lost' = lost
    BY DEF RequestVersion
  <1>3. PICK hold \in BOOLEAN : Store(o, status, hold) \/ Keep(o)
    BY DEF RequestVersion, Written, NotWritten
  <1>4. /\ \A p \in Operators : fresh'[p] => fresh[p] /\ ironic' = ironic
        /\ \A p \in Operators \ {o} : memFresh'[p] \/ ~memFresh[p] \/ ~fresh'[p]
    BY <1>1, <1>3, StatusUntouched
  <1>5. \A p \in Operators \ {o} : pc'[p] = pc[p] /\ (queued[p] => queued'[p])
    BY DEF RequestVersion, EndReconcile, TypeInv, TypeOK
  <1>6. \A p \in Operators \ {o} : Untouched(p)
    BY <1>4, <1>5 DEF Untouched
  <1>7. (pc'[o] = "idle" /\ queued'[o]) \/ (pc'[o] # "idle" /\ memFresh'[o])
    <2>1. CASE NotWritten(o, status) /\ EndReconcile(o, TRUE)
      BY <2>1 DEF EndReconcile, TypeInv, TypeOK
    <2>2. CASE Written(o, status, TRUE) /\ pc' = [pc EXCEPT ![o] = FirstStep(o, mem[o])]
      BY <2>2 DEF Written, Store, FirstStep, TypeInv, TypeOK
    <2> QED
      BY <2>1, <2>2 DEF RequestVersion
  <1>8. TypeOK'
    BY RequestVersionType DEF TypeInv
  <1> QED
    BY <1>2, <1>6, <1>7, <1>8, UntouchedReport, EachReport

\* A reconcile that goes on, or ends in an error and is queued again.
LEMMA EnsureReport ==
  ASSUME TypeInv, ReportInv, NEW o \in Operators,
         EnsurePreUpgrade(o) \/ EnsureWorkload(o) \/ EnsurePostUpgrade(o)
  PROVE  ReportInv'
  <1> USE DEF copies
  <1> USE DEF EnsurePreUpgrade, EnsurePostUpgrade, EnsureUpgradeJob, EnsureWorkload
  <1>1. UNCHANGED <<ironic, active, lost, fresh>> /\ pc[o] # "idle"
    OBVIOUS
  <1>2. \A p \in Operators : queued[p] => queued'[p]
    BY DEF Goto, EndReconcile, Wake, TypeInv, TypeOK
  <1>3. \A p \in Operators \ {o} : pc'[p] = pc[p] /\ memFresh'[p] = memFresh[p]
    BY DEF Goto, EndReconcile, TypeInv, TypeOK
  <1>4. \A p \in Operators \ {o} : Untouched(p)
    BY <1>1, <1>2, <1>3 DEF Untouched
  <1>5. \/ pc'[o] = "idle" /\ queued'[o]
        \/ pc'[o] # "idle" /\ memFresh'[o] = memFresh[o]
    BY DEF Goto, EndReconcile, TypeInv, TypeOK
  <1>6. pc'[o] # "idle" /\ fresh'[o] /\ ~queued'[o] => memFresh'[o]
    BY <1>1, <1>2, <1>5 DEF ReportInv, Awake
  <1>7. TypeOK'
    BY ReconcileType DEF Reconcile, TypeInv
  <1> QED
    BY <1>1, <1>4, <1>5, <1>6, <1>7, UntouchedReport, EachReport

LEMMA StartReconcileReport ==
  ASSUME TypeInv, ReportInv, NEW o \in Operators, StartReconcile(o)
  PROVE  ReportInv'
  <1> USE DEF copies
  <1>1. UNCHANGED <<ironic, active, fresh>>
    BY DEF StartReconcile
  <1>2. \A p \in Operators \ {o} : /\ Untouched(p)
                                   /\ p \in active' \ lost' => p \in active \ lost
    BY DEF StartReconcile, Untouched, TypeInv, TypeOK
  <1>3. pc'[o] # "idle" /\ memFresh'[o] = fresh[o]
    BY DEF StartReconcile, FirstStep, TypeInv, TypeOK
  <1>4. TypeOK'
    BY StartReconcileType DEF TypeInv
  <1> QED
    BY <1>1, <1>2, <1>3, <1>4, UntouchedReport, EachReport

LEMMA OperatorReport ==
  ASSUME TypeInv, ReportInv, NEW o \in Operators, Start(o) \/ Stop(o) \/ SyncIronic(o)
  PROVE  ReportInv'
  <1>1. TypeOK'
    BY OperatorType DEF TypeInv
  <1>2. \A p \in Operators \ {o} : /\ Untouched(p)
                                   /\ p \in active' \ lost' => p \in active \ lost
    BY DEF Start, Stop, SyncIronic, Untouched, TypeInv, TypeOK
  <1>3. queued'[o] \/ (pc'[o] = "idle" /\ o \notin active')
    BY DEF Start, Stop, SyncIronic, TypeInv, TypeOK
  <1> QED
    BY <1>1, <1>2, <1>3, UntouchedReport, EachReport

LEMMA OutsideReport ==
  ASSUME TypeInv, ReportInv,
         RollOut \/ UserEdit \/ \E j \in JobKeys : FinishJob(j) \/ ExpireJob(j)
  PROVE  ReportInv'
  <1> USE DEF copies
  <1>1. TypeOK'
    BY JobType, OutsideType DEF TypeInv
  <1>2. \A p \in Operators : Untouched(p)
    BY DEF RollOut, UserEdit, FinishJob, ExpireJob, Wake, Untouched, TypeInv, TypeOK
  <1>3. active' = active /\ lost' = lost
    BY DEF RollOut, UserEdit, FinishJob, ExpireJob
  <1> QED
    BY <1>1, <1>2, <1>3, UntouchedReport, EachReport

LEMMA ReportStep == TypeInv /\ ForwardInv /\ ReportInv /\ [Next]_vars => ReportInv'
  <1> SUFFICES ASSUME TypeInv, ForwardInv, ReportInv, [Next]_vars PROVE ReportInv'
    OBVIOUS
  <1>1. CASE Next
    BY <1>1, StartReconcileReport, RefuseReport, RequestReport, EnsureReport, ReportReport,
       OperatorReport, OutsideReport DEF Next, Reconcile
  <1>2. CASE UNCHANGED vars
    BY <1>2 DEF vars, copies, worker, ReportInv, Awake, Told, Refuses, VersionChanged,
                IsDowngrade, VersionFor
  <1> QED
    BY <1>1, <1>2

\* An operator that refuses to take an Ironic back to its own version has said so
\* by the time it rests, or its one attempt to say so failed.
THEOREM OperatorsReportRefusals == Spec => []RefusalIsReported
  <1>1. TypeInv /\ ForwardInv /\ [Next]_vars => ForwardInv'
    BY ForwardStep DEF Advances
  <1>2. ReportInv => RefusalIsReported
    BY DEF ReportInv, Told, RefusalIsReported, Quiescent
  <1> QED
    BY <1>1, <1>2, InitType, TypeStep, ForwardInit, ReportInit, ReportStep, PTL DEF Spec

-----------------------------------------------------------------------------
(* Ready is agreed.                                                           *)

\* The workload an operator wants for the object, running.
Wanted(o, i) == [version |-> VersionFor(o, i), image |-> ImageFor(o, i), phase |-> "available"]

\* Only running operators work.
Acting(o) == pc[o] # "idle" => o \in active

\* What was found ready still is, or somebody has changed it and woken everyone.
Witnessed(o) ==
  outcome[o] = "ready" =>
    pc[o] \in {"post", "report"} /\ (queued[o] \/ workload = Wanted(o, mem[o]))

\* An operator that rests agrees with a status that says Ready.
Content(o) ==
  o \in active \ lost /\ pc[o] = "idle" /\ ~queued[o] /\ fresh[o] /\ ReadyNow =>
    ironic.status.installed = VersionFor(o, ironic) /\ workload = Wanted(o, ironic)

Agrees(o) == Acting(o) /\ Witnessed(o) /\ Content(o)

AgreedInv == \A o \in Operators : Agrees(o)

\* What a step leaves alone: the operator's worker, and the object and the
\* workload as long as it has heard of every change.
Spared(o) ==
  /\ UNCHANGED <<pc[o], mem[o], outcome[o]>>
  /\ queued[o] => queued'[o]
  /\ fresh'[o] => fresh[o] /\ ironic' = ironic
  /\ o \in active => o \in active'
  /\ o \in active' \ lost' => o \in active \ lost
  /\ workload' = workload \/ o \notin active \/ queued'[o]

LEMMA SparedAgrees ==
  ASSUME NEW o \in Operators, Agrees(o), Spared(o)
  PROVE  Agrees(o)'
  <1>1. Acting(o)'
    BY DEF Agrees, Acting, Spared
  <1>2. Witnessed(o)'
    BY DEF Agrees, Acting, Witnessed, Spared, Wanted, VersionFor, ImageFor
  <1>3. Content(o)'
    BY DEF Agrees, Content, Spared, Wanted, VersionFor, ImageFor, ReadyNow
  <1> QED
    BY <1>1, <1>2, <1>3 DEF Agrees

\* A reconcile that is over, or has not come to the workload yet.
LEMMA BusyAgrees ==
  ASSUME NEW o, o \in active', outcome'[o] # "ready", pc'[o] # "idle" \/ queued'[o]
  PROVE  Agrees(o)'
  BY DEF Agrees, Acting, Witnessed, Content

LEMMA RefuseAgrees ==
  ASSUME TypeInv, ForwardInv, ReportInv, AgreedInv, NEW o \in Operators, RefuseDowngrade(o)
  PROVE  AgreedInv'
  <1> DEFINE status == setCondition(mem[o], "Failed")
  <1>1. mem[o] \in Objects /\ status \in Statuses /\ o \in Operators
    BY ConditionType DEF RefuseDowngrade, TypeInv, Held, Reasons
  <1>2. EndReconcile(o, FALSE) /\ UNCHANGED <<active, workload>> /\ lost \subseteq lost'
    BY DEF RefuseDowngrade, cluster
  <1>3. Store(o, status, FALSE) \/ Keep(o)
    BY DEF RefuseDowngrade, Written, NotWritten
  <1>4. \A p \in Operators : fresh'[p] => fresh[p] /\ ironic' = ironic
    BY <1>1, <1>3, StatusUntouched
  <1>5. \A p \in Operators \ {o} : Spared(p)
    BY <1>2, <1>4 DEF EndReconcile, Spared, TypeInv, TypeOK
  <1>6. pc'[o] = "idle" /\ outcome'[o] = "none"
    BY <1>2 DEF EndReconcile, TypeInv, TypeOK
  <1>7. Content(o)'
    BY RefuseTells DEF Content, ReadyNow
  <1>8. Agrees(o)'
    BY <1>6, <1>7 DEF Agrees, Acting, Witnessed
  <1> QED
    BY <1>5, <1>8, SparedAgrees DEF AgreedInv

LEMMA ReportAgrees ==
  ASSUME TypeInv, ForwardInv, ReportInv, AgreedInv, NEW o \in Operators, UpdateIronicStatus(o)
  PROVE  AgreedInv'
  <1> DEFINE status == NewStatus(o, mem[o])
  <1>1. mem[o] \in Objects /\ status \in Statuses /\ pc[o] = "report"
    BY NewStatusType DEF UpdateIronicStatus, TypeInv, Held
  <1>2. UNCHANGED <<active, lost, workload>>
    BY DEF UpdateIronicStatus, cluster
  <1>3. PICK requeue \in BOOLEAN : EndReconcile(o, requeue)
    BY DEF UpdateIronicStatus
  <1>4. (memFresh[o] /\ Store(o, status, FALSE)) \/ Keep(o)
    BY DEF UpdateIronicStatus, Written, NotWritten
  <1>5. \A p \in Operators : fresh'[p] => fresh[p] /\ ironic' = ironic
    BY <1>1, <1>4, StatusUntouched
  <1>6. \A p \in Operators \ {o} : Spared(p)
    BY <1>2, <1>3, <1>5 DEF EndReconcile, Spared, TypeInv, TypeOK
  <1>7. pc'[o] = "idle" /\ outcome'[o] = "none" /\ (queued[o] => queued'[o])
    BY <1>3 DEF EndReconcile, TypeInv, TypeOK
  <1>8. ASSUME ~queued'[o], fresh'[o], ReadyNow'
        PROVE  ironic'.status.installed = VersionFor(o, ironic') /\ workload' = Wanted(o, ironic')
    <2>1. memFresh[o] /\ mem[o] = ironic /\ ironic' = ironic /\ ~queued[o]
      BY <1>1, <1>5, <1>7, <1>8 DEF ReportInv, Awake, ForwardInv, Current
    <2>2. status = ironic.status
      <3>1. CASE status = mem[o].status
        BY <2>1, <3>1
      <3>2. CASE Written(o, status, FALSE)
        BY <1>8, <3>2 DEF Written, Store
      <3>3. CASE EndReconcile(o, TRUE)
        BY <1>8, <3>3 DEF EndReconcile, TypeInv, TypeOK
      <3> QED
        BY <3>1, <3>2, <3>3 DEF UpdateIronicStatus
    <2>3. status.reason = "Available"
      BY <1>8, <2>1, <2>2 DEF ReadyNow
    <2>4. outcome[o] = "ready"
      <3>1. setCondition(mem[o], "InProgress").reason = "InProgress"
        BY <1>1 DEF setCondition, Objects, Statuses
      <3> QED
        BY <2>3, <3>1 DEF NewStatus
    <2>5. status.installed = VersionFor(o, mem[o])
      BY <1>1, <2>4 DEF NewStatus, setCondition, Objects, Statuses
    <2>6. workload = Wanted(o, mem[o])
      BY <2>1, <2>4 DEF AgreedInv, Agrees, Witnessed
    <2> QED
      BY <1>2, <2>1, <2>2, <2>5, <2>6
  <1>9. Agrees(o)'
    BY <1>7, <1>8 DEF Agrees, Acting, Witnessed, Content, Wanted, VersionFor, ImageFor
  <1> QED
    BY <1>6, <1>9, SparedAgrees DEF AgreedInv

LEMMA RequestAgrees ==
  ASSUME TypeInv, AgreedInv, NEW o \in Operators, RequestVersion(o)
  PROVE  AgreedInv'
  <1> DEFINE status == [setCondition(mem[o], "InProgress")
                          EXCEPT !.requested = VersionFor(o, mem[o])]
  <1>1. mem[o] \in Objects /\ status \in Statuses /\ pc[o] = "version"
    BY RequestedType DEF RequestVersion, TypeInv, Held
  <1>2. UNCHANGED <<active, lost, workload>>
    BY DEF RequestVersion, cluster
  <1>3. PICK hold \in BOOLEAN : Store(o, status, hold) \/ Keep(o)
    BY DEF RequestVersion, Written, NotWritten
  <1>4. \A p \in Operators : fresh'[p] => fresh[p] /\ ironic' = ironic
    BY <1>1, <1>3, StatusUntouched
  <1>5. \A p \in Operators \ {o} : UNCHANGED <<pc[p], mem[p], outcome[p], queued[p]>>
    BY DEF RequestVersion, EndReconcile, TypeInv, TypeOK
  <1>6. \A p \in Operators \ {o} : Spared(p)
    BY <1>2, <1>4, <1>5 DEF Spared
  <1>7. o \in active /\ outcome[o] # "ready"
    BY <1>1 DEF AgreedInv, Agrees, Acting, Witnessed
  <1>8. outcome'[o] # "ready" /\ (pc'[o] # "idle" \/ queued'[o])
    <2>1. CASE EndReconcile(o, TRUE)
      BY <2>1 DEF EndReconcile, TypeInv, TypeOK
    <2>2. CASE pc' = [pc EXCEPT ![o] = FirstStep(o, mem[o])] /\ outcome' = outcome
      BY <1>7, <2>2 DEF FirstStep, TypeInv, TypeOK
    <2> QED
      BY <2>1, <2>2 DEF RequestVersion
  <1> QED
    BY <1>2, <1>6, <1>7, <1>8, SparedAgrees, BusyAgrees DEF AgreedInv

\* The workload is found ready in this step only.
LEMMA EnsureAgrees ==
  ASSUME TypeInv, AgreedInv, NEW o \in Operators,
         EnsurePreUpgrade(o) \/ EnsureWorkload(o) \/ EnsurePostUpgrade(o)
  PROVE  AgreedInv'
  <1> USE DEF copies
  <1>1. UNCHANGED <<ironic, active, lost, fresh>> /\ pc[o] # "idle"
    BY DEF EnsurePreUpgrade, EnsurePostUpgrade, EnsureUpgradeJob, EnsureWorkload
  <1>2. o \in active
    BY <1>1 DEF AgreedInv, Agrees, Acting
  <1>3. \A p \in Operators : queued[p] => queued'[p]
    BY DEF EnsurePreUpgrade, EnsurePostUpgrade, EnsureUpgradeJob, EnsureWorkload,
           Goto, EndReconcile, Wake, TypeInv, TypeOK
  <1>4. \A p \in Operators \ {o} : UNCHANGED <<pc[p], mem[p], outcome[p]>>
    BY DEF EnsurePreUpgrade, EnsurePostUpgrade, EnsureUpgradeJob, EnsureWorkload,
           Goto, EndReconcile, TypeInv, TypeOK
  <1>5. workload' = workload \/ Wake
    BY DEF EnsurePreUpgrade, EnsurePostUpgrade, EnsureUpgradeJob, EnsureWorkload
  <1>6. \A p \in Operators \ {o} : Spared(p)
    BY <1>1, <1>3, <1>4, <1>5 DEF Spared, Wake
  <1>7. CASE EnsurePreUpgrade(o)
    <2>1. outcome'[o] # "ready" /\ (pc'[o] # "idle" \/ queued'[o])
      BY <1>7 DEF EnsurePreUpgrade, EnsureUpgradeJob, Goto, EndReconcile, TypeInv, TypeOK
    <2> QED
      BY <1>1, <1>2, <1>6, <2>1, SparedAgrees, BusyAgrees DEF AgreedInv
  <1>8. CASE EnsurePostUpgrade(o)
    <2>1. CASE pc'[o] = "idle"
      BY <1>1, <1>2, <1>6, <1>8, <2>1, SparedAgrees, BusyAgrees
      DEF AgreedInv, EnsurePostUpgrade, EnsureUpgradeJob, Goto, EndReconcile, TypeInv, TypeOK
    <2>2. CASE pc'[o] # "idle"
      <3>1. pc'[o] = "report" /\ mem' = mem /\ workload' = workload
            /\ outcome'[o] \in {"updated", "inProgress", outcome[o]}
        BY <1>8, <2>2
        DEF EnsurePostUpgrade, EnsureUpgradeJob, Goto, EndReconcile, TypeInv, TypeOK
      <3>2. Witnessed(o)'
        BY <1>3, <3>1 DEF AgreedInv, Agrees, Witnessed, Wanted, VersionFor, ImageFor
      <3>3. Agrees(o)'
        BY <1>1, <1>2, <2>2, <3>2 DEF Agrees, Acting, Content
      <3> QED
        BY <1>6, <3>3, SparedAgrees DEF AgreedInv
    <2> QED
      BY <2>1, <2>2
  <1>9. CASE EnsureWorkload(o)
    <2>1. pc'[o] \in {"post", "report"} /\ mem' = mem
      BY <1>9 DEF EnsureWorkload, Goto, TypeInv, TypeOK
    <2>2. outcome'[o] = "ready" => workload' = Wanted(o, mem[o])
      BY <1>9 DEF EnsureWorkload, Goto, Wanted, TypeInv, TypeOK
    <2>3. Witnessed(o)'
      BY <2>1, <2>2 DEF Witnessed, Wanted, VersionFor, ImageFor
    <2>4. Agrees(o)'
      BY <1>1, <1>2, <2>1, <2>3 DEF Agrees, Acting, Content
    <2> QED
      BY <1>6, <2>4, SparedAgrees DEF AgreedInv
  <1> QED
    BY <1>7, <1>8, <1>9

LEMMA StartReconcileAgrees ==
  ASSUME TypeInv, AgreedInv, NEW o \in Operators, StartReconcile(o)
  PROVE  AgreedInv'
  <1> USE DEF copies, cluster
  <1>1. \A p \in Operators \ {o} : Spared(p)
    BY DEF StartReconcile, Spared, TypeInv, TypeOK
  <1>2. o \in active' /\ pc'[o] # "idle" /\ outcome'[o] = outcome[o] /\ pc[o] = "idle"
    BY DEF StartReconcile, FirstStep, TypeInv, TypeOK
  <1>3. outcome[o] # "ready"
    BY <1>2 DEF AgreedInv, Agrees, Witnessed
  <1> QED
    BY <1>1, <1>2, <1>3, SparedAgrees, BusyAgrees DEF AgreedInv

LEMMA OperatorAgrees ==
  ASSUME TypeInv, AgreedInv, NEW o \in Operators, Start(o) \/ Stop(o) \/ SyncIronic(o)
  PROVE  AgreedInv'
  <1> USE DEF cluster
  <1>1. \A p \in Operators \ {o} : Spared(p)
    BY DEF Start, Stop, SyncIronic, Spared, TypeInv, TypeOK
  <1>2. CASE Stop(o)
    <2>1. pc'[o] = "idle" /\ outcome'[o] = "none" /\ o \notin active'
      BY <1>2 DEF Stop, TypeInv, TypeOK
    <2> QED
      BY <1>1, <2>1, SparedAgrees DEF AgreedInv, Agrees, Acting, Witnessed, Content
  <1>3. CASE Start(o) \/ SyncIronic(o)
    <2>1. /\ queued'[o] /\ o \in active' /\ UNCHANGED <<pc, outcome, mem, workload>>
      BY <1>3 DEF Start, SyncIronic, TypeInv, TypeOK
    <2>2. Agrees(o)'
      BY <2>1 DEF AgreedInv, Agrees, Acting, Witnessed, Content
    <2> QED
      BY <1>1, <2>2, SparedAgrees DEF AgreedInv
  <1> QED
    BY <1>2, <1>3

LEMMA OutsideAgrees ==
  ASSUME TypeInv, AgreedInv,
         RollOut \/ UserEdit \/ \E j \in JobKeys : FinishJob(j) \/ ExpireJob(j)
  PROVE  AgreedInv'
  <1> USE DEF copies, cluster
  <1>1. \A p \in Operators : Spared(p)
    BY DEF RollOut, UserEdit, FinishJob, ExpireJob, Wake, Spared, TypeInv, TypeOK
  <1> QED
    BY <1>1, SparedAgrees DEF AgreedInv

LEMMA AgreedStep == TypeInv /\ ForwardInv /\ ReportInv /\ AgreedInv /\ [Next]_vars => AgreedInv'
  <1> SUFFICES ASSUME TypeInv, ForwardInv, ReportInv, AgreedInv, [Next]_vars PROVE AgreedInv'
    OBVIOUS
  <1>1. CASE Next
    BY <1>1, StartReconcileAgrees, RefuseAgrees, RequestAgrees, EnsureAgrees, ReportAgrees,
       OperatorAgrees, OutsideAgrees DEF Next, Reconcile
  <1>2. CASE UNCHANGED vars
    BY <1>2, SparedAgrees DEF vars, cluster, copies, worker, AgreedInv, Spared
  <1> QED
    BY <1>1, <1>2

\* Ready stays only if every operator that runs, and was not kept from saying
\* otherwise, finds its own version and image installed and running, however many
\* operators there are and whatever versions they were started with.
THEOREM OperatorsAgreeOnReady == Spec => []ReadyIsAgreed
  <1>1. TypeInv /\ ForwardInv /\ [Next]_vars => ForwardInv'
    BY ForwardStep DEF Advances
  <1>2. Init => AgreedInv
    BY DEF Init, AgreedInv, Agrees, Acting, Witnessed, Content
  <1>3. TypeInv /\ AgreedInv => ReadyIsAgreed
    BY DEF TypeInv, TypeOK, AgreedInv, Agrees, Content, Wanted, ReadyIsAgreed, Quiescent
  <1> QED
    BY <1>1, <1>2, <1>3, InitType, TypeStep, ForwardInit, ReportInit, ReportStep, AgreedStep,
       PTL DEF Spec

=============================================================================
