------------------------------ MODULE Operators ------------------------------
(***************************************************************************)
(* Several instances of the operator and one Ironic with an external       *)
(* database (cmd/main.go, pkg/ironic/version.go, handleIronic).            *)
(*                                                                         *)
(* An Ironic that leaves spec.version empty gets the version the operator  *)
(* was started with, so replacing the operator is an upgrade or a          *)
(* downgrade of every such Ironic that nobody asked for in its spec.       *)
(* Leader election is a flag, off unless given: without it the outgoing    *)
(* and the incoming operator work on the same object for a while.          *)
(*                                                                         *)
(* Abstractions.  Module IronicReconcile has the reconciler in full; here  *)
(* the topology is fixed, linked resources are present, extraRanges is not *)
(* used, jobs succeed, and the workload and the jobs are read from the     *)
(* server rather than from a cache.  The Ironic object keeps its informer  *)
(* copy in every operator and its optimistic locking.  The election is     *)
(* modelled by what it promises: no operator is started as leader while    *)
(* another one acts.                                                       *)
(***************************************************************************)
EXTENDS Integers

CONSTANTS
  Operators,       \* the instances of the operator that exist over time
  OperatorVersion, \* --ironic-version of each, or its built-in default
  OperatorImage,   \* --ironic-image of each, None if not given
  Choices,         \* the versions users write into the spec
  Default,         \* spec.version is empty
  Elections,       \* the values of --leader-elect
  None,            \* nothing installed, no image given, no copy held
  MaxEvents        \* bound on starts, edits and failures together

\* A version is <<major, minor>>; the zero value is "latest".
Latest == <<0, 0>>
Numbers == Nat \X Nat

ASSUME OperatorsAssumption == OperatorVersion \in [Operators -> Numbers]
ASSUME ChoicesAssumption == Choices \ {Default} \subseteq Numbers
ASSUME ElectionsAssumption == Elections \subseteq BOOLEAN
ASSUME BoundsAssumption == MaxEvents \in Nat

Versions == (Choices \ {Default}) \cup {OperatorVersion[o] : o \in Operators}
Images == {<<"release", v>> : v \in Versions} \cup {OperatorImage[o] : o \in Operators}

ASSUME NoneAssumption == None \notin Versions /\ Default \notin Versions

Generations == 1 .. MaxEvents + 1
Phases == {"pre", "post"}
Steps == {"idle", "version", "pre", "workload", "post", "report"}
Reasons == {"None", "InProgress", "Failed", "Available"}
Statuses == [requested : Versions \cup {None},
             installed : Versions \cup {None},
             reason    : Reasons,
             obsGen    : {0} \cup Generations]
Objects == [version : Choices, gen : Generations, status : Statuses]
JobKeys == [phase : Phases, from : Versions \cup {None}, to : Versions]
NoJob == [state |-> "absent", image |-> None]
NoStatus == [requested |-> None, installed |-> None, reason |-> "None", obsGen |-> 0]
NoWorkload == [version |-> None, image |-> None, phase |-> "absent"]

VARIABLES
  ironic,     \* the Ironic object on the API server
  workload,   \* its Deployment or DaemonSet
  jobs,       \* the upgrade jobs, by name
  schema,     \* versions whose database-upgrade ran
  elect,      \* --leader-elect
  active,     \* the operators whose controllers run
  cache,      \* each one's informer copy of the Ironic object
  fresh,      \* ... which is the current object
  queued,     \* each one's work queue holds the object
  pc,         \* the step each one's reconcile is at
  mem,        \* the copy that reconcile works on
  memFresh,   \* ... which carries the current resource version
  outcome,    \* the ironic.Status it has computed so far
  lost,       \* operators whose last refusal could not be written
  events      \* starts, edits and failures so far

cluster == <<workload, jobs, schema>>
copies == <<cache, fresh>>
worker == <<queued, pc, mem, memFresh, outcome>>
vars == <<ironic, cluster, elect, active, copies, worker, lost, events>>

TypeOK ==
  /\ ironic \in Objects
  /\ workload \in [version : Versions \cup {None},
                   image   : Images \cup {None},
                   phase   : {"absent", "progressing", "available"}]
  /\ jobs \in [JobKeys -> [state : {"absent", "running", "complete"},
                           image : Images \cup {None}]]
  /\ schema \subseteq Versions
  /\ elect \in BOOLEAN
  /\ active \subseteq Operators
  /\ cache \in [Operators -> Objects \cup {None}]
  /\ fresh \in [Operators -> BOOLEAN]
  /\ queued \in [Operators -> BOOLEAN]
  /\ pc \in [Operators -> Steps]
  /\ mem \in [Operators -> Objects \cup {None}]
  /\ memFresh \in [Operators -> BOOLEAN]
  /\ outcome \in [Operators -> {"none", "ready", "updated", "inProgress"}]
  /\ lost \subseteq Operators
  /\ events \in 0 .. MaxEvents

Event == events < MaxEvents /\ events' = events + 1

-----------------------------------------------------------------------------
(* Faulty variants of definitions below, one plausible slip each.  Nothing    *)
(* uses them; substituted for the definition named after the slip, each one   *)
(* breaks a property of this module.                                          *)

\* upgradeJobRequired that trusts the recorded version.
upgradeJobRequiredOnce(o, i) ==
  (IF i.version = Default THEN OperatorVersion[o] ELSE i.version)
    \notin {i.status.installed, i.status.requested}

\* Written without the resource version check.
WrittenUnlocked(o, status, hold) ==
  /\ ironic' = [ironic EXCEPT !.status = status]
  /\ fresh' = [p \in Operators |-> fresh[p] /\ status = ironic.status]
  /\ memFresh' = [p \in Operators |->
                    IF p = o THEN hold ELSE memFresh[p] /\ status = ironic.status]
  /\ UNCHANGED events

\* EndReconcile that drops the requeue.
EndReconcileForgetful(o, requeue) ==
  /\ pc' = [pc EXCEPT ![o] = "idle"]
  /\ mem' = [mem EXCEPT ![o] = None]
  /\ outcome' = [outcome EXCEPT ![o] = "none"]
  /\ UNCHANGED queued

\* SyncIronic that only looks at changes of the generation.
SyncIronicGeneration(o) ==
  /\ o \in active
  /\ ~fresh[o]
  /\ cache' = [cache EXCEPT ![o] = ironic]
  /\ fresh' = [fresh EXCEPT ![o] = TRUE]
  /\ queued' = [queued EXCEPT ![o] = @ \/ ironic.gen # cache[o].gen]
  /\ UNCHANGED <<ironic, cluster, elect, active, pc, mem, memFresh, outcome,
                 lost, events>>

-----------------------------------------------------------------------------
(* Versions. *)

\* Version.Compare(v, w) < 0: "latest" is below nothing.  Its own numbers are
\* zero, so it also seems older than any release; the caller must exclude it.
Less(v, w) ==
  /\ v[1] # 0
  /\ v[1] < w[1] \/ (v[1] = w[1] /\ v[2] < w[2])

\* NewVersionInfo and WithIronicOverrides: the spec wins over the operator.
VersionFor(o, i) == IF i.version = Default THEN OperatorVersion[o] ELSE i.version

\* An explicit version also replaces the operator's --ironic-image.
ImageFor(o, i) ==
  IF i.version = Default /\ OperatorImage[o] # None
    THEN OperatorImage[o]
    ELSE <<"release", VersionFor(o, i)>>

VersionChanged(o, i) ==
  VersionFor(o, i) \notin {i.status.installed, i.status.requested}

\* The guard of handleIronic against downgrades of an external database.
IsDowngrade(o, i) ==
  /\ i.status.installed \notin {None, Latest}
  /\ Less(VersionFor(o, i), i.status.installed)

Refuses(o, i) == VersionChanged(o, i) /\ IsDowngrade(o, i)

upgradeJobRequired(o, i) == VersionFor(o, i) # i.status.installed

JobName(o, i, phase) ==
  [phase |-> phase, from |-> i.status.installed, to |-> VersionFor(o, i)]

setCondition(i, reason) == [i.status EXCEPT !.reason = reason, !.obsGen = i.gen]

\* updateIronicStatus: the version that was ensured becomes the installed one.
NewStatus(o, i) ==
  IF outcome[o] = "ready"
    THEN [setCondition(i, "Available") EXCEPT !.installed = VersionFor(o, i)]
    ELSE setCondition(i, "InProgress")

\* What a finished installation looks like.
DeployedBy(o, v) ==
  LET i == [version |-> v, gen |-> 1, status |-> NoStatus]
  IN  /\ ironic = [i EXCEPT !.status = [requested |-> VersionFor(o, i),
                                       installed |-> VersionFor(o, i),
                                       reason    |-> "Available",
                                       obsGen    |-> 1]]
      /\ workload = [version |-> VersionFor(o, i),
                     image   |-> ImageFor(o, i),
                     phase   |-> "available"]
      /\ schema = {VersionFor(o, i)}

\* A user has just created the object; or an operator has deployed it long ago.
\* One operator runs, not necessarily that one.
Init ==
  /\ \/ /\ \E v \in Choices : ironic = [version |-> v, gen |-> 1, status |-> NoStatus]
        /\ workload = NoWorkload
        /\ schema = {}
     \/ \E v \in Choices, o \in Operators : DeployedBy(o, v)
  /\ jobs = [j \in JobKeys |-> NoJob]
  /\ elect \in Elections
  /\ \E o \in Operators : active = {o}
  /\ cache = [o \in Operators |-> IF o \in active THEN ironic ELSE None]
  /\ fresh = [o \in Operators |-> o \in active]
  /\ queued = [o \in Operators |-> o \in active]
  /\ pc = [o \in Operators |-> "idle"]
  /\ mem = [o \in Operators |-> None]
  /\ memFresh = [o \in Operators |-> FALSE]
  /\ outcome = [o \in Operators |-> "none"]
  /\ lost = {}
  /\ events = 0

-----------------------------------------------------------------------------
(* Steps of a reconcile. *)

\* A change of the object on the server outdates every copy but the writer's.
Store(o, status, hold) ==
  /\ ironic' = [ironic EXCEPT !.status = status]
  /\ fresh' = [p \in Operators |-> fresh[p] /\ status = ironic.status]
  /\ memFresh' = [p \in Operators |->
                    IF p = o THEN hold ELSE memFresh[p] /\ status = ironic.status]

Keep(o) ==
  /\ memFresh' = [memFresh EXCEPT ![o] = FALSE]
  /\ UNCHANGED <<ironic, fresh>>

\* Status().Update: refused unless the held copy is current; able to fail
\* before or after the server applied it.
Written(o, status, hold) == memFresh[o] /\ Store(o, status, hold) /\ UNCHANGED events
NotWritten(o, status) ==
  \/ ~memFresh[o] /\ Keep(o) /\ UNCHANGED events
  \/ memFresh[o] /\ Event /\ (Keep(o) \/ Store(o, status, FALSE))

\* Reconcile returns; an error or a true "changed" puts the object back.
EndReconcile(o, requeue) ==
  /\ pc' = [pc EXCEPT ![o] = "idle"]
  /\ mem' = [mem EXCEPT ![o] = None]
  /\ outcome' = [outcome EXCEPT ![o] = "none"]
  /\ queued' = [queued EXCEPT ![o] = @ \/ requeue]

Goto(o, step, result) ==
  /\ pc' = [pc EXCEPT ![o] = step]
  /\ outcome' = [outcome EXCEPT ![o] = result]
  /\ UNCHANGED <<mem, memFresh>>

\* SetupWithManager: every operator is told of a change to a job or workload.
Wake == queued' = [o \in Operators |-> queued[o] \/ o \in active]

FirstStep(o, i) == IF upgradeJobRequired(o, i) THEN "pre" ELSE "workload"

\* getIronic reads the cached copy; an instance works out its own version.
StartReconcile(o) ==
  /\ o \in active
  /\ pc[o] = "idle"
  /\ queued[o]
  /\ queued' = [queued EXCEPT ![o] = FALSE]
  /\ mem' = [mem EXCEPT ![o] = cache[o]]
  /\ memFresh' = [memFresh EXCEPT ![o] = fresh[o]]
  /\ pc' = [pc EXCEPT ![o] = IF VersionChanged(o, cache[o])
                               THEN "version" ELSE FirstStep(o, cache[o])]
  /\ lost' = lost \ {o}
  /\ UNCHANGED <<ironic, cluster, elect, active, copies, outcome, events>>

\* The refusal is written once; nobody looks at whether that worked, and the
\* object is not put back into the queue.
RefuseDowngrade(o) ==
  /\ pc[o] = "version"
  /\ IsDowngrade(o, mem[o])
  /\ LET status == setCondition(mem[o], "Failed")
     IN  /\ Written(o, status, FALSE) \/ NotWritten(o, status)
         /\ lost' = IF memFresh[o] /\ ironic'.status # status
                      THEN lost \cup {o} ELSE lost
  /\ EndReconcile(o, FALSE)
  /\ UNCHANGED <<cluster, elect, active, cache>>

RequestVersion(o) ==
  /\ pc[o] = "version"
  /\ ~IsDowngrade(o, mem[o])
  /\ LET status == [setCondition(mem[o], "InProgress")
                      EXCEPT !.requested = VersionFor(o, mem[o])]
     IN  \/ /\ Written(o, status, TRUE)
            /\ mem' = [mem EXCEPT ![o].status = status]
            /\ pc' = [pc EXCEPT ![o] = FirstStep(o, mem[o])]
            /\ UNCHANGED <<queued, outcome>>
         \/ /\ NotWritten(o, status)
            /\ EndReconcile(o, TRUE)
  /\ UNCHANGED <<cluster, elect, active, cache, lost>>

\* ensureIronicUpgradeJob: the pod template of a job is immutable, so a job
\* another image was used for can be neither updated nor looked at.
EnsureUpgradeJob(o, phase, next, result) ==
  /\ pc[o] = phase
  /\ LET name == JobName(o, mem[o], phase)
         job  == jobs[name]
         image == ImageFor(o, mem[o])
     IN  \/ /\ job.state = "absent"
            /\ jobs' = [jobs EXCEPT ![name] = [state |-> "running", image |-> image]]
            /\ Goto(o, "report", "updated")
            /\ Wake
         \/ /\ job.state # "absent"
            /\ job.image # image
            /\ EndReconcile(o, TRUE)
            /\ memFresh' = [memFresh EXCEPT ![o] = FALSE]
            /\ jobs' = jobs
         \/ /\ job.image = image
            /\ UNCHANGED <<jobs, queued>>
            /\ \/ job.state = "running"  /\ Goto(o, "report", "inProgress")
               \/ job.state = "complete" /\ Goto(o, next, result)
  /\ UNCHANGED <<ironic, workload, schema, elect, active, copies, lost, events>>

EnsurePreUpgrade(o) == EnsureUpgradeJob(o, "pre", "workload", "none")
EnsurePostUpgrade(o) == EnsureUpgradeJob(o, "post", "report", outcome[o])

\* The workload is brought to this operator's version and image, or looked at.
\* The Service is ensured with it; the upgrade then goes on although the pods
\* may still be rolling out.
EnsureWorkload(o) ==
  /\ pc[o] = "workload"
  /\ LET v == VersionFor(o, mem[o])
         image == ImageFor(o, mem[o])
         next == IF upgradeJobRequired(o, mem[o]) THEN "post" ELSE "report"
     IN  IF workload.version = v /\ workload.image = image
           THEN /\ UNCHANGED <<workload, queued>>
                /\ Goto(o, next, IF workload.phase = "available" THEN "ready"
                                                                 ELSE "inProgress")
           ELSE /\ workload' = [version |-> v, image |-> image, phase |-> "progressing"]
                /\ Goto(o, next, "updated")
                /\ Wake
  /\ UNCHANGED <<ironic, jobs, schema, elect, active, copies, lost, events>>

UpdateIronicStatus(o) ==
  /\ pc[o] = "report"
  /\ LET status == NewStatus(o, mem[o])
         changed == outcome[o] = "updated"
     IN  \/ /\ status = mem[o].status
            /\ Keep(o)
            /\ UNCHANGED events
            /\ EndReconcile(o, changed)
         \/ /\ status # mem[o].status
            /\ \/ Written(o, status, FALSE) /\ EndReconcile(o, changed)
               \/ NotWritten(o, status) /\ EndReconcile(o, TRUE)
  /\ UNCHANGED <<cluster, elect, active, cache, lost>>

Reconcile(o) ==
  \/ StartReconcile(o)
  \/ RefuseDowngrade(o)
  \/ RequestVersion(o)
  \/ EnsurePreUpgrade(o)
  \/ EnsureWorkload(o)
  \/ EnsurePostUpgrade(o)
  \/ UpdateIronicStatus(o)

-----------------------------------------------------------------------------
(* The operator's Deployment, the informers, Kubernetes and the user. *)

\* main: caches are filled and every Ironic is queued.  With leader election
\* the controllers of a second instance wait.
Start(o) ==
  /\ o \notin active
  /\ elect => active = {}
  /\ Event
  /\ active' = active \cup {o}
  /\ cache' = [cache EXCEPT ![o] = ironic]
  /\ fresh' = [fresh EXCEPT ![o] = TRUE]
  /\ queued' = [queued EXCEPT ![o] = TRUE]
  /\ UNCHANGED <<ironic, cluster, elect, pc, mem, memFresh, outcome, lost>>

\* The process ends, whatever it was doing.
Stop(o) ==
  /\ o \in active
  /\ active' = active \ {o}
  /\ cache' = [cache EXCEPT ![o] = None]
  /\ fresh' = [fresh EXCEPT ![o] = FALSE]
  /\ queued' = [queued EXCEPT ![o] = FALSE]
  /\ pc' = [pc EXCEPT ![o] = "idle"]
  /\ mem' = [mem EXCEPT ![o] = None]
  /\ memFresh' = [memFresh EXCEPT ![o] = FALSE]
  /\ outcome' = [outcome EXCEPT ![o] = "none"]
  /\ lost' = lost \ {o}
  /\ UNCHANGED <<ironic, cluster, elect, events>>

SyncIronic(o) ==
  /\ o \in active
  /\ ~fresh[o]
  /\ cache' = [cache EXCEPT ![o] = ironic]
  /\ fresh' = [fresh EXCEPT ![o] = TRUE]
  /\ queued' = [queued EXCEPT ![o] = TRUE]
  /\ UNCHANGED <<ironic, cluster, elect, active, pc, mem, memFresh, outcome,
                 lost, events>>

RollOut ==
  /\ workload.phase = "progressing"
  /\ workload' = [workload EXCEPT !.phase = "available"]
  /\ Wake
  /\ UNCHANGED <<ironic, jobs, schema, elect, active, copies, pc, mem, memFresh,
                 outcome, lost, events>>

FinishJob(j) ==
  /\ jobs[j].state = "running"
  /\ jobs' = [jobs EXCEPT ![j].state = "complete"]
  /\ schema' = IF j.phase = "pre" THEN schema \cup {j.to} ELSE schema
  /\ Wake
  /\ UNCHANGED <<ironic, workload, elect, active, copies, pc, mem, memFresh,
                 outcome, lost, events>>

\* An operator waits for a job that another image was used for.
Blocks(j) ==
  \E o \in active, phase \in Phases :
    JobName(o, ironic, phase) = j /\ ImageFor(o, ironic) # jobs[j].image

\* A finished job is removed after a day.  Only an operator that waits for just
\* that is sure to see the day pass; for any other it counts as an event.
ExpireJob(j) ==
  /\ jobs[j].state = "complete"
  /\ jobs' = [jobs EXCEPT ![j] = NoJob]
  /\ IF Blocks(j) THEN UNCHANGED events ELSE Event
  /\ Wake
  /\ UNCHANGED <<ironic, workload, schema, elect, active, copies, pc, mem,
                 memFresh, outcome, lost>>

UserEdit ==
  /\ Event
  /\ \E v \in Choices \ {ironic.version} :
       ironic' = [ironic EXCEPT !.version = v, !.gen = @ + 1]
  /\ fresh' = [o \in Operators |-> FALSE]
  /\ memFresh' = [o \in Operators |-> FALSE]
  /\ UNCHANGED <<cluster, elect, active, cache, queued, pc, mem, outcome, lost>>

Next ==
  \/ \E o \in Operators : Reconcile(o) \/ Start(o) \/ Stop(o) \/ SyncIronic(o)
  \/ \E j \in JobKeys : FinishJob(j) \/ ExpireJob(j)
  \/ RollOut
  \/ UserEdit

Spec == Init /\ [][Next]_vars

\* The queues of the running operators are served and what they started goes
\* on, watches deliver, Kubernetes runs what it is given and a job that blocks is
\* removed in time.  Nothing obliges anybody to start or stop an operator or to
\* edit.
Works(o) ==
  /\ o \in active
  /\ pc[o] # "idle" \/ queued[o]
  /\ \E step \in Steps \ {pc[o]} : pc' = [pc EXCEPT ![o] = step]
Learns(o) == o \in active /\ ~fresh[o] /\ fresh' = [fresh EXCEPT ![o] = TRUE]
Finishes ==
  \E j \in JobKeys : /\ jobs[j].state = "running"
                     /\ jobs' = [jobs EXCEPT ![j].state = "complete"]
Expires ==
  \E j \in JobKeys : /\ jobs[j].state = "complete"
                     /\ Blocks(j)
                     /\ jobs' = [jobs EXCEPT ![j] = NoJob]
RollsOut ==
  /\ workload.phase = "progressing"
  /\ workload' = [workload EXCEPT !.phase = "available"]

Fairness ==
  /\ \A o \in Operators : WF_pc(Works(o)) /\ WF_fresh(Learns(o))
  /\ WF_jobs(Finishes) /\ WF_jobs(Expires)
  /\ WF_workload(RollsOut)

FairSpec == Spec /\ Fairness

-----------------------------------------------------------------------------
(* Properties. *)

\* ensureIronicUpgradeJob(pre) before the workload: whichever operator wrote it,
\* and whichever copy of the status it looked at, the version that is deployed
\* has upgraded the schema.
RunsOnItsSchema == workload.version # None => workload.version \in schema

\* The downgrade guard of handleIronic and the optimistic lock on the status:
\* operators with different versions, even at the same time, never take the
\* installed version back to an older release.
NeverGoesBack ==
  [][LET old == ironic.status.installed
         new == ironic'.status.installed
     IN  new # old => new # None /\ (old \in {None, Latest} \/ ~Less(new, old))]_vars

\* The queues are empty, nobody is at work and every copy is up to date.
Quiescent ==
  /\ active # {}
  /\ \A o \in active : pc[o] = "idle" /\ ~queued[o] /\ fresh[o]

ReadyNow == ironic.status.reason = "Available" /\ ironic.status.obsGen = ironic.gen

\* setNotReady in handleIronic: an operator that was started with an older
\* version says that it does not downgrade, unless that one write was lost.
RefusalIsReported ==
  Quiescent =>
    \A o \in active \ lost :
      Refuses(o, ironic) => /\ ironic.status.reason = "Failed"
                            /\ ironic.status.obsGen = ironic.gen

\* updateIronicStatus: Ready stays only if every running operator finds its own
\* version and image installed and running.
ReadyIsAgreed ==
  Quiescent /\ ReadyNow =>
    \A o \in active \ lost :
      /\ ironic.status.installed = VersionFor(o, ironic)
      /\ workload = [version |-> VersionFor(o, ironic),
                     image   |-> ImageFor(o, ironic),
                     phase   |-> "available"]

Agree ==
  \A o, p \in active : /\ VersionFor(o, ironic) = VersionFor(p, ironic)
                       /\ ImageFor(o, ironic) = ImageFor(p, ironic)

Deployed(o) ==
  /\ ReadyNow
  /\ ironic.status.installed = VersionFor(o, ironic)
  /\ workload.version = VersionFor(o, ironic)
  /\ workload.image = ImageFor(o, ironic)
  /\ workload.phase = "available"

\* Reconcile moves the cluster to the desired state: once the operators that
\* run want the same, they get there, or refuse it, whatever operators with
\* other versions left half done, and however many there are.
Settles ==
  <>[](active # {} /\ Agree) => <>[](\A o \in active : Deployed(o) \/ Refuses(o, ironic))
=============================================================================
