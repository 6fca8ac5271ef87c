--------------------------- MODULE IronicReconcile ---------------------------
(***************************************************************************)
(* The reconciler of one Ironic object (internal/controller and            *)
(* pkg/ironic), from the moment the object has its finalizer and API       *)
(* credentials: the version bookkeeping, the database upgrade jobs, the    *)
(* Deployment or DaemonSet, the Service and the Ready condition.           *)
(*                                                                         *)
(* A reconcile is a sequence of calls to the API server; every call is a   *)
(* step of its own, so the user, the job and workload controllers, the     *)
(* informers and a crash of the operator interleave with it.  The          *)
(* reconciler reads objects from informer caches that lag behind the       *)
(* server, and writes the Ironic object under optimistic locking.          *)
(*                                                                         *)
(* Abstractions.  A version is the major number of a release (every        *)
(* supported release is X.0), Latest stands for "latest".  A workload      *)
(* template is identified by the version and the database it is for.  The  *)
(* linked secrets and config maps are one environment variable.  Resource  *)
(* versions are the Boolean "is this copy the current one".  A cache moves *)
(* to the current object in one step.                                      *)
(***************************************************************************)
EXTENDS Integers, Releases

CONSTANTS
  Versions,       \* the supported versions a user may ask for
  MultiRange,     \* versionMultiRangeDHCP: the first release with DHCP extraRanges
  Databases,      \* external databases a user may attach
  NoDatabase,     \* spec.database is nil
  None,           \* an unset version, an absent reconcile copy
  Topologies,     \* the values of spec.highAvailability users choose from
  ExtraRanges,    \* whether spec.networking.dhcp.extraRanges may be set
  DatabaseEdits,  \* may users attach or detach the database of a live Ironic
  Hasty,          \* may users edit before the last version is installed or refused
  MaxGeneration,  \* bound on the generations of the Ironic object
  MaxFaults       \* bound on failures, crashes and early expirations

ASSUME VersionsAssumption == Versions \subseteq Nat /\ MultiRange \in Nat
ASSUME DatabasesAssumption == NoDatabase \notin Databases
ASSUME EditsAssumption ==
  /\ Topologies \subseteq BOOLEAN
  /\ ExtraRanges \subseteq BOOLEAN
  /\ DatabaseEdits \in BOOLEAN
  /\ Hasty \in BOOLEAN
ASSUME BoundsAssumption == MaxGeneration \in Nat \ {0} /\ MaxFaults \in Nat

Kinds == {"Deployment", "DaemonSet"}
Phases == {"pre", "post"}
Reasons == {"None", "InProgress", "Failed", "Available"}
Outcomes == {"none", "ready", "updated", "inProgress", "failed"}
Steps == {"idle", "version", "linked", "pre", "remove", "workload",
          "service", "post", "report"}

\* What the validating webhook lets a user create: high availability needs a
\* database and excludes networking.dhcp, where extraRanges are.
Specs == {s \in [version : Versions,
                 ha      : Topologies,
                 db      : Databases \cup {NoDatabase},
                 extra   : ExtraRanges] : s.ha => s.db # NoDatabase /\ ~s.extra}

Statuses == [requested : Versions \cup {None},
             installed : Versions \cup {None},
             reason    : Reasons,
             obsGen    : 0 .. MaxGeneration]

Objects == [spec : Specs, gen : 1 .. MaxGeneration, status : Statuses]

ASSUME NoneAssumption == None \notin Versions \cup Objects

Workloads == [version : Versions \cup {None},
              db      : Databases \cup {NoDatabase},
              phase   : {"absent", "progressing", "available", "stalled", "failing"}]

JobKeys == [phase : Phases, from : Versions \cup {None}, to : Versions]
Jobs == [state : {"absent", "running", "complete", "failed"},
         db    : Databases \cup {NoDatabase}]

Absent == [version |-> None, db |-> NoDatabase, phase |-> "absent"]
NoJob == [state |-> "absent", db |-> NoDatabase]
NoStatus == [requested |-> None, installed |-> None, reason |-> "None", obsGen |-> 0]

VARIABLES
  ironic,      \* the Ironic object on the API server
  cache,       \* the informer's copy of it
  cacheFresh,  \* cache is the current object
  queued,      \* the work queue holds the object
  pc,          \* the step the reconciler is at
  mem,         \* the copy this reconcile works on, None between reconciles
  memFresh,    \* mem carries the current resource version
  outcome,     \* the ironic.Status computed so far
  dep,         \* the workloads on the API server, by kind
  seen,        \* the informers' copies of them
  depFresh,    \* which of those copies are current
  svc,         \* version label and topology of the Service, None if absent
  jobs,        \* the upgrade jobs, by name
  linked,      \* the secrets and config maps the Ironic object refers to
  schema,      \* versions whose database-upgrade ran, by database
  migrated,    \* versions the data is migrated to, by database
  faults       \* failures so far

object == <<ironic, cache, cacheFresh>>
worker == <<queued, pc, mem, memFresh, outcome>>
workloads == <<dep, seen, depFresh>>
data == <<schema, migrated>>
vars == <<object, worker, workloads, svc, jobs, linked, data, faults>>

TypeOK ==
  /\ ironic \in Objects
  /\ cache \in Objects
  /\ cacheFresh \in BOOLEAN
  /\ queued \in BOOLEAN
  /\ pc \in Steps
  /\ mem \in Objects \cup {None}
  /\ pc = "idle" <=> mem = None
  /\ memFresh \in BOOLEAN
  /\ outcome \in Outcomes
  /\ dep \in [Kinds -> Workloads]
  /\ seen \in [Kinds -> Workloads]
  /\ depFresh \in [Kinds -> BOOLEAN]
  /\ svc \in {None} \cup (Versions \X Topologies)
  /\ jobs \in [JobKeys -> Jobs]
  /\ linked \in {"ok", "missing", "invalid"}
  /\ schema \in [Databases -> SUBSET Versions]
  /\ migrated \in [Databases -> SUBSET Versions]
  /\ faults \in 0 .. MaxFaults

\* A user has just created the object; nothing is deployed.
Init ==
  /\ \E s \in Specs : ironic = [spec |-> s, gen |-> 1, status |-> NoStatus]
  /\ cache = ironic
  /\ cacheFresh = TRUE
  /\ queued = TRUE
  /\ pc = "idle"
  /\ mem = None
  /\ memFresh = FALSE
  /\ outcome = "none"
  /\ dep = [k \in Kinds |-> Absent]
  /\ seen = dep
  /\ depFresh = [k \in Kinds |-> TRUE]
  /\ svc = None
  /\ jobs = [j \in JobKeys |-> NoJob]
  /\ linked = "ok"
  /\ schema = [d \in Databases |-> {}]
  /\ migrated = [d \in Databases |-> {}]
  /\ faults = 0

Fault == faults < MaxFaults /\ faults' = faults + 1

-----------------------------------------------------------------------------
(* Faulty variants of definitions below, one plausible slip each.  Nothing    *)
(* uses them; substituted for the definition named after the slip, each one   *)
(* breaks a property of this module.                                          *)

\* VersionChanged, but only once something is installed.
VersionChangedSinceInstall(o) ==
  o.status.installed \notin {None, o.spec.version, o.status.requested}

\* JobName without the phase: both phases share one job.
JobNameWithoutPhase(o, phase) ==
  [phase |-> "pre", from |-> o.status.installed, to |-> o.spec.version]

\* NewStatus with the recorded version instead of the one just deployed.
NewStatusFromRequested(o) ==
  [o.status EXCEPT
     !.reason = IF outcome = "ready" THEN "Available" ELSE "InProgress",
     !.obsGen = o.gen,
     !.installed = IF outcome = "ready" THEN o.status.requested ELSE @]

\* StatusUpdate without the resource version check.
StatusUpdateUnlocked(status, ok) ==
  /\ ok
  /\ ironic' = [ironic EXCEPT !.status = status]
  /\ cacheFresh' = (cacheFresh /\ status = ironic.status)
  /\ UNCHANGED <<cache, faults>>

\* EndReconcile that drops the requeue.
EndReconcileForgetful(requeue) ==
  /\ pc' = "idle"
  /\ mem' = None
  /\ memFresh' = FALSE
  /\ outcome' = "none"
  /\ queued' = queued

-----------------------------------------------------------------------------
(* What the code computes from the object it holds. *)

\* The requested version is neither the installed nor the last recorded one.
VersionChanged(o) ==
  o.spec.version # o.status.installed /\ o.spec.version # o.status.requested

\* The downgrade guard: it looks at the installed version only.
IsDowngrade(o) ==
  /\ o.status.installed # None
  /\ o.spec.db # NoDatabase
  /\ o.status.installed # Latest
  /\ Less(o.spec.version, o.status.installed)

\* upgrades.go: a job runs when the version is not the installed one.
upgradeJobRequired(o) ==
  o.spec.db # NoDatabase /\ o.spec.version # o.status.installed

JobName(o, phase) ==
  [phase |-> phase, from |-> o.status.installed, to |-> o.spec.version]

KindOf(o) == IF o.spec.ha THEN "DaemonSet" ELSE "Deployment"
OtherKind(o) == IF o.spec.ha THEN "Deployment" ELSE "DaemonSet"

\* CheckVersion: extraRanges needs a release that has them.
Supported(o) == ~(o.spec.extra /\ Less(o.spec.version, MultiRange))

Matches(w, o) ==
  w.phase # "absent" /\ w.version = o.spec.version /\ w.db = o.spec.db

setCondition(o, reason) ==
  [o.status EXCEPT !.reason = reason, !.obsGen = o.gen]

\* updateIronicStatus: the condition of an outcome, and the installed version.
NewStatus(o) ==
  LET reason == CASE outcome = "ready"  -> "Available"
                  [] outcome = "failed" -> "Failed"
                  [] OTHER              -> "InProgress"
  IN  [setCondition(o, reason) EXCEPT
         !.installed = IF outcome = "ready" THEN o.spec.version ELSE @]

\* Status().Update of the held copy: refused when the copy is not current, and
\* able to fail before or after the server applied it.
StatusUpdate(status, ok) ==
  LET Apply == /\ ironic' = [ironic EXCEPT !.status = status]
               /\ cacheFresh' = (cacheFresh /\ status = ironic.status)
      Keep  == UNCHANGED <<ironic, cacheFresh>>
  IN  /\ cache' = cache
      /\ \/ ok /\ memFresh /\ Apply /\ UNCHANGED faults
         \/ ~ok /\ ~memFresh /\ Keep /\ UNCHANGED faults
         \/ ~ok /\ memFresh /\ (Apply \/ Keep) /\ Fault

\* Reconcile returns; an error or a true "changed" puts the object back.
EndReconcile(requeue) ==
  /\ pc' = "idle"
  /\ mem' = None
  /\ memFresh' = FALSE
  /\ outcome' = "none"
  /\ queued' = (queued \/ requeue)

Goto(step, result) ==
  /\ pc' = step
  /\ outcome' = result
  /\ UNCHANGED <<queued, mem, memFresh>>

-----------------------------------------------------------------------------
(* The reconciler. *)

\* Reconcile, getIronic and the version comparison, which read the cached copy.
StartReconcile ==
  /\ pc = "idle"
  /\ queued
  /\ queued' = FALSE
  /\ mem' = cache
  /\ memFresh' = cacheFresh
  /\ pc' = IF VersionChanged(cache) THEN "version" ELSE "linked"
  /\ UNCHANGED <<outcome, object, workloads, svc, jobs, linked, data, faults>>

\* A downgrade is refused; whether the condition could be written is ignored.
RefuseDowngrade ==
  /\ pc = "version"
  /\ IsDowngrade(mem)
  /\ \E ok \in BOOLEAN : StatusUpdate(setCondition(mem, "Failed"), ok)
  /\ EndReconcile(FALSE)
  /\ UNCHANGED <<workloads, svc, jobs, linked, data>>

\* The new version is recorded as requested before anything else happens.
RequestVersion ==
  /\ pc = "version"
  /\ ~IsDowngrade(mem)
  /\ LET status == [setCondition(mem, "InProgress")
                      EXCEPT !.requested = mem.spec.version]
     IN  \/ /\ StatusUpdate(status, TRUE)
            /\ mem' = [mem EXCEPT !.status = status]
            /\ pc' = "linked"
            /\ UNCHANGED <<queued, memFresh, outcome>>
         \/ /\ StatusUpdate(status, FALSE)
            /\ EndReconcile(TRUE)
  /\ UNCHANGED <<workloads, svc, jobs, linked, data>>

\* A linked resource is missing or lacks its label, or CheckVersion refuses the
\* version: the condition says so, if it can be written; only a missing
\* resource is an error and retried.
RefuseResources ==
  /\ pc = "linked"
  /\ linked = "missing" \/ ~Supported(mem)
  /\ \E ok \in BOOLEAN : StatusUpdate(setCondition(mem, "Failed"), ok)
  /\ EndReconcile(linked = "missing")
  /\ UNCHANGED <<workloads, svc, jobs, linked, data>>

\* The linked resources are loaded and validated: an invalid one is fatal.
AcceptResources ==
  /\ pc = "linked"
  /\ linked # "missing"
  /\ Supported(mem)
  /\ IF linked = "invalid"
       THEN Goto("report", "failed")
       ELSE Goto(IF upgradeJobRequired(mem) THEN "pre" ELSE "remove", outcome)
  /\ UNCHANGED <<object, workloads, svc, jobs, linked, data, faults>>

\* ensureIronicUpgradeJob: create the job, or look at how far it is.  The
\* template of an existing job is immutable: another database is an error.
EnsureUpgradeJob(phase, next, result) ==
  LET name == JobName(mem, phase)
      job  == jobs[name]
  IN  \/ /\ job.state = "absent"
         /\ jobs' = [jobs EXCEPT ![name] = [state |-> "running", db |-> mem.spec.db]]
         /\ Goto("report", "updated")
      \/ /\ job.state # "absent"
         /\ job.db # mem.spec.db
         /\ EndReconcile(TRUE)
         /\ jobs' = jobs
      \/ /\ job.db = mem.spec.db
         /\ jobs' = jobs
         /\ \/ job.state = "running"  /\ Goto("report", "inProgress")
            \/ job.state = "failed"   /\ Goto("report", "failed")
            \/ job.state = "complete" /\ Goto(next, result)

EnsurePreUpgrade ==
  /\ pc = "pre"
  /\ EnsureUpgradeJob("pre", "remove", outcome)
  /\ UNCHANGED <<object, workloads, svc, linked, data, faults>>

\* The workload of the other kind is deleted, with no look at the cache.
RemoveOtherWorkload ==
  /\ pc = "remove"
  /\ LET k == OtherKind(mem)
     IN  /\ dep' = [dep EXCEPT ![k] = Absent]
         /\ depFresh' = [depFresh EXCEPT ![k] = @ /\ dep[k] = Absent]
  /\ seen' = seen
  /\ Goto("workload", outcome)
  /\ UNCHANGED <<object, svc, jobs, linked, data, faults>>

\* ensureIronicDeployment / ensureIronicDaemonSet: the desired template is
\* compared with the cached object and written if it differs.
WriteWorkload ==
  /\ pc = "workload"
  /\ LET k == KindOf(mem)
     IN  /\ ~Matches(seen[k], mem)
         /\ \/ /\ depFresh[k]
               /\ dep' = [dep EXCEPT ![k] = [version |-> mem.spec.version,
                                             db      |-> mem.spec.db,
                                             phase   |-> "progressing"]]
               /\ depFresh' = [depFresh EXCEPT ![k] = FALSE]
               /\ Goto("service", "updated")
            \/ /\ ~depFresh[k]   \* conflict, already exists, or not found
               /\ EndReconcile(TRUE)
               /\ UNCHANGED <<dep, depFresh>>
  /\ seen' = seen
  /\ UNCHANGED <<object, svc, jobs, linked, data, faults>>

\* getDeploymentStatus / getDaemonSetStatus of the cached object.
CheckWorkload ==
  /\ pc = "workload"
  /\ LET w == seen[KindOf(mem)]
     IN  /\ Matches(w, mem)
         /\ \/ w.phase = "available"   /\ Goto("service", "ready")
            \/ w.phase = "progressing" /\ Goto("service", "inProgress")
            \/ w.phase = "stalled"     /\ Goto("report", "failed")
            \/ w.phase = "failing"     /\ EndReconcile(TRUE)
  /\ UNCHANGED <<object, workloads, svc, jobs, linked, data, faults>>

EnsureService ==
  /\ pc = "service"
  /\ LET desired == <<mem.spec.version, mem.spec.ha>>
     IN  IF svc # desired
           THEN svc' = desired /\ Goto("report", "updated")
           ELSE svc' = svc /\ Goto(IF upgradeJobRequired(mem) THEN "post" ELSE "report",
                                   outcome)
  /\ UNCHANGED <<object, workloads, jobs, linked, data, faults>>

EnsurePostUpgrade ==
  /\ pc = "post"
  /\ EnsureUpgradeJob("post", "report", outcome)
  /\ UNCHANGED <<object, workloads, svc, linked, data, faults>>

\* updateIronicStatus: nothing is written when nothing changed.
UpdateIronicStatus ==
  /\ pc = "report"
  /\ LET status == NewStatus(mem)
     IN  \/ /\ status = mem.status
            /\ UNCHANGED <<object, faults>>
            /\ EndReconcile(outcome = "updated")
         \/ /\ status # mem.status
            /\ \E ok \in BOOLEAN : /\ StatusUpdate(status, ok)
                                   /\ EndReconcile(outcome = "updated" \/ ~ok)
  /\ UNCHANGED <<workloads, svc, jobs, linked, data>>

\* A call of the step in hand fails: the error is returned, no status written.
\* A networking service that is not ready yet looks the same from outside.
TransientError ==
  /\ pc \in {"linked", "pre", "remove", "workload", "service", "post"}
  /\ Fault
  /\ EndReconcile(TRUE)
  /\ UNCHANGED <<object, workloads, svc, jobs, linked, data>>

\* The operator dies and starts again: caches are listed anew, every object
\* is queued.
Restart ==
  /\ pc # "idle"
  /\ Fault
  /\ EndReconcile(TRUE)
  /\ cache' = ironic
  /\ cacheFresh' = TRUE
  /\ seen' = dep
  /\ depFresh' = [k \in Kinds |-> TRUE]
  /\ UNCHANGED <<ironic, dep, svc, jobs, linked, data>>

-----------------------------------------------------------------------------
(* The informers, the Kubernetes controllers, the database and the user. *)

SyncIronic ==
  /\ ~cacheFresh
  /\ cache' = ironic
  /\ cacheFresh' = TRUE
  /\ queued' = TRUE
  /\ UNCHANGED <<ironic, pc, mem, memFresh, outcome,
                 workloads, svc, jobs, linked, data, faults>>

SyncWorkload(k) ==
  /\ ~depFresh[k]
  /\ seen' = [seen EXCEPT ![k] = dep[k]]
  /\ depFresh' = [depFresh EXCEPT ![k] = TRUE]
  /\ queued' = TRUE
  /\ UNCHANGED <<dep, object, pc, mem, memFresh, outcome,
                 svc, jobs, linked, data, faults>>

SetPhase(k, phase) ==
  /\ dep' = [dep EXCEPT ![k].phase = phase]
  /\ depFresh' = [depFresh EXCEPT ![k] = FALSE]
  /\ seen' = seen

\* The new pods are running.  An Ironic older than a migration writes records
\* in the old format, so that migration is no longer complete.
RollOut(k) ==
  /\ dep[k].phase \in {"progressing", "stalled", "failing"}
  /\ SetPhase(k, "available")
  /\ migrated' = [d \in Databases |->
                    IF d = dep[k].db
                      THEN {v \in migrated[d] : ~Less(dep[k].version, v)}
                      ELSE migrated[d]]
  /\ UNCHANGED <<object, worker, svc, jobs, linked, schema, faults>>

\* Pods die; a Deployment misses its progress deadline or cannot create pods.
Degrade(k) ==
  /\ Fault
  /\ \/ dep[k].phase = "available" /\ SetPhase(k, "progressing")
     \/ /\ k = "Deployment"
        /\ dep[k].phase = "progressing"
        /\ \E phase \in {"stalled", "failing"} : SetPhase(k, phase)
  /\ UNCHANGED <<object, worker, svc, jobs, linked, data>>

\* database-upgrade or online-data-migrations finishes.
FinishJob(j) ==
  /\ jobs[j].state = "running"
  /\ jobs' = [jobs EXCEPT ![j].state = "complete"]
  /\ LET Done(f) == [d \in Databases |->
                       IF d = jobs[j].db THEN f[d] \cup {j.to} ELSE f[d]]
     IN  /\ schema' = IF j.phase = "pre" THEN Done(schema) ELSE schema
         /\ migrated' = IF j.phase = "post" THEN Done(migrated) ELSE migrated
  /\ queued' = TRUE
  /\ UNCHANGED <<object, pc, mem, memFresh, outcome, workloads, svc, linked, faults>>

FailJob(j) ==
  /\ jobs[j].state = "running"
  /\ Fault
  /\ jobs' = [jobs EXCEPT ![j].state = "failed"]
  /\ queued' = TRUE
  /\ UNCHANGED <<object, pc, mem, memFresh, outcome, workloads, svc, linked, data>>

RemoveJob(j) ==
  /\ jobs' = [jobs EXCEPT ![j] = NoJob]
  /\ queued' = TRUE
  /\ UNCHANGED <<object, pc, mem, memFresh, outcome, workloads, svc, linked, data>>

\* ttlSecondsAfterFinished removes every finished job after a day.  That a day
\* passes while a successful job is still looked at counts as a fault.
ExpireFailedJob(j) == jobs[j].state = "failed" /\ RemoveJob(j) /\ UNCHANGED faults
ExpireCompleteJob(j) == jobs[j].state = "complete" /\ RemoveJob(j) /\ Fault

\* Linked resources have owner references, so their changes are watched.
BreakLinked ==
  /\ linked = "ok"
  /\ Fault
  /\ linked' \in {"missing", "invalid"}
  /\ queued' = TRUE
  /\ UNCHANGED <<object, pc, mem, memFresh, outcome, workloads, svc, jobs, data>>

FixLinked ==
  /\ linked # "ok"
  /\ linked' = "ok"
  /\ queued' = TRUE
  /\ UNCHANGED <<object, pc, mem, memFresh, outcome, workloads, svc, jobs, data, faults>>

\* ValidateIronic against the previous object: one database is never swapped
\* for another in one update.
ValidUpdate(old, new) ==
  old.db # NoDatabase /\ new.db # NoDatabase => old.db = new.db

\* The last edit was dealt with: its version is installed, or refused as a
\* downgrade.
Settled ==
  \/ ironic.status.installed = ironic.spec.version
  \/ VersionChanged(ironic) /\ IsDowngrade(ironic)

UserEdit ==
  /\ ironic.gen < MaxGeneration
  /\ Hasty \/ Settled
  /\ \E s \in Specs :
       /\ s # ironic.spec
       /\ ValidUpdate(ironic.spec, s)
       /\ DatabaseEdits \/ s.db = ironic.spec.db
       /\ ironic' = [ironic EXCEPT !.spec = s, !.gen = @ + 1]
  /\ cacheFresh' = FALSE
  /\ memFresh' = FALSE
  /\ UNCHANGED <<cache, queued, pc, mem, outcome,
                 workloads, svc, jobs, linked, data, faults>>

-----------------------------------------------------------------------------

Reconciler ==
  \/ StartReconcile
  \/ RefuseDowngrade
  \/ RequestVersion
  \/ RefuseResources
  \/ AcceptResources
  \/ EnsurePreUpgrade
  \/ RemoveOtherWorkload
  \/ WriteWorkload
  \/ CheckWorkload
  \/ EnsureService
  \/ EnsurePostUpgrade
  \/ UpdateIronicStatus

Failures ==
  \/ TransientError
  \/ Restart
  \/ BreakLinked
  \/ \E k \in Kinds : Degrade(k)
  \/ \E j \in JobKeys : FailJob(j) \/ ExpireCompleteJob(j)

Environment ==
  \/ SyncIronic
  \/ \E k \in Kinds : SyncWorkload(k) \/ RollOut(k)
  \/ \E j \in JobKeys : FinishJob(j) \/ ExpireFailedJob(j)
  \/ FixLinked
  \/ UserEdit

Next == Reconciler \/ Failures \/ Environment

Spec == Init /\ [][Next]_vars

\* The work queue hands out what it holds, watches deliver, Kubernetes runs
\* what it was given, and linked resources get repaired.  Nothing obliges users
\* to edit or failures to happen.
Fairness ==
  /\ WF_vars(Reconciler)
  /\ WF_vars(SyncIronic)
  /\ WF_vars(FixLinked)
  /\ \A k \in Kinds : WF_vars(SyncWorkload(k)) /\ WF_vars(RollOut(k))
  /\ \A j \in JobKeys : WF_vars(FinishJob(j)) /\ WF_vars(ExpireFailedJob(j))

FairSpec == Spec /\ Fairness

-----------------------------------------------------------------------------
(* Properties. *)

\* RemoveIronic...: the Deployment and the DaemonSet of one Ironic never exist
\* at the same time, whatever the user switches to and whenever.
OneWorkload == \E k \in Kinds : dep[k] = Absent

\* ensureIronicUpgradeJob(pre) before the workload: an Ironic that uses an
\* external database runs only on a schema its own version has upgraded.
SchemaReady ==
  \A k \in Kinds :
    dep[k].db \in Databases => dep[k].version \in schema[dep[k].db]

\* The downgrade guard of handleIronic: a workload is never written for a
\* database that a newer release has already upgraded.  (During an upgrade the
\* old workload keeps running on the new schema; that is intended.  Once
\* "latest" has run, it is up to the user what is newer.)
NoDowngrade ==
  [][\A k \in Kinds :
       /\ dep'[k].db \in Databases
       /\ <<dep'[k].version, dep'[k].db>> # <<dep[k].version, dep[k].db>>
       => \/ Latest \in schema[dep'[k].db]
          \/ \A v \in schema[dep'[k].db] : ~Less(dep'[k].version, v)]_vars

\* The same guard seen from the status: with a database, the installed version
\* never moves to an older release.
InstalledNeverGoesBack ==
  [][LET old == ironic.status.installed
         new == ironic'.status.installed
     IN  ironic.spec.db \in Databases /\ old # None /\ new # old
           => new # None /\ (old = Latest \/ ~Less(new, old))]_vars

\* commandPerPhase: the post-upgrade job is there to "migrate any database
\* resources to the new version", and comes before InstalledVersion is set.
\* Databases that saw "latest" are left out: it lets an older release in
\* afterwards, whose records a later upgrade may leave as they are because it
\* takes a job of an earlier round for its own.
InstalledIsMigrated ==
  LET v == ironic.status.installed
      d == ironic.spec.db
  IN  d \in Databases /\ Latest \notin schema[d] /\ v # None => v \in migrated[d]

\* updateIronicStatus: a Ready condition for the current generation means that
\* the version of that generation is the installed one.
ReadyNow == ironic.status.reason = "Available" /\ ironic.status.obsGen = ironic.gen

ReadyMeansInstalled == ReadyNow => ironic.status.installed = ironic.spec.version

\* WaitForUpgrade in the tests: Ready comes after RequestedVersion was updated.
RequestedIsCurrent == ReadyNow => ironic.status.requested = ironic.spec.version

\* No lost wake-up: when nothing is queued or running and no watch event is
\* under way, a Ready condition for the current generation is the truth.
Quiescent == pc = "idle" /\ ~queued /\ cacheFresh /\ \A k \in Kinds : depFresh[k]

QuiescentIsTruthful ==
  Quiescent /\ ReadyNow =>
    /\ Matches(dep[KindOf(ironic)], ironic)
    /\ dep[KindOf(ironic)].phase = "available"
    /\ dep[OtherKind(ironic)] = Absent
    /\ svc = <<ironic.spec.version, ironic.spec.ha>>

\* The desired state: reported, installed and running; or refused by the
\* downgrade guard or by CheckVersion, which only the user can resolve.
Deployed ==
  /\ ReadyNow
  /\ Matches(dep[KindOf(ironic)], ironic)
  /\ dep[KindOf(ironic)].phase = "available"
Refused ==
  \/ VersionChanged(ironic) /\ IsDowngrade(ironic)
  \/ ~Supported(ironic)

\* Reconcile "aims to move the current state of the cluster closer to the
\* desired state": once users and failures stop, it gets there and stays.
Converges == <>[](Deployed \/ Refused)

\* With one database that stays attached, and updates of a settled object only,
\* the reconciler implements the upgrade protocol.
TheDatabase == CHOOSE d \in Databases : TRUE
Attached == ironic.spec.db = TheDatabase

RunningVersion ==
  IF \E k \in Kinds : dep[k] # Absent
    THEN (CHOOSE w \in {dep[k] : k \in Kinds} : w # Absent).version
    ELSE None

Protocol == INSTANCE DatabaseUpgrade
              WITH schema    <- schema[TheDatabase],
                   migrated  <- migrated[TheDatabase],
                   running   <- IF Attached THEN RunningVersion ELSE None,
                   installed <- IF Attached THEN ironic.status.installed ELSE None

ImplementsProtocol == Protocol!Spec
=============================================================================
