--------------------------- MODULE ProtocolProofs ---------------------------
(***************************************************************************)
(* The reconciler of IronicReconcile implements the upgrade protocol of    *)
(* DatabaseUpgrade, for users who leave the database alone and wait for    *)
(* one version before they ask for the next: any versions and databases,   *)
(* any number of edits, failures, crashes and lost replies.                *)
(***************************************************************************)
EXTENDS IronicReconcileProofs

-----------------------------------------------------------------------------
(* The version asked for and the versions recorded.                          *)

\* An edit replaces the specification only, and of a settled object.
LEMMA EditStep ==
  ASSUME TypeOK, UserEdit
  PROVE  /\ ironic'.status = ironic.status
         /\ ironic'.spec \in Specs
         /\ ironic'.gen = ironic.gen + 1
         /\ UNCHANGED <<cache, mem, pc, outcome, dep, seen, jobs, schema, migrated>>
         /\ ~Hasty => Settled
         /\ ~DatabaseEdits => ironic'.spec.db = ironic.spec.db
  <1>1. PICK s \in Specs :
          /\ DatabaseEdits \/ s.db = ironic.spec.db
          /\ ironic' = [ironic EXCEPT !.spec = s, !.gen = @ + 1]
    BY DEF UserEdit
  <1>2. ironic'.spec = s /\ ironic'.status = ironic.status /\ ironic'.gen = ironic.gen + 1
    BY <1>1 DEF TypeOK, Objects
  <1> QED
    BY <1>1, <1>2 DEF UserEdit, workloads, data

\* At most one version is under way: what was requested is installed, or is what
\* the specification asks for.
Requests(o) ==
  /\ o.status.installed = o.spec.version => o.status.requested = o.spec.version
  /\ o.status.requested # o.status.installed => o.status.requested = o.spec.version

\* A walk goes past the version step only with the version that was recorded
\* last, however old the copy is that it works on.
RequestsInv ==
  /\ Requests(ironic) /\ Requests(cache) /\ (mem # None => Requests(mem))
  /\ pc = "version" => VersionChanged(mem)
  /\ pc = "version" /\ memFresh => cache = ironic
  /\ ~VersionChanged(cache) => cache.status.requested = ironic.status.requested
  /\ pc \notin {"idle", "version"} =>
       ~VersionChanged(mem) /\ mem.status.requested = ironic.status.requested

\* A step that ends before the version step has begun there, or with the cache.
LEMMA VersionStep ==
  ASSUME TypeOK, [Next]_vars, pc' = "version"
  PROVE  \/ /\ mem' = cache /\ memFresh' = cacheFresh
            /\ VersionChanged(cache)
            /\ UNCHANGED <<ironic, cache>>
         \/ /\ pc = "version"
            /\ mem' = mem
            /\ memFresh' => memFresh /\ (UNCHANGED <<ironic, cache>> \/ cache' = ironic')
  <1> USE DEF object, worker
  <1>1. CASE Reconciler
    BY <1>1 DEF Reconciler, StartReconcile, AcceptResources, EnsurePreUpgrade,
                RemoveOtherWorkload, WriteWorkload, CheckWorkload, EnsureService,
                EnsurePostUpgrade, RefuseDowngrade, RequestVersion, RefuseResources,
                UpdateIronicStatus, EnsureUpgradeJob, Goto, EndReconcile
  <1>2. CASE Failures
    BY <1>2 DEF Failures, TransientError, Restart, BreakLinked, Degrade, FailJob,
                ExpireCompleteJob, RemoveJob, EndReconcile
  <1>3. CASE Environment
    BY <1>3 DEF Environment, SyncIronic, SyncWorkload, RollOut, FinishJob,
                ExpireFailedJob, RemoveJob, FixLinked, UserEdit
  <1>4. CASE UNCHANGED vars
    BY <1>4 DEF vars
  <1> QED
    BY <1>1, <1>2, <1>3, <1>4 DEF Next

\* The recorded request changes only when the version step of a walk whose copy,
\* and the cache, are the current object records the version asked for.
LEMMA RequestMoves ==
  ASSUME TypeOK, FreshInv, RequestsInv, [Next]_vars
  PROVE  \/ ironic'.status.requested = ironic.status.requested
         \/ /\ pc = "version" /\ mem = ironic /\ cache = ironic /\ cache' = cache
            /\ VersionChanged(ironic) /\ ~IsDowngrade(ironic)
            /\ ironic'.spec = ironic.spec
            /\ ironic'.status.requested = ironic.spec.version
            /\ ironic'.status.installed = ironic.status.installed
  <1>1. CASE UserEdit
    BY <1>1, EditStep
  <1> QED
    BY <1>1, ObjectStep DEF RequestsInv

\* Users who wait keep RequestsInv.
LEMMA RequestsStep ==
  ASSUME TypeOK, FreshInv, RequestsInv, [Next]_vars, ~Hasty
  PROVE  RequestsInv'
  <1>1. Requests(ironic')
    <2>1. CASE UserEdit
      <3>1. ironic'.status = ironic.status /\ Settled
        BY <2>1, EditStep
      <3>2. ironic.status.requested = ironic.status.installed
        BY <3>1 DEF Settled, VersionChanged, RequestsInv, Requests
      <3> QED
        BY <3>1, <3>2 DEF Requests
    <2>2. CASE pc = "report" /\ mem = ironic
      BY <2>1, <2>2, ObjectStep DEF RequestsInv, Requests, VersionChanged
    <2>3. CASE pc = "version" /\ mem = ironic
      BY <2>1, <2>3, ObjectStep DEF RequestsInv, Requests, VersionChanged
    <2> QED
      BY <2>1, <2>2, <2>3, ObjectStep DEF RequestsInv, Requests
  <1>2. Requests(cache')
    BY <1>1, CopyStep DEF RequestsInv
  <1>3. mem' # None => Requests(mem')
    BY <1>1, CopyStep DEF RequestsInv
  <1>4. pc' = "version" => VersionChanged(mem')
    BY VersionStep DEF RequestsInv
  <1>5. pc' = "version" /\ memFresh' => cache' = ironic'
    BY VersionStep DEF RequestsInv, FreshInv
  <1>6. ~VersionChanged(cache') => cache'.status.requested = ironic'.status.requested
    <2>1. CASE ironic'.status.requested = ironic.status.requested
      BY <2>1, CopyStep DEF RequestsInv
    <2> QED
      BY <2>1, RequestMoves
  <1>7. pc' \notin {"idle", "version"} =>
          ~VersionChanged(mem') /\ mem'.status.requested = ironic'.status.requested
    <2> SUFFICES ASSUME pc' \notin {"idle", "version"}
                 PROVE  ~VersionChanged(mem') /\ mem'.status.requested = ironic'.status.requested
      OBVIOUS
    <2>1. CASE ironic'.status.requested = ironic.status.requested
      BY <2>1, CopyStep DEF RequestsInv, VersionChanged
    <2>2. CASE mem' = ironic' /\ ~VersionChanged(mem')
      BY <2>2
    <2>3. CASE pc = "version" /\ VersionChanged(cache)
      BY <2>2, <2>3, CopyStep
    <2> QED
      BY <2>1, <2>3, RequestMoves
  <1> QED
    BY <1>1, <1>2, <1>3, <1>4, <1>5, <1>6, <1>7
    DEF RequestsInv, Requests, VersionChanged

\* So RequestsInv is an invariant.
LEMMA RequestsAlways ==
  ASSUME ~Hasty
  PROVE  Spec => []RequestsInv
  <1>1. Init => RequestsInv
    <2> SUFFICES ASSUME Init PROVE RequestsInv
      OBVIOUS
    <2>1. ironic.spec.version \in Versions /\ ironic.status = NoStatus
      BY DEF Init, Specs
    <2> QED
      BY <2>1, NoneAssumption
      DEF NoneAssumption, Init, RequestsInv, Requests, VersionChanged, NoStatus
  <1>2. TypeOK /\ FreshInv /\ RequestsInv /\ [Next]_vars => RequestsInv'
    BY RequestsStep
  <1> QED
    BY TypeCorrect, CopiesFresh, <1>1, <1>2, PTL DEF Spec

\* A Ready condition comes after the version it is about was recorded as the
\* requested one, for users who wait: WaitForUpgrade in the tests relies on it.
THEOREM RequestedAlwaysCurrent ==
  ASSUME ~Hasty
  PROVE  Spec => []RequestedIsCurrent
  <1>1. RequestsInv /\ ReadyMeansInstalled => RequestedIsCurrent
    BY DEF RequestsInv, Requests, ReadyMeansInstalled, RequestedIsCurrent
  <1> QED
    BY <1>1, RequestsAlways, ReadyAlwaysMeansInstalled, PTL

-----------------------------------------------------------------------------
(* Everything belongs to the database of the specification, and data is      *)
(* migrated only to versions that have upgraded the schema.                  *)

\* What the earlier proofs provide, for users who wait and leave the database
\* alone.
WaitingInv == TypeOK /\ FreshInv /\ OneWorkloadInv /\ SchemaInv /\ RequestsInv

\* It is an invariant.
LEMMA WaitingAlways ==
  ASSUME ~Hasty, ~DatabaseEdits
  PROVE  Spec => []WaitingInv
  <1>1. TypeOK /\ FreshInv /\ OneWorkloadInv /\ SchemaInv /\ RequestsInv => WaitingInv
    BY DEF WaitingInv
  <1> QED
    BY <1>1, TypeCorrect, CopiesFresh, OneWorkloadInductive, SchemaInductive,
       RequestsAlways, PTL

DatabaseInv ==
  /\ \A k \in Kinds : dep[k].phase = "absent" => dep[k] = Absent
  /\ \A k \in Kinds : dep[k] # Absent => dep[k].db = ironic.spec.db
  /\ \A j \in JobKeys :
       jobs[j].state # "absent" => jobs[j].db = ironic.spec.db /\ jobs[j].db \in Databases
  /\ pc \in {"pre", "post"} => mem.spec.db \in Databases

MigrationInv ==
  ironic.spec.db \in Databases =>
    /\ migrated[ironic.spec.db] \subseteq schema[ironic.spec.db]
    /\ \A j \in JobKeys :
         jobs[j].state # "absent" /\ j.phase = "post" => j.to \in schema[ironic.spec.db]
    /\ \A k \in Kinds : seen[k] # Absent => seen[k].version \in schema[ironic.spec.db]

\* The database of the specification never changes, and the schema only grows.
LEMMA DatabaseStep ==
  ASSUME WaitingInv, [Next]_vars, ~DatabaseEdits
  PROVE  /\ ironic'.spec.db = ironic.spec.db
         /\ \A d \in Databases : schema[d] \subseteq schema'[d]
         /\ ironic.spec.db \in Databases =>
              (Latest \notin schema'[ironic.spec.db] => Latest \notin schema[ironic.spec.db])
         /\ mem # None => mem.spec.db = ironic.spec.db
  <1>1. TypeOK /\ FreshInv /\ CopiesUpgraded
    BY DEF WaitingInv, SchemaInv
  <1>2. ironic'.spec.db = ironic.spec.db
    BY <1>1, ObjectStep, EditStep
  <1>3. \A d \in Databases : schema[d] \subseteq schema'[d]
    BY DataStep DEF data, RollOut, FinishJob
  <1> QED
    BY <1>1, <1>2, <1>3 DEF CopiesUpgraded

\* A walk past the version step works on the version recorded last.
LEMMA WalkVersion ==
  ASSUME WaitingInv, pc \notin {"idle", "version"}
  PROVE  /\ mem \in Objects /\ mem # None
         /\ mem.spec.version \in Versions
         /\ mem.spec.db = ironic.spec.db
         /\ mem.spec.version = ironic.status.requested
  <1>1. mem \in Objects /\ mem # None
    BY DEF WaitingInv, TypeOK
  <1>2. mem.spec.version = mem.status.requested
    BY <1>1 DEF WaitingInv, RequestsInv, Requests, VersionChanged
  <1> QED
    BY <1>1, <1>2 DEF WaitingInv, RequestsInv, SchemaInv, CopiesUpgraded, Objects, Specs

\* DatabaseInv and MigrationInv survive every step.
LEMMA MigrationStep ==
  ASSUME WaitingInv, DatabaseInv, MigrationInv, [Next]_vars, ~DatabaseEdits
  PROVE  DatabaseInv' /\ MigrationInv'
  <1> DEFINE d == ironic.spec.db
  <1>t. TypeOK
    BY DEF WaitingInv
  <1>d. /\ ironic'.spec.db = d
        /\ d \in Databases => schema[d] \subseteq schema'[d]
        /\ mem # None => mem.spec.db = d
    BY DatabaseStep
  <1>1. ASSUME NEW k \in Kinds
        PROVE  /\ dep'[k].phase = "absent" => dep'[k] = Absent
               /\ dep'[k] # Absent => dep'[k].db = d
    <2>1. pc = "workload" => mem # None
      BY <1>t DEF TypeOK
    <2>2. Absent.phase = "absent"
      BY DEF Absent
    <2> QED
      BY <1>t, <1>d, <2>1, <2>2, WorkloadStep DEF DatabaseInv, Written
  <1>2. ASSUME NEW j \in JobKeys, jobs'[j].state # "absent"
        PROVE  /\ jobs'[j].db = d /\ d \in Databases
               /\ j.phase = "post" => j.to \in schema'[d]
    <2>0. j.phase \in Phases
      BY DEF JobKeys
    <2>1. CASE pc = j.phase /\ j = JobName(mem, j.phase) /\ jobs'[j].db = mem.spec.db
               /\ UNCHANGED data
      <3>1. pc \in {"pre", "post"} /\ mem # None /\ mem \in Objects
        BY <1>t, <2>0, <2>1 DEF Phases, TypeOK
      <3>2. d \in Databases
        BY <1>d, <3>1 DEF DatabaseInv
      <3>3. pc = "post" => mem.spec.version \in schema[d]
        BY <1>d, <3>1, <3>2 DEF WaitingInv, SchemaInv, WorkerUpgraded
      <3>4. j.to = mem.spec.version
        BY <2>1 DEF JobName
      <3> QED
        BY <1>d, <2>1, <3>1, <3>2, <3>3, <3>4
    <2>2. CASE jobs'[j].db = jobs[j].db /\ jobs[j].state # "absent"
      BY <1>d, <2>2 DEF DatabaseInv, MigrationInv
    <2> QED
      BY <1>t, <1>2, <2>1, <2>2, JobStep DEF FinishJob
  <1>3. ASSUME d \in Databases
        PROVE  migrated'[d] \subseteq schema'[d]
    <2>1. CASE \E k \in Kinds : RollOut(k)
      BY <1>3, <1>d, <2>1 DEF RollOut, MigrationInv
    <2>2. ASSUME NEW j \in JobKeys, FinishJob(j)
          PROVE  migrated'[d] \subseteq schema'[d]
      <3>1. migrated'[d] = migrated[d] \/ (migrated'[d] = migrated[d] \cup {j.to} /\ j.phase = "post")
        BY <1>3, <2>2 DEF FinishJob
      <3> QED
        BY <1>3, <1>d, <2>2, <3>1 DEF FinishJob, MigrationInv
    <2> QED
      BY <1>3, <1>d, <2>1, <2>2, DataStep DEF data, MigrationInv
  <1>4. ASSUME NEW k \in Kinds, d \in Databases, seen'[k] # Absent
        PROVE  seen'[k].version \in schema'[d]
    BY <1>4, <1>t, <1>d, SeenStep DEF MigrationInv, DatabaseInv, WaitingInv, SchemaInv, SchemaReady
  <1>5. ASSUME pc' \in {"pre", "post"}
        PROVE  mem'.spec.db \in Databases
    <2>1. CASE UNCHANGED <<pc, mem, outcome>>
      BY <1>5, <2>1 DEF DatabaseInv
    <2>2. CASE pc # "idle" /\ mem' = mem /\ upgradeJobRequired(mem)
      <3>1. mem \in Objects
        BY <1>t, <2>2 DEF TypeOK
      <3> QED
        BY <2>2, <3>1 DEF upgradeJobRequired, Objects, Specs
    <2> QED
      BY <1>5, <2>1, <2>2, WalkStep
  <1> QED
    BY <1>d, <1>1, <1>2, <1>3, <1>4, <1>5 DEF DatabaseInv, MigrationInv

-----------------------------------------------------------------------------
(* A database that has not seen "latest".  Releases come to it in order, so  *)
(* the one requested last is the newest, a workload that took part in an      *)
(* upgrade is the newest too, and nothing that starts later takes its         *)
(* migrations back.                                                           *)

NoLatest == ironic.spec.db \in Databases /\ Latest \notin schema[ironic.spec.db]

\* v does not come after w in the order of releases.
Below(v, w) == w # None /\ (w = Latest \/ (v # Latest /\ v <= w))

\* Nothing has been upgraded, or is being upgraded, past the requested version.
RequestNewest ==
  NoLatest =>
    /\ \A w \in schema[ironic.spec.db] : Below(w, ironic.status.requested)
    /\ \A j \in JobKeys : jobs[j].state # "absent" /\ j.phase = "pre"
                            => Below(j.to, ironic.status.requested)

\* A copy of a workload that has the requested version is not out of date in it.
CopiesAgree ==
  NoLatest =>
    \A k \in Kinds : dep[k] # Absent /\ seen[k] # Absent
                     /\ seen[k].version = ironic.status.requested
                       => dep[k].version = ironic.status.requested

\* Past the workload step, what is deployed has the version of the walk.
WalkDeployed ==
  NoLatest /\ pc \in {"service", "post"} =>
    \A k \in Kinds : dep[k] # Absent => dep[k].version = mem.spec.version

\* What is deployed is as new as every migration done or under way.
MigrationsServed ==
  NoLatest =>
    \A k \in Kinds : dep[k] # Absent =>
      /\ \A w \in migrated[ironic.spec.db] : Below(w, dep[k].version)
      /\ \A j \in JobKeys : jobs[j].state # "absent" /\ j.phase = "post"
                              => Below(j.to, dep[k].version)

\* Installed versions, old ones included, and finished jobs have been migrated.
Migrated(o) ==
  o.status.installed # None => o.status.installed \in migrated[ironic.spec.db]

InstalledMigrated ==
  NoLatest =>
    /\ Migrated(ironic) /\ Migrated(cache) /\ (mem # None => Migrated(mem))
    /\ \A j \in JobKeys : jobs[j].state = "complete" /\ j.phase = "post"
                            => j.to \in migrated[ironic.spec.db]
    /\ pc = "report" /\ outcome = "ready" => mem.spec.version \in migrated[ironic.spec.db]

OrderInv ==
  /\ WaitingInv /\ DatabaseInv /\ MigrationInv
  /\ RequestNewest /\ CopiesAgree /\ WalkDeployed /\ MigrationsServed /\ InstalledMigrated

\* The order of releases below "latest" is that of numbers.
LEMMA BelowOrder ==
  ASSUME NEW v \in Versions, NEW w \in Versions
  PROVE  /\ Below(v, v)
         /\ Below(v, w) /\ Below(w, v) => v = w
         /\ \A u \in Versions : Below(u, v) /\ Below(v, w) => Below(u, w)
         /\ Below(v, w) => ~Less(w, v)
         /\ w # Latest /\ ~Less(v, w) => Below(w, v)
         /\ ~Less(v, Latest)
  <1>1. v \in Nat /\ w \in Nat /\ v # None
    BY VersionsAssumption, NoneAssumption DEF VersionsAssumption, NoneAssumption
  <1>2. \A u \in Versions : Below(u, v) /\ Below(v, w) => Below(u, w)
    BY <1>1, VersionsAssumption DEF VersionsAssumption, Below, Latest
  <1> QED
    BY <1>1, <1>2 DEF Below, Less, Compare, Latest

\* The requested version moves up only, past everything upgraded so far.
LEMMA RequestGrows ==
  ASSUME WaitingInv, RequestNewest, NoLatest, [Next]_vars
  PROVE  /\ \A v \in Versions : Below(v, ironic.status.requested)
                                  => Below(v, ironic'.status.requested)
         /\ ironic'.status.requested # ironic.status.requested
              => /\ pc = "version"
                 /\ ironic'.status.requested \notin schema[ironic.spec.db]
  <1> DEFINE R == ironic.status.requested
             V == ironic.spec.version
  <1>1. TypeOK /\ FreshInv /\ RequestsInv
    BY DEF WaitingInv
  <1>2. SUFFICES ASSUME ironic'.status.requested # R
                 PROVE  /\ \A v \in Versions : Below(v, R) => Below(v, V)
                        /\ V \notin schema[ironic.spec.db]
                        /\ pc = "version" /\ ironic'.status.requested = V
    BY Zenon
  <1>3. /\ pc = "version" /\ ironic'.status.requested = V
        /\ VersionChanged(ironic) /\ ~IsDowngrade(ironic)
    BY <1>1, <1>2, RequestMoves
  <1>4. R = ironic.status.installed /\ V # R
    BY <1>1, <1>3 DEF RequestsInv, Requests, VersionChanged
  <1>5. /\ V \in Versions /\ R \in Versions \cup {None}
        /\ ironic.spec.db # NoDatabase /\ ironic.spec.db \in Databases
        /\ schema[ironic.spec.db] \subseteq Versions
    BY <1>1, DatabasesAssumption DEF DatabasesAssumption, TypeOK, Objects, Specs, Statuses, NoLatest
  <1>6. CASE R = None
    BY <1>3, <1>5, <1>6 DEF RequestNewest, Below
  <1>7. CASE R # None
    <2>1. R \in schema[ironic.spec.db] /\ R # Latest
      BY <1>4, <1>5, <1>7 DEF WaitingInv, SchemaInv, CopiesUpgraded, Upgraded, NoLatest
    <2>2. Below(R, V)
      BY <1>3, <1>4, <1>5, <1>7, <2>1, BelowOrder DEF IsDowngrade
    <2>3. R \in Versions /\ V \in Versions
      BY <1>5, <1>7
    <2>4. \A v \in Versions : Below(v, R) => Below(v, V)
      BY <2>2, <2>3, BelowOrder
    <2>5. ~Below(V, R)
      BY <1>4, <2>2, <2>3, BelowOrder
    <2>6. V \notin schema[ironic.spec.db]
      BY <2>5 DEF RequestNewest
    <2> QED
      BY <1>3, <2>4, <2>6
  <1> QED
    BY <1>6, <1>7

\* A database that has not seen "latest" after a step had not before it.
LEMMA NoLatestStep ==
  ASSUME WaitingInv, [Next]_vars, ~DatabaseEdits
  PROVE  /\ NoLatest' => NoLatest
         /\ ironic'.spec.db = ironic.spec.db
  BY DatabaseStep DEF NoLatest

\* RequestNewest survives every step.
LEMMA NewestStep ==
  ASSUME OrderInv, [Next]_vars, ~DatabaseEdits
  PROVE  RequestNewest'
  <1> DEFINE d == ironic.spec.db
             R == ironic.status.requested
  <1> SUFFICES ASSUME NoLatest'
               PROVE  /\ \A w \in schema'[d] : Below(w, R')
                      /\ \A j \in JobKeys : jobs'[j].state # "absent" /\ j.phase = "pre"
                                              => Below(j.to, R')
    BY NoLatestStep DEF OrderInv, RequestNewest, NoLatest
  <1>1. /\ TypeOK /\ WaitingInv /\ DatabaseInv /\ RequestNewest /\ NoLatest
        /\ ironic'.spec.db = d
    BY NoLatestStep DEF OrderInv, WaitingInv
  <1>2. /\ \A v \in Versions : Below(v, R) => Below(v, R')
        /\ R' # R => pc = "version"
    BY <1>1, RequestGrows
  <1>3. schema[d] \subseteq Versions
    BY <1>1 DEF TypeOK, NoLatest
  <1>4. ASSUME NEW j \in JobKeys, jobs[j].state # "absent", j.phase = "pre"
        PROVE  Below(j.to, R')
    BY <1>1, <1>2, <1>4 DEF RequestNewest, JobKeys
  <1>5. ASSUME NEW w \in schema'[d]
        PROVE  Below(w, R')
    <2>1. CASE w \in schema[d]
      BY <1>1, <1>2, <1>3, <2>1 DEF RequestNewest
    <2>2. CASE w \notin schema[d]
      <3>1. PICK j \in JobKeys : FinishJob(j)
        BY <1>5, <2>2, DataStep DEF data, RollOut
      <3>2. j.phase = "pre" /\ w = j.to
        BY <1>1, <1>5, <2>2, <3>1 DEF FinishJob, NoLatest
      <3> QED
        BY <1>4, <3>1, <3>2 DEF FinishJob
    <2> QED
      BY <2>1, <2>2
  <1>6. ASSUME NEW j \in JobKeys, jobs'[j].state # "absent", j.phase = "pre"
        PROVE  Below(j.to, R')
    <2>1. CASE jobs[j].state # "absent"
      BY <1>4, <1>6, <2>1
    <2>2. CASE pc = "pre" /\ j = JobName(mem, "pre")
      BY <1>1, <1>2, <2>2, WalkVersion, BelowOrder DEF JobName
    <2> QED
      BY <1>1, <1>6, <2>1, <2>2, JobStep DEF FinishJob
  <1> QED
    BY <1>1, <1>5, <1>6

\* So does CopiesAgree.
LEMMA AgreeStep ==
  ASSUME OrderInv, [Next]_vars, ~DatabaseEdits
  PROVE  CopiesAgree'
  <1> DEFINE R == ironic.status.requested
  <1> SUFFICES ASSUME NoLatest',
                      NEW k \in Kinds, dep'[k] # Absent, seen'[k] # Absent,
                      seen'[k].version = R'
               PROVE  dep'[k].version = R'
    BY DEF CopiesAgree
  <1>1. /\ TypeOK /\ WaitingInv /\ DatabaseInv /\ MigrationInv /\ RequestNewest
        /\ CopiesAgree /\ NoLatest
    BY NoLatestStep DEF OrderInv, WaitingInv
  <1>2. CASE seen'[k] = dep[k] /\ dep'[k] = dep[k]
    BY <1>2
  <1>3. CASE seen'[k] = seen[k]
    <2>1. seen[k].version \in schema[ironic.spec.db]
      BY <1>1, <1>3 DEF MigrationInv, NoLatest
    <2>2. R' = R
      BY <1>1, <1>3, <2>1, RequestGrows
    <2>3. dep[k] # Absent => dep[k].version = R
      BY <1>1, <1>3, <2>2 DEF CopiesAgree
    <2>4. CASE pc = "workload" /\ Written(dep'[k], mem)
      BY <1>1, <2>2, <2>4, WalkVersion DEF Written
    <2>5. CASE dep[k].phase # "absent" /\ dep'[k].version = dep[k].version
      BY <2>2, <2>3, <2>5 DEF Absent
    <2> QED
      BY <1>1, <2>2, <2>3, <2>4, <2>5, WorkloadStep
  <1> QED
    BY <1>1, <1>2, <1>3, SeenStep

\* So does WalkDeployed.
LEMMA DeployedStep ==
  ASSUME OrderInv, [Next]_vars, ~DatabaseEdits
  PROVE  WalkDeployed'
  <1> SUFFICES ASSUME NoLatest', pc' \in {"service", "post"},
                      NEW k \in Kinds, dep'[k] # Absent
               PROVE  dep'[k].version = mem'.spec.version
    BY DEF WalkDeployed
  <1>1. /\ TypeOK /\ WaitingInv /\ OneWorkloadInv /\ CopiesAgree /\ WalkDeployed /\ NoLatest
    BY NoLatestStep DEF OrderInv, WaitingInv
  <1>2. Absent.phase = "absent"
    BY DEF Absent
  <1>3. CASE UNCHANGED <<pc, mem>>
    BY <1>1, <1>2, <1>3, WorkloadStep DEF WalkDeployed
  <1>4. CASE pc = "workload" /\ mem' = mem /\ WriteWorkload
    <2>1. KindOf(mem) # OtherKind(mem) /\ k \in {KindOf(mem), OtherKind(mem)}
      BY KindsOfObject
    <2>2. dep[OtherKind(mem)] = Absent
      BY <1>1, <1>4 DEF OneWorkloadInv
    <2>3. k = KindOf(mem)
      BY <1>1, <1>2, <2>1, <2>2, WorkloadStep
    <2>4. dep'[k] = [version |-> mem.spec.version, db |-> mem.spec.db, phase |-> "progressing"]
      BY <1>1, <1>4, <2>3 DEF WriteWorkload, EndReconcile, TypeOK
    <2> QED
      BY <1>4, <2>4
  <1>5. CASE /\ pc = "workload" /\ mem' = mem
             /\ Matches(seen[KindOf(mem)], mem) /\ UNCHANGED workloads
    <2>1. k \in {KindOf(mem), OtherKind(mem)} /\ dep' = dep
      BY <1>5, KindsOfObject DEF workloads
    <2>2. dep[OtherKind(mem)] = Absent
      BY <1>1, <1>5 DEF OneWorkloadInv
    <2>3. k = KindOf(mem) /\ dep[k] # Absent
      BY <2>1, <2>2
    <2>4. seen[k] # Absent /\ seen[k].version = mem.spec.version
      BY <1>2, <1>5, <2>3 DEF Matches
    <2>5. mem.spec.version = ironic.status.requested
      BY <1>1, <1>5, WalkVersion
    <2> QED
      BY <1>1, <1>5, <2>1, <2>3, <2>4, <2>5 DEF CopiesAgree
  <1>6. CASE pc = "service" /\ mem' = mem /\ UNCHANGED workloads
    BY <1>1, <1>6 DEF WalkDeployed, workloads
  <1> QED
    BY <1>3, <1>4, <1>5, <1>6, WalkStep

\* So does MigrationsServed.
LEMMA ServedStep ==
  ASSUME OrderInv, [Next]_vars, ~DatabaseEdits
  PROVE  MigrationsServed'
  <1> DEFINE d == ironic.spec.db
  <1> SUFFICES ASSUME NoLatest', NEW k \in Kinds, dep'[k] # Absent
               PROVE  /\ \A w \in migrated'[d] : Below(w, dep'[k].version)
                      /\ \A j \in JobKeys : jobs'[j].state # "absent" /\ j.phase = "post"
                                              => Below(j.to, dep'[k].version)
    BY NoLatestStep DEF OrderInv, MigrationsServed
  <1>1. /\ TypeOK /\ WaitingInv /\ DatabaseInv /\ MigrationInv
        /\ RequestNewest /\ WalkDeployed /\ MigrationsServed
        /\ NoLatest /\ ironic'.spec.db = d
    BY NoLatestStep DEF OrderInv, WaitingInv
  <1>2. Absent.phase = "absent"
    BY DEF Absent
  <1>3. ASSUME NEW j \in JobKeys, jobs[j].state # "absent", j.phase = "post"
        PROVE  Below(j.to, dep'[k].version)
    <2>1. CASE dep[k] # Absent /\ dep'[k].version = dep[k].version
      BY <1>1, <1>3, <2>1 DEF MigrationsServed
    <2>2. CASE pc = "workload" /\ Written(dep'[k], mem)
      BY <1>1, <1>3, <2>2, WalkVersion DEF Written, MigrationInv, RequestNewest, NoLatest
    <2> QED
      BY <1>1, <1>2, <2>1, <2>2, WorkloadStep
  <1>4. ASSUME NEW w \in migrated[d]
        PROVE  Below(w, dep'[k].version)
    <2>1. CASE dep[k] # Absent /\ dep'[k].version = dep[k].version
      BY <1>1, <2>1 DEF MigrationsServed
    <2>2. CASE pc = "workload" /\ Written(dep'[k], mem)
      BY <1>1, <2>2, WalkVersion DEF Written, MigrationInv, RequestNewest, NoLatest
    <2> QED
      BY <1>1, <1>2, <2>1, <2>2, WorkloadStep
  <1>5. ASSUME NEW w \in migrated'[d]
        PROVE  Below(w, dep'[k].version)
    <2>1. CASE w \in migrated[d]
      BY <1>4, <2>1
    <2>2. CASE w \notin migrated[d]
      <3>1. PICK j \in JobKeys : FinishJob(j)
        BY <1>1, <1>5, <2>2, DataStep DEF data, RollOut, NoLatest
      <3>2. j.phase = "post" /\ w = j.to
        BY <1>1, <1>5, <2>2, <3>1 DEF FinishJob, NoLatest
      <3> QED
        BY <1>3, <3>1, <3>2 DEF FinishJob
    <2> QED
      BY <2>1, <2>2
  <1>6. ASSUME NEW j \in JobKeys, jobs'[j].state # "absent", j.phase = "post"
        PROVE  Below(j.to, dep'[k].version)
    <2>1. CASE jobs[j].state # "absent"
      BY <1>3, <1>6, <2>1
    <2>2. CASE pc = "post" /\ j = JobName(mem, "post") /\ UNCHANGED dep
      <3>1. j.to = mem.spec.version /\ dep'[k].version = mem.spec.version
        BY <1>1, <2>2 DEF WalkDeployed, JobName
      <3> QED
        BY <1>1, <2>2, <3>1, WalkVersion, BelowOrder
    <2> QED
      BY <1>1, <1>6, <2>1, <2>2, JobStep DEF FinishJob
  <1> QED
    BY <1>1, <1>5, <1>6

\* Without "latest" no migration is ever taken back.
LEMMA MigratedGrows ==
  ASSUME OrderInv, NoLatest, [Next]_vars
  PROVE  migrated[ironic.spec.db] \subseteq migrated'[ironic.spec.db]
  <1> DEFINE d == ironic.spec.db
  <1>1. TypeOK /\ MigrationsServed /\ d \in Databases
    BY DEF OrderInv, WaitingInv, NoLatest
  <1>2. ASSUME NEW k \in Kinds, RollOut(k)
        PROVE  migrated[d] \subseteq migrated'[d]
    <2>1. /\ dep[k] # Absent
          /\ migrated'[d] = IF d = dep[k].db
                              THEN {v \in migrated[d] : ~Less(dep[k].version, v)}
                              ELSE migrated[d]
      BY <1>1, <1>2 DEF RollOut, Absent
    <2>2. ASSUME NEW v \in migrated[d]
          PROVE  ~Less(dep[k].version, v)
      <3>1. Below(v, dep[k].version) /\ v \in Versions
        BY <1>1, <2>1 DEF MigrationsServed, OrderInv, TypeOK
      <3>2. dep[k].version \in Versions
        BY <1>1, <3>1 DEF TypeOK, Workloads, Below
      <3> QED
        BY <3>1, <3>2, BelowOrder
    <2> QED
      BY <2>1, <2>2
  <1> QED
    BY <1>1, <1>2, DataStep DEF data, FinishJob

\* So does InstalledMigrated.
LEMMA InstalledStep ==
  ASSUME OrderInv, [Next]_vars, ~DatabaseEdits
  PROVE  InstalledMigrated'
  <1> DEFINE d == ironic.spec.db
  <1> SUFFICES ASSUME NoLatest'
               PROVE  /\ Migrated(ironic)' /\ Migrated(cache)' /\ (mem' # None => Migrated(mem)')
                      /\ \A j \in JobKeys : jobs'[j].state = "complete" /\ j.phase = "post"
                                              => j.to \in migrated'[d]
                      /\ pc' = "report" /\ outcome' = "ready" => mem'.spec.version \in migrated'[d]
    BY NoLatestStep DEF OrderInv, InstalledMigrated
  <1>1. /\ TypeOK /\ FreshInv /\ WaitingInv /\ DatabaseInv /\ InstalledMigrated /\ NoLatest
        /\ d \in Databases /\ ironic'.spec.db = d
    BY NoLatestStep DEF OrderInv, WaitingInv, NoLatest
  <1>2. migrated[d] \subseteq migrated'[d]
    BY <1>1, MigratedGrows
  <1>3. Migrated(ironic)'
    <2>1. CASE ironic'.status.installed = ironic.status.installed
      BY <1>1, <1>2, <2>1 DEF InstalledMigrated, Migrated
    <2>2. CASE /\ pc = "report" /\ outcome = "ready" /\ mem = ironic
               /\ ironic'.status.installed = ironic.spec.version
      BY <1>1, <1>2, <2>2 DEF InstalledMigrated, Migrated
    <2> QED
      BY <1>1, <2>1, <2>2, ObjectStep, EditStep
  <1>4. Migrated(cache)' /\ (mem' # None => Migrated(mem)')
    <2>1. ASSUME NEW o, Migrated(o)
          PROVE  o.status.installed # None => o.status.installed \in migrated'[d]
      BY <1>2, <2>1 DEF Migrated
    <2>2. cache' \in {cache, ironic, ironic'} /\ mem' \in {None, mem, cache, ironic'}
      BY <1>1, CopyStep
    <2> QED
      BY <1>1, <1>3, <2>1, <2>2 DEF InstalledMigrated, Migrated
  <1>5. ASSUME NEW j \in JobKeys, jobs'[j].state = "complete", j.phase = "post"
        PROVE  j.to \in migrated'[d]
    <2>1. CASE jobs'[j] = jobs[j]
      BY <1>1, <1>2, <1>5, <2>1 DEF InstalledMigrated
    <2>2. CASE FinishJob(j)
      BY <1>1, <1>5, <2>2 DEF FinishJob, DatabaseInv
    <2> QED
      BY <1>1, <1>5, <2>1, <2>2, JobStep
  <1>6. ASSUME pc' = "report", outcome' = "ready"
        PROVE  mem'.spec.version \in migrated'[d]
    <2>1. CASE UNCHANGED <<pc, mem, outcome>>
      BY <1>1, <1>2, <1>6, <2>1 DEF InstalledMigrated
    <2>2. CASE pc = "service" /\ mem' = mem /\ ~upgradeJobRequired(mem)
      <3>1. mem.spec.version \in Versions /\ mem # None /\ mem.spec.db = d
        BY <1>1, <2>2, WalkVersion
      <3>2. d # NoDatabase /\ mem.spec.version # None
        BY <1>1, <3>1, DatabasesAssumption, NoneAssumption
        DEF DatabasesAssumption, NoneAssumption
      <3> QED
        BY <1>1, <1>2, <2>2, <3>1, <3>2 DEF upgradeJobRequired, InstalledMigrated, Migrated
    <2>3. CASE pc = "post" /\ mem' = mem /\ jobs[JobName(mem, "post")].state = "complete"
      <3>1. JobName(mem, "post") \in JobKeys
        BY <1>1, <2>3 DEF TypeOK, JobName, JobKeys, Objects, Specs, Statuses, Phases
      <3> QED
        BY <1>1, <1>2, <2>3, <3>1 DEF InstalledMigrated, JobName
    <2> QED
      BY <1>6, <2>1, <2>2, <2>3, WalkStep
  <1> QED
    BY <1>3, <1>4, <1>5, <1>6

\* So OrderInv is an invariant.
LEMMA OrderAlways ==
  ASSUME ~Hasty, ~DatabaseEdits
  PROVE  Spec => []OrderInv
  <1> DEFINE Rest == /\ DatabaseInv /\ MigrationInv /\ RequestNewest /\ CopiesAgree
                     /\ WalkDeployed /\ MigrationsServed /\ InstalledMigrated
  <1>1. Init => Rest
    <2> SUFFICES ASSUME Init PROVE Rest
      OBVIOUS
    <2>1. /\ \A k \in Kinds : dep[k] = Absent /\ seen[k] = Absent
          /\ \A j \in JobKeys : jobs[j].state = "absent"
          /\ \A d \in Databases : schema[d] = {} /\ migrated[d] = {}
          /\ pc = "idle" /\ mem = None
          /\ ironic.status.installed = None /\ cache.status.installed = None
      BY DEF Init, NoJob, NoStatus
    <2>2. DatabaseInv /\ MigrationInv
      BY <2>1 DEF DatabaseInv, MigrationInv, Absent
    <2>3. RequestNewest /\ CopiesAgree /\ WalkDeployed /\ MigrationsServed
      BY <2>1 DEF NoLatest, RequestNewest, CopiesAgree, WalkDeployed, MigrationsServed
    <2>4. InstalledMigrated
      BY <2>1 DEF InstalledMigrated, Migrated
    <2> QED
      BY <2>2, <2>3, <2>4
  <1>2. WaitingInv /\ Rest /\ [Next]_vars => Rest'
    <2> SUFFICES ASSUME WaitingInv, Rest, [Next]_vars
                 PROVE  Rest'
      OBVIOUS
    <2>1. OrderInv
      BY DEF OrderInv
    <2> QED
      BY <2>1, MigrationStep, NewestStep, AgreeStep, DeployedStep, ServedStep, InstalledStep
  <1>3. WaitingInv /\ Rest => OrderInv
    BY DEF OrderInv
  <1> HIDE DEF Rest
  <1> QED
    BY WaitingAlways, <1>1, <1>2, <1>3, PTL DEF Spec

\* A database that never saw "latest" is migrated to whatever is reported as
\* installed, for users who wait and leave the database alone: the post-upgrade
\* job comes before InstalledVersion, and nothing older runs on it afterwards.
THEOREM InstalledAlwaysMigrated ==
  ASSUME ~Hasty, ~DatabaseEdits
  PROVE  Spec => []InstalledIsMigrated
  <1>1. OrderInv => InstalledIsMigrated
    BY DEF OrderInv, InstalledMigrated, Migrated, NoLatest, InstalledIsMigrated
  <1> QED
    BY <1>1, OrderAlways, PTL

\* What one step writes is no older than any release that has upgraded the
\* database, unless "latest" is among them.
LEMMA WriteStep ==
  ASSUME OrderInv, [Next]_vars, NEW k \in Kinds,
         dep'[k].db \in Databases,
         <<dep'[k].version, dep'[k].db>> # <<dep[k].version, dep[k].db>>
  PROVE  \/ Latest \in schema[dep'[k].db]
         \/ \A v \in schema[dep'[k].db] : ~Less(dep'[k].version, v)
  <1>1. TypeOK /\ WaitingInv /\ RequestNewest
    BY DEF OrderInv, WaitingInv
  <1>2. dep'[k] # Absent
    BY DatabasesAssumption DEF DatabasesAssumption, Absent
  <1>3. pc = "workload" /\ Written(dep'[k], mem)
    BY <1>1, <1>2, WorkloadStep
  <1>4. /\ dep'[k].version = ironic.status.requested
        /\ dep'[k].version \in Versions
        /\ dep'[k].db = ironic.spec.db
    BY <1>1, <1>3, WalkVersion DEF Written
  <1>5. schema[ironic.spec.db] \subseteq Versions
    BY <1>1, <1>4 DEF TypeOK
  <1> QED
    BY <1>1, <1>4, <1>5, BelowOrder DEF RequestNewest, NoLatest

\* The downgrade guard does what it is for, as long as users wait for one version
\* before they ask for the next: no workload is written for a database that a
\* newer release has upgraded.
THEOREM NeverDowngrades ==
  ASSUME ~Hasty, ~DatabaseEdits
  PROVE  Spec => NoDowngrade
  <1> DEFINE Step ==
        \A k \in Kinds :
          /\ dep'[k].db \in Databases
          /\ <<dep'[k].version, dep'[k].db>> # <<dep[k].version, dep[k].db>>
          => \/ Latest \in schema[dep'[k].db]
             \/ \A v \in schema[dep'[k].db] : ~Less(dep'[k].version, v)
  <1>1. OrderInv /\ [Next]_vars => [Step]_vars
    BY WriteStep
  <1> HIDE DEF Step
  <1>2. Spec => [][Step]_vars
    BY OrderAlways, <1>1, PTL DEF Spec
  <1> QED
    BY <1>2 DEF NoDowngrade, Step

-----------------------------------------------------------------------------
(* The refinement.                                                           *)

\* RunningVersion is the version of the one workload there is.
LEMMA RunningIs ==
  ASSUME OneWorkload
  PROVE  /\ \A k \in Kinds : dep[k] # Absent => RunningVersion = dep[k].version
         /\ (\A k \in Kinds : dep[k] = Absent) => RunningVersion = None
  <1>1. ASSUME NEW k \in Kinds, dep[k] # Absent
        PROVE  RunningVersion = dep[k].version
    <2>1. \A w \in {dep[i] : i \in Kinds} : w # Absent => w = dep[k]
      BY <1>1 DEF OneWorkload, Kinds
    <2>2. (CHOOSE w \in {dep[i] : i \in Kinds} : w # Absent) = dep[k]
      BY <1>1, <2>1
    <2> QED
      BY <1>1, <2>2 DEF RunningVersion
  <1> QED
    BY <1>1 DEF RunningVersion

\* The same after a step.
LEMMA RunningNext ==
  ASSUME OneWorkloadInv, TypeOK, [Next]_vars
  PROVE  /\ \A k \in Kinds : dep'[k] # Absent => RunningVersion' = dep'[k].version
         /\ (\A k \in Kinds : dep'[k] = Absent) => RunningVersion' = None
  <1>1. OneWorkload'
    BY OneWorkloadStep DEF OneWorkloadInv
  <1>2. ASSUME NEW k \in Kinds, dep'[k] # Absent
        PROVE  RunningVersion' = dep'[k].version
    <2>1. \A w \in {dep'[i] : i \in Kinds} : w # Absent => w = dep'[k]
      BY <1>1, <1>2 DEF OneWorkload, Kinds
    <2>2. (CHOOSE w \in {dep'[i] : i \in Kinds} : w # Absent) = dep'[k]
      BY <1>2, <2>1
    <2> QED
      BY <1>2, <2>2 DEF RunningVersion
  <1> QED
    BY <1>2 DEF RunningVersion

\* A database that is not the one of the specification is never touched.
LEMMA OthersUntouched ==
  ASSUME OrderInv, [Next]_vars, NEW d \in Databases, d # ironic.spec.db
  PROVE  schema'[d] = schema[d] /\ migrated'[d] = migrated[d]
  <1>1. TypeOK /\ DatabaseInv
    BY DEF OrderInv, WaitingInv
  <1>2. ASSUME NEW k \in Kinds, RollOut(k)
        PROVE  schema' = schema /\ migrated'[d] = migrated[d]
    <2>1. dep[k].db # d
      BY <1>1, <1>2 DEF RollOut, DatabaseInv, Absent
    <2> QED
      BY <1>2, <2>1 DEF RollOut
  <1>3. ASSUME NEW j \in JobKeys, FinishJob(j)
        PROVE  schema'[d] = schema[d] /\ migrated'[d] = migrated[d]
    <2>1. jobs[j].db # d
      BY <1>1, <1>3 DEF FinishJob, DatabaseInv
    <2> QED
      BY <1>3, <2>1 DEF FinishJob
  <1> QED
    BY <1>2, <1>3, DataStep DEF data

\* The two modules order releases alike.
LEMMA SameOrder ==
  ASSUME NEW v, NEW w
  PROVE  Protocol!Less(v, w) = Less(v, w)
  BY DEF Protocol!Less, Protocol!Compare, Less, Compare, Protocol!Latest, Latest

\* A step that changes neither workloads nor data reports at most a version that
\* the protocol lets it install.
LEMMA InstallImplements ==
  ASSUME OrderInv, ForwardInv, [Next]_vars, ~DatabaseEdits,
         TheDatabase \in Databases, Attached, Attached',
         UNCHANGED <<dep, data>>
  PROVE  [Protocol!Next]_(Protocol!vars)
  <1> DEFINE old == ironic.status.installed
             new == ironic'.status.installed
  <1>1. /\ TypeOK /\ FreshInv /\ WaitingInv /\ InstalledMigrated
        /\ ironic.spec.db = TheDatabase
    BY DEF OrderInv, WaitingInv, Attached
  <1>2. UNCHANGED <<schema, migrated>> /\ RunningVersion' = RunningVersion
    BY DEF data, RunningVersion
  <1>3. CASE new = old
    BY <1>2, <1>3 DEF Protocol!vars
  <1>4. CASE new # old
    <2>1. /\ pc = "report" /\ outcome = "ready" /\ mem = ironic
          /\ new = ironic.spec.version
      BY <1>1, <1>4, ObjectStep, EditStep
    <2>2. new \in Versions
      BY <1>1, <2>1 DEF TypeOK, Objects, Specs
    <2>3. new \in schema[TheDatabase]
      BY <1>1, <2>1 DEF WaitingInv, SchemaInv, WorkerUpgraded
    <2>4. new \in migrated[TheDatabase] \/ Latest \in schema[TheDatabase]
      BY <1>1, <2>1 DEF InstalledMigrated, NoLatest
    <2>5. old = None \/ old = Latest \/ ~Less(new, old)
      BY <1>1, <1>4, ForwardStep
    <2>6. old = None \/ ~Less(new, old)
      BY <2>2, <2>5, BelowOrder
    <2>7. Protocol!Install(new)
      BY <1>2, <2>3, <2>4, <2>6, SameOrder DEF Protocol!Install, Protocol!Latest, Latest
    <2> QED
      BY <2>2, <2>7 DEF Protocol!Next
  <1> QED
    BY <1>3, <1>4

\* A workload is written only for a version the protocol lets it deploy.
LEMMA DeployImplements ==
  ASSUME OrderInv, [Next]_vars, TheDatabase \in Databases, Attached, Attached',
         WriteWorkload, dep' # dep
  PROVE  Protocol!Next
  <1> DEFINE v == mem.spec.version
  <1>1. /\ TypeOK /\ WaitingInv /\ OneWorkloadInv /\ RequestNewest
        /\ ironic.spec.db = TheDatabase /\ pc = "workload"
    BY DEF OrderInv, WaitingInv, Attached, WriteWorkload
  <1>2. v \in Versions /\ mem.spec.db = TheDatabase /\ v = ironic.status.requested
    BY <1>1, WalkVersion
  <1>3. v \in schema[TheDatabase] /\ schema[TheDatabase] \subseteq Versions
    BY <1>1, <1>2 DEF WaitingInv, SchemaInv, WorkerUpgraded, TypeOK
  <1>4. Latest \in schema[TheDatabase] \/ \A w \in schema[TheDatabase] : ~Less(v, w)
    BY <1>1, <1>2, <1>3, BelowOrder DEF RequestNewest, NoLatest
  <1>5. /\ KindOf(mem) \in Kinds
        /\ dep'[KindOf(mem)] = [version |-> v, db |-> mem.spec.db, phase |-> "progressing"]
    BY <1>1, KindsOfObject DEF WriteWorkload, TypeOK
  <1>6. RunningVersion' = v
    <2>1. dep'[KindOf(mem)] # Absent
      BY <1>5 DEF Absent
    <2> QED
      BY <1>1, <1>5, <2>1, RunningNext
  <1>7. UNCHANGED <<ironic, schema, migrated>>
    BY DEF WriteWorkload, object, data
  <1>8. Protocol!Deploy(v)
    BY <1>3, <1>4, <1>6, <1>7, SameOrder DEF Protocol!Deploy, Protocol!Latest, Latest
  <1> QED
    BY <1>2, <1>8 DEF Protocol!Next

\* Pods that come up, or go down, change at most the data, and only after
\* "latest".
LEMMA PodsImplement ==
  ASSUME OrderInv, [Next]_vars, TheDatabase \in Databases, Attached, Attached',
         NEW k \in Kinds, RollOut(k) \/ Degrade(k)
  PROVE  [Protocol!Next]_(Protocol!vars)
  <1>1. /\ TypeOK /\ OneWorkloadInv /\ OneWorkload /\ DatabaseInv
        /\ ironic.spec.db = TheDatabase
    BY DEF OrderInv, WaitingInv, OneWorkloadInv, Attached
  <1>2. /\ dep[k] # Absent /\ dep'[k] # Absent /\ dep'[k].version = dep[k].version
        /\ UNCHANGED <<ironic, schema>>
    <2>1. PICK phase : SetPhase(k, phase) /\ phase # "absent" /\ dep[k].phase # "absent"
      BY DEF RollOut, Degrade
    <2>2. dep'[k] = [dep[k] EXCEPT !.phase = phase]
      BY <1>1, <2>1 DEF SetPhase, TypeOK
    <2>3. dep[k] \in Workloads
      BY <1>1 DEF TypeOK
    <2> QED
      BY <2>1, <2>2, <2>3 DEF Workloads, Absent, RollOut, Degrade, object, data
  <1>3. RunningVersion = dep[k].version /\ RunningVersion' = RunningVersion
    BY <1>1, <1>2, RunningIs, RunningNext
  <1>4. CASE UNCHANGED migrated
    BY <1>2, <1>3, <1>4 DEF Protocol!vars
  <1>5. CASE RollOut(k)
    <2>1. migrated'[TheDatabase] =
            {w \in migrated[TheDatabase] : ~Less(RunningVersion, w)}
      BY <1>1, <1>2, <1>3, <1>5 DEF RollOut, DatabaseInv
    <2>2. CASE Latest \in schema[TheDatabase]
      <3>1. RunningVersion # None
        <4>1. dep[k].version \in schema[TheDatabase]
          BY <1>1, <1>2 DEF OrderInv, WaitingInv, SchemaInv, SchemaReady, DatabaseInv
        <4> QED
          BY <1>1, <1>3, <4>1, NoneAssumption DEF NoneAssumption, TypeOK
      <3>2. Protocol!WriteOldRecords
        BY <1>2, <1>3, <2>1, <2>2, <3>1, SameOrder
        DEF Protocol!WriteOldRecords, Protocol!Latest, Latest
      <3> QED
        BY <3>2 DEF Protocol!Next
    <2>3. CASE Latest \notin schema[TheDatabase]
      <3>1. migrated[TheDatabase] \subseteq migrated'[TheDatabase]
        BY <1>1, <2>3, MigratedGrows DEF NoLatest
      <3>2. migrated'[TheDatabase] = migrated[TheDatabase]
        BY <2>1, <3>1
      <3> QED
        BY <1>2, <1>3, <3>2 DEF Protocol!vars
    <2> QED
      BY <2>2, <2>3
  <1> QED
    BY <1>4, <1>5 DEF Degrade, data

\* A finished job upgrades the schema or migrates the data of its version.
LEMMA JobImplements ==
  ASSUME OrderInv, TheDatabase \in Databases, Attached, Attached',
         NEW j \in JobKeys, FinishJob(j)
  PROVE  Protocol!Next
  <1>1. /\ TypeOK /\ DatabaseInv /\ MigrationInv /\ ironic.spec.db = TheDatabase
    BY DEF OrderInv, WaitingInv, Attached
  <1>2. /\ UNCHANGED <<ironic, dep>> /\ RunningVersion' = RunningVersion
        /\ jobs[j].state = "running" /\ jobs[j].db = TheDatabase
    BY <1>1 DEF FinishJob, DatabaseInv, object, workloads, RunningVersion
  <1>3. j.to \in Versions /\ j.phase \in Phases
    BY DEF JobKeys
  <1>4. CASE j.phase = "pre"
    <2>1. Protocol!UpgradeSchema(j.to)
      BY <1>2, <1>4 DEF FinishJob, Protocol!UpgradeSchema
    <2> QED
      BY <1>3, <2>1 DEF Protocol!Next
  <1>5. CASE j.phase = "post"
    <2>1. j.to \in schema[TheDatabase]
      BY <1>1, <1>2, <1>5 DEF MigrationInv
    <2>2. Protocol!MigrateData(j.to)
      BY <1>2, <1>5, <2>1 DEF FinishJob, Protocol!MigrateData
    <2> QED
      BY <1>3, <2>2 DEF Protocol!Next
  <1> QED
    BY <1>3, <1>4, <1>5 DEF Phases

\* Removing the workload of the other kind withdraws it, if it was there.
LEMMA RemovalImplements ==
  ASSUME OrderInv, [Next]_vars, Attached, Attached', RemoveOtherWorkload, dep' # dep
  PROVE  Protocol!Next
  <1>1. TypeOK /\ OneWorkloadInv /\ OneWorkload
    BY DEF OrderInv, WaitingInv, OneWorkloadInv
  <1>2. /\ dep' = [dep EXCEPT ![OtherKind(mem)] = Absent]
        /\ Kinds = {KindOf(mem), OtherKind(mem)} /\ KindOf(mem) # OtherKind(mem)
        /\ UNCHANGED <<ironic, schema, migrated>>
    BY KindsOfObject DEF RemoveOtherWorkload, object, data
  <1>3. dep[OtherKind(mem)] # Absent
    BY <1>1, <1>2 DEF TypeOK
  <1>4. \A k \in Kinds : dep'[k] = Absent
    BY <1>1, <1>2, <1>3 DEF OneWorkload, TypeOK
  <1>5. RunningVersion' = None
    BY <1>1, <1>4, RunningNext
  <1>6. Protocol!Withdraw
    BY <1>2, <1>5 DEF Protocol!Withdraw
  <1> QED
    BY <1>6 DEF Protocol!Next

\* Every step of the reconciler is a step of the protocol or none.
LEMMA ProtocolStep ==
  ASSUME OrderInv, ForwardInv, [Next]_vars, ~DatabaseEdits, TheDatabase \in Databases
  PROVE  [Protocol!Next]_(Protocol!vars)
  <1>1. Attached' = Attached
    BY NoLatestStep DEF OrderInv, Attached
  <1>2. CASE ~Attached
    <2>1. schema'[TheDatabase] = schema[TheDatabase] /\ migrated'[TheDatabase] = migrated[TheDatabase]
      BY <1>2, OthersUntouched DEF Attached
    <2> QED
      BY <1>1, <1>2, <2>1 DEF Protocol!vars
  <1>3. CASE Attached
    <2> USE <1>1, <1>3 DEF object, workloads, worker, data
    <2>1. CASE UNCHANGED <<dep, data>>
      BY <2>1, InstallImplements
    <2>2. CASE WriteWorkload
      <3>1. UNCHANGED data
        BY <2>2 DEF WriteWorkload
      <3> QED
        BY <2>1, <2>2, <3>1, DeployImplements
    <2>3. CASE RemoveOtherWorkload
      <3>1. UNCHANGED data
        BY <2>3 DEF RemoveOtherWorkload
      <3> QED
        BY <2>1, <2>3, <3>1, RemovalImplements
    <2>4. CASE \E k \in Kinds : RollOut(k) \/ Degrade(k)
      BY <2>4, PodsImplement
    <2>5. CASE \E j \in JobKeys : FinishJob(j)
      BY <2>5, JobImplements
    <2>6. CASE Reconciler /\ ~WriteWorkload /\ ~RemoveOtherWorkload
      <3>1. UNCHANGED <<dep, data>>
        BY <2>6 DEF Reconciler, StartReconcile, RefuseDowngrade, RequestVersion,
                    RefuseResources, AcceptResources, EnsurePreUpgrade, CheckWorkload,
                    EnsureService, EnsurePostUpgrade, UpdateIronicStatus
      <3> QED
        BY <2>1, <3>1
    <2>7. CASE Failures /\ ~\E k \in Kinds : Degrade(k)
      <3>1. UNCHANGED <<dep, data>>
        BY <2>7 DEF Failures, TransientError, Restart, BreakLinked, FailJob,
                    ExpireCompleteJob, RemoveJob
      <3> QED
        BY <2>1, <3>1
    <2>8. CASE /\ Environment /\ ~\E k \in Kinds : RollOut(k)
               /\ ~\E j \in JobKeys : FinishJob(j)
      <3>1. UNCHANGED <<dep, data>>
        BY <2>8 DEF Environment, SyncIronic, SyncWorkload, ExpireFailedJob, RemoveJob,
                    FixLinked, UserEdit
      <3> QED
        BY <2>1, <3>1
    <2>9. CASE UNCHANGED vars
      <3>1. UNCHANGED <<dep, data>>
        BY <2>9 DEF vars
      <3> QED
        BY <2>1, <3>1
    <2> QED
      BY <2>2, <2>3, <2>4, <2>5, <2>6, <2>7, <2>8, <2>9 DEF Next, Environment
  <1> QED
    BY <1>2, <1>3

\* For users who wait for one version before they ask for the next, and leave
\* the database alone, the reconciler implements the upgrade protocol: deploy
\* after the schema, migrate after that, install last, never an older release
\* before "latest".
THEOREM ImplementsUpgradeProtocol ==
  ASSUME ~Hasty, ~DatabaseEdits, Databases # {}
  PROVE  Spec => ImplementsProtocol
  <1>1. TheDatabase \in Databases
    BY DEF TheDatabase
  <1>2. Init => Protocol!Init
    <2> SUFFICES ASSUME Init PROVE Protocol!Init
      OBVIOUS
    <2>1. OneWorkload /\ \A k \in Kinds : dep[k] = Absent
      BY DEF Init, OneWorkload, Kinds
    <2>2. RunningVersion = None /\ ironic.status.installed = None
      BY <2>1, RunningIs DEF Init, NoStatus
    <2> QED
      BY <1>1, <2>2 DEF Init, Protocol!Init
  <1>3. OrderInv /\ ForwardInv /\ [Next]_vars => [Protocol!Next]_(Protocol!vars)
    BY <1>1, ProtocolStep
  <1>4. Init => ForwardInv
    <2> SUFFICES ASSUME Init PROVE ForwardInv
      OBVIOUS
    <2>1. ironic.status.installed = None
      BY DEF Init, NoStatus
    <2> QED
      BY <2>1 DEF Init, ForwardInv, Forward
  <1>5. TypeOK /\ FreshInv /\ ForwardInv /\ [Next]_vars => ForwardInv'
    BY ForwardStep
  <1> QED
    BY TypeCorrect, CopiesFresh, OrderAlways, <1>2, <1>3, <1>4, <1>5, PTL
    DEF Spec, ImplementsProtocol, Protocol!Spec

=============================================================================
