# Ironic Standalone Operator in TLA+

Specifications of the operator that deploys [Ironic](https://ironicbaremetal.org/)
on Kubernetes from one custom resource, `Ironic`: TLA+ modules translated from
the Go code, model-checked with TLC on small instances, with theorems that TLAPS
proves for every instance. Paths below are relative to the repository.

## The system

A controller process watches `Ironic` objects. For each object its work queue
hands out, `IronicReconciler.Reconcile` walks once through `handleIronic`, a
sequence of reads from informer caches and writes to the API server, and either
is done, or is put back in the queue. Nothing is kept in memory between two
walks: all it knows is in the objects. Usually there is one such process; while
the operator itself is replaced there may be two, for leader election is off
unless a flag turns it on.

| Component | State | Operations | Talks to |
|---|---|---|---|
| Ironic reconciler (`internal/controller`) | `status.requestedVersion`, `status.installedVersion`, the Ready condition with its observed generation, the work queue, the copy in hand | `Reconcile`, `handleIronic`, `setNotReady`, `updateIronicStatus` | everything below; users, who write the spec |
| Deployment of Ironic (`pkg/ironic/ironic.go`, `utils.go`, `status.go`) | one Deployment *or* DaemonSet, the Service | `EnsureIronic`, `ensureIronicDeployment`, `ensureIronicDaemonSet`, `ensureIronicService`, status functions | API server; Kubernetes' controllers roll out what is written |
| Exposure (`pkg/ironic/ingress.go`, `servicemonitor.go`) | the Ingress, the ServiceMonitor | `ensureIngress`, `ensureServiceMonitor`, `removeServiceMonitor` | API server, which may not know ServiceMonitors; the names of the Service's ports |
| Database upgrades (`pkg/ironic/upgrades.go`) | two Jobs per pair of versions, the external database | `ensureIronicUpgradeJob` (pre: `database-upgrade`, post: `online-data-migrations`) | Job controller, the database |
| Versions (`api/v1alpha1/version.go`, `pkg/ironic/version.go`) | none | `Compare`, `ParseVersion`, `WithIronicOverrides`, `CheckVersion` | reconciler |
| Validation (`pkg/ironic/validation.go`, webhook) | none | `ValidateIronic` on create and update, `Resources.Validate` on every walk | users, reconciler |
| API credentials (`pkg/ironic/secrets.go`, `ensureAPISecret`) | a Secret and its name in the spec | generate, hash, adopt | reconciler, users |
| Secret manager (`pkg/secretutils`) | the environment label and owner references of Secrets and ConfigMaps | `AcquireSecret`, `ObtainSecret`, ... | label-filtered cache, uncached reader |
| Networking service (`pkg/ironic/networking_deployment.go`) | a second Deployment and Service, two switch Secrets | `EnsureIronicNetworking`, `EnsureNetworkingSwitchSecrets` | API server |
| Lifecycle (`ensureFinalizer`, `cleanUp`) | the finalizer | add first, remove last | garbage collector |
| Pod templates (`pkg/ironic/containers.go`, `utils.go`) | none | `newIronicPodTemplate`, `newMigrationTemplate`, `mergePodTemplates`, overrides | scripts in the containers, which read environment and mounts; API server defaults |
| DHCP (`containers.go`, `validation.go`) | none | `buildDHCPRange`, `buildDHCPOptions`, `ValidateDHCP` | dnsmasq |
| Manager start-up (`cmd/main.go`) | the default version and image, leader election | start and end of the process | reconciler, the election's lease |

What is hard: users edit the spec at any moment, also while an upgrade is under
way; every read may be outdated; a write may be refused (optimistic locking) or
applied without the reply arriving; the process dies between any two calls, and another one with another default
version may take its place or run beside it; jobs and roll-outs take their time,
fail, and are removed after a day; nobody calls the reconciler unless a watch
fires or it asked for it, and not everything is watched.

What makes the components correct:

- reconciler: a Ready condition for the current generation is the truth; it is
  not written from outdated copies; the desired state is reached and reported;
- deployment: one Ironic at a time; nothing is reported as installed before all
  of it is up;
- database: a version runs only on a schema it has upgraded, never goes back to
  an older one, and counts as installed only when the data is migrated;
- validation: the database is never exchanged;
- credentials: the operator fills in a name and never replaces one, writes no old
  password back, and serves the password that is in the secret;
- networking service: it is up before an Ironic that needs it, its pods have the
  secrets as they are, what users bring is not deleted, as far as the cache can
  know that it is theirs, and nothing is left when it is switched off;
- lifecycle: nothing is created for an object that is gone, nothing survives it;
- pod templates: what is ready has what the spec asks for, keeps what others
  added, and is a fixed point of the merge; the template of a job, which cannot be
  changed, is what its spec asks for; what is mounted is there, what a
  container is told to look for is mounted, and the API asks for a password;
- exposure: Service, Ingress and ServiceMonitor name ports that exist, and the
  monitor is there if and only if it is asked for;
- DHCP: pools are disjoint, inside their subnets, and all served;
- operators: no two of them, after or beside each other, take an installed
  version back or run one without its schema; refusals are reported; what is
  reported as ready is what each of them would deploy.

The list of hazards, each at its line and with the properties that would catch
it, is in `PROJECT.json`.

## Modules

| Module | Models |
|---|---|
| `Releases` | the order of releases: `Version.Compare`, with 0 for `latest` |
| `DatabaseUpgrade` | the abstract specification: what the operator promises to an external database |
| `IronicReconcile` | the reconciler, step by step, with users, informers, Kubernetes, the database and failures; its properties; the refinement of `DatabaseUpgrade` |
| `MCReconcile` | values of its constants for TLC |
| `Lifecycle` | finalizer, API credentials, deletion, garbage collection, objects created again |
| `NetworkingService` | switch secrets, the second Deployment and Service, before or without Ironic |
| `Operators` | several instances of the operator with their own default versions, with or without leader election |
| `MCOperators` | values of its constants for TLC |
| `Wiring` | pure: validation of a spec, and the pods built from it with environment, mounts, volumes and ports |
| `Exposure` | workload, Service, Ingress and ServiceMonitor after each other, and what is watched of them |
| `MCExposure` | values of its constants for TLC |
| `PodTemplate` | the desired template of the workload and of the upgrade jobs, overrides, the merge with what the server stored |
| `MCPodTemplate` | values of its constants for TLC |
| `Dhcp` | validation of DHCP ranges and what dnsmasq is given for them |
| `IronicReconcileProofs`, `LifecycleProofs`, `NetworkingServiceProofs`, `OperatorsProofs`, `ExposureProofs`, `PodTemplateProofs`, `DhcpProofs` | theorems about the module of that name |
| `ProtocolProofs` | theorems about `IronicReconcile` for users who wait: the order of upgrades, and the refinement of `DatabaseUpgrade` |

`IronicReconcile` is the walk as seen from versions, workloads and the database.
`Lifecycle` and `NetworkingService` each open up one part of the same walk that
`IronicReconcile` takes as a step (`linked`), and close what it opens up: to
`Lifecycle` the workload is one write, to `NetworkingService` it is only written
with networking or without. `Exposure` opens up what comes after the workload
(`service`), over the pods of `Wiring`, and `Operators` puts several reconcilers
beside each other. `PodTemplate` is the inside of the write of a workload: `Wiring`
says what it contains, `PodTemplate` how it meets what is stored. They share the
way of walking (`StartReconcile`, `Goto`, `EndReconcile`), of caching and of
failing.

### IronicReconcile

`pc` says where in `handleIronic` the reconciler is; every call to the API server
is a step of its own.

| `pc` | Code | Actions |
|---|---|---|
| `idle` | `Reconcile` fetches the object from the cache | `StartReconcile` |
| `version` | the version block, `ironic_controller.go:154-180` | `RefuseDowngrade`, `RequestVersion` |
| `linked` | secrets, config maps, `CheckVersion`, `Resources.Validate` | `RefuseResources`, `AcceptResources` |
| `pre`, `post` | `ensureIronicUpgradeJob` | `EnsurePreUpgrade`, `EnsurePostUpgrade` |
| `remove` | deletion of the other workload | `RemoveOtherWorkload` |
| `workload` | `ensureIronicDeployment` / `DaemonSet`, their status | `WriteWorkload`, `CheckWorkload` |
| `service` | `ensureIronicService` | `EnsureService` |
| `report` | `updateIronicStatus` | `UpdateIronicStatus` |
| any | a call fails; the process dies | `TransientError`, `Restart` |

`ironic` is the object on the API server, `cache` the informer's copy, `mem` the
copy this walk works on, and likewise `dep` and `seen` for the workloads.
Instead of resource versions, `cacheFresh`, `memFresh` and `depFresh` say whether
a copy is the current object, which is all a write asks. `StatusUpdate` is
`Status().Update`: it succeeds only with a current copy, and can fail before or
after the server has applied it. `outcome` is the `ironic.Status` computed so
far. `schema[d]` and `migrated[d]` are the versions whose `database-upgrade` and
`online-data-migrations` have run on database `d`.

Around it: `SyncIronic` and `SyncWorkload` deliver watch events, `RollOut`,
`Degrade`, `FinishJob`, `FailJob`, `ExpireFailedJob` and `ExpireCompleteJob` are
Kubernetes, `BreakLinked` and `FixLinked` the owners of linked secrets,
`UserEdit` a user, held to what the webhook accepts by `Specs` and `ValidUpdate`.
One fact of Ironic itself is part of `RollOut`: an Ironic older than a data
migration writes records in the old format, so the migration is due again.

Left out on purpose: the message of the Ready condition (a new message with the
same reason is a write that only makes the next copy outdated for a moment); lag
of the caches of Jobs and the Service (a missed job is created again and refused,
a missed result is seen later); Ingress, ServiceMonitor and pods, which are in
`Exposure`; the operator's own version and image, which are in `Operators`. All
supported releases are X.0, so a release is its major number.

### DatabaseUpgrade

Four variables and six actions: a release is deployed only when its schema is
upgraded and nothing newer has upgraded it, data is migrated only on an upgraded
schema, and a release is installed only when it is both upgraded and migrated,
and never an older one after a newer one; the last action stands for what an
older Ironic does to records once `latest` has let it in. `IronicReconcile!ImplementsProtocol`
is this specification under the mapping that takes `running` from the workload
that exists and `installed` from the status, while the database is attached.

### Lifecycle

| `pc` | Code | Actions |
|---|---|---|
| `idle` | the cached object; deletion or not; finalizer or not | `StartReconcile` |
| `addFinalizer` | `ensureFinalizer` | `AddFinalizer` |
| `secret` | `ensureAPISecret`: generate, or `AcquireSecret` | `GenerateSecret`, `AcquireSecret`, `RefuseSecret` |
| `name` | the generated name is stored in the spec | `SetName` |
| `claim` | `claimObject`: the owner reference | `ClaimSecret` |
| `htpasswd` | `secretNeedsUpdating`, `UpdateSecret` | `KeepHtpasswd`, `WriteHtpasswd`, `RefuseHtpasswd` |
| `networking`, `workload` | dependents with a controller reference | `EnsureNetworking`, `EnsureWorkload` |
| `report` | `updateIronicStatus` | `Report` |
| `removeNetworking`, `removeFinalizer` | `cleanUp`, `removeFinalizer` | `RemoveNetworking`, `RemoveFinalizer` |
| any | a call fails; the process dies | `TransientError`, `Restart` |

Objects are told apart by their UID, so one that was deleted and created again is
another one. `secrets` is what the server has, `seen` the cache filtered by the
environment label, and `lag` says of each secret whether events are under way and
whether one of them was owned, since only those wake the reconciler. Optimistic
locking is `memFresh` and `heldFresh`, cleared by every change of the object or
the secret in hand. A password is a number and an htpasswd the number of the
password it was made of. The garbage collector removes what belongs to a UID that
no longer exists. Names the server may generate are finitely many: one that
nothing refers to any more may be given again.

Left out: a finalizer removed by hand; two `Ironic` objects that share a secret;
the TLS, CA and config map lookups, which go through the same manager.

### NetworkingService

| `pc` | Code | Actions |
|---|---|---|
| `ensure`, `create`, `obtain` | `EnsureSwitchConfigSecret`, `EnsureSwitchCredentialsSecret`, the secret manager; once for each secret | `EnsureSecret`, `CreateSecret`, `ObtainSecret`, `RefuseSecret` |
| `deployment`, `service`, `check` | `ensureNetworkingDeployment`, `ensureNetworkingService`, `getDeploymentStatus` | `WriteDeployment`, `WriteService`, `CheckDeployment` |
| `drop`, `delete` | `EnsureSwitchConfigSecretDeleted`, `EnsureSwitchCredentialsSecretDeleted` | `DropSecret`, `DeleteSecret` |
| `removeDeployment`, `removeService` | `removeNetworkingResources` | `RemoveDeployment`, `RemoveService` |
| `ironic` | `EnsureIronic` | `WriteIronic` |
| any | a call fails; the process dies | `TransientError`, `Restart` |

A secret is known by its role and by whether its name is the default one. `maker`
stands for the managed label, `env` for the environment label that puts a secret
into the cache, `content` for what is hashed into the annotations of the
template. A user's secret under a default name is a `successor`: it may have come in
the place of one of the operator's (`ReplaceSecret`), and until the cache has it
the operator cannot tell (`Recognized`). The Service is looked up in the cache as
well (`seenSvc`): a walk that does not see it there leaves it, or fails to create
it again, and is repeated. The desired Deployment never equals the stored one, for
the server fills in defaults, so `WriteDeployment` writes every time and fails whenever its
cache lags; on the server the write may change nothing.

Left out: what is reported in the status on the way (`setNotReady`,
`ironic_controller.go:233`), which `IronicReconcile` and `Lifecycle` have; a failed
write of it is a `TransientError` here.

### PodTemplate

`stored` is the template on the API server, `conf` the spec a walk works on.
`CreateOrUpdate` merges (`mergePodTemplates`) what `newIronicPodTemplate` asks for
into what is stored, and either sends the result, or is refused for a doubled
name, or finds nothing to send and is ready. `Defaulted` is the API server. A
container is a name, an image, and three stand-ins: `body` for the fields copied
from the source (`sparse` if one the server fills in is left out), `timing` for
its probe (`none` if it has none, else whose timing), `policy` for the fields the
merge leaves alone (arguments, resources, the pull policy), which the server
completes by the image and which others may set: `TuneContainer` leaves the name of
the container there, so that it is seen whose it was when it turns up elsewhere.
`spec.probe` is an override of the probes of `httpd`. The overrides are lists of at
most `MaxContainers` containers, as many init containers, and `MaxVolumes` volumes;
doubled names among them are allowed, as in the code.

`TemplateFollowsSpec` has two halves. `SpecArrives`: at rest and ready, each list has
the operator's elements and those of the overrides, each name once, and a container
of the overrides has image and probe of its last override. `FieldsOfOthers`: what
mergeContainers does not copy never arrives, and what stands there may pass to
another container in the same place, but not to `ironic` and `httpd`.

With `Database`, `ensureIronicUpgradeJob("pre")` comes before the workload and
`ensureIronicUpgradeJob("post")` after it, the latter also in the walk that writes
the workload (`WriteTemplate`), for it runs parallel to Ironic. `jobs` maps the name
of a job, that is phase and versions, to its template, whether it is done, and
the spec it was made for, which is history. The template of a job cannot be
changed on the server: `Accepts` says that merging finds nothing to change, and
where it finds something the walk fails (`Fails`) and is repeated, until the job
is gone (`ExpireJob`). That a job goes before the operator has looked at its end
takes a day of not running and counts as a failure. `ready` is the spec that is
reported Ready, `installed` the version recorded with it; a walk that reports
*updated* or *in progress* withdraws `ready`. Failing jobs, the roll-out and the
lag of caches are in `IronicReconcile`, where the template of a job is the version
and the database it is for.

### Dhcp

Addresses are a family and a number of `Bits4` or `Bits6` bits, prefixes an
address, canonical or not, and a length; `Bad` is text that does not parse. Users
change one field at a time, and `Accepted` lets through what `ValidateIronic`
lets through. The bounded lists and widths are parameters. `buildDHCPRange` and
`buildDHCPOptions` are sets of lines instead of text; `Router` says what dnsmasq
makes of tagged and untagged options.

### Operators

`pc[o]` says where in `handleIronic` operator `o` is; the labels are those of
`IronicReconcile`, so `StartReconcile` (`idle`), `RefuseDowngrade` and
`RequestVersion` (`version`), `EnsurePreUpgrade` (`pre`), `EnsureWorkload`
(`workload`), `EnsurePostUpgrade` (`post`) and `UpdateIronicStatus` (`report`)
are the same code again, with what `IronicReconcile` leaves out: every operator
has its own default version and image (`VersionFor`, `ImageFor`), informer copy,
work queue and walk. `Start` and `Stop` are the process coming and going, with
nothing kept; `Written` and `NotWritten` are the update of the status under its
lock, with a lost call or a lost reply. `lost` marks the operators whose write of
a refusal failed, which the code does not repeat.

Left out: the topology is fixed, linked objects are there, jobs succeed, and jobs
and workload are read from the server. Leader election is modelled by what it
promises, that nobody starts to lead while another one acts; the lease itself is
controller-runtime's. An operator that waits for a job made with another image
(`Blocks`) waits until the job is removed after its day; other removals of jobs
count as events.

### Wiring

No state: `ValidateIronic` and `Validate` over `Specs`, a record of the fields
that decide about environment, mounts, volumes and ports, and one operator for
each builder of `containers.go`, `upgrades.go` and `networking_deployment.go`,
under its name. An environment variable is a value, a field of the pod, a key of
a secret or the path of a file; names of mounts and paths are the code's; numbers
of ports, addresses and text users write stand for themselves, and are compared,
not computed with. `Linkable` are the objects whose keys matter to what is built.
Of the deprecated fields and the ones that replace them both are there, with
`GetBMCCA` and `GetTrustedCA` to choose.

### Exposure

| `pc` | Code | Actions |
|---|---|---|
| `idle` | `Reconcile` fetches the object and what it links to | `StartReconcile` |
| `workload` | `Resources.Validate`, `ensureIronicDeployment` / `DaemonSet` | `RefuseResources`, `WriteWorkload`, `CheckWorkload` |
| `service` | `ensureIronicService` | `WriteService`, `KeepService` |
| `ingress` | `ensureIngress`, if the spec has one | `WriteIngress`, `KeepIngress` |
| `monitor` | `ensureServiceMonitor`, `removeServiceMonitor` | `CreateMonitor`, `KeepMonitor`, `MissMonitor`, `RemoveMonitor` |
| `report` | `updateIronicStatus` | `Report` |
| any | a call fails; the process dies | `TransientError`, `Restart` |

`spec` and `linked` are what users own, `mem` what the walk has read of both.
Watched are the object, the workload, the Service, secrets it uses, and
ServiceMonitors if the cluster knew them when the operator started (`watching`).
Ingresses and ConfigMaps are not: `unseen` collects changes that nobody was told
of since the last walk began. `Edited` is a user changing any one field of the
spec; `ChangeLinked`, `DeleteService`, `DeleteIngress`, `DeleteMonitor` and
`InstallMonitoring` are others. `getServiceStatus` has no step that waits: it is in
progress as long as the Service has no addresses, which the API server assigns as
it creates one. The properties on files, routes and the monitor
are about a quiet system that is reported ready, and name their exceptions: what
is `unseen`, and two combinations of settings told below (`PlainMedia`, and an
Ingress with high availability).

## Runs

Deadlock checking is off in all runs: once the last edit is dealt with the system
is meant to stop. Every run is bounded by the edits users make (`MaxGeneration`,
one edit less than generations, or `MaxEdits`) and by `MaxFaults`, which counts
failed calls, crashes, lost replies, early expirations and dying pods together.

| Run | Instance | Shows |
|---|---|---|
| `patient` | `IronicReconcile`: releases 35 and 38 and latest, Deployment and DaemonSet, extraRanges, 2 edits one at a time, 1 failure | `OneWorkload`, `InstalledIsMigrated`, `RequestedIsCurrent`, and the refinement `ImplementsProtocol` |
| `converges` | `IronicReconcile`: releases 37 and 38, 2 edits at any moment, 1 failure, fairness | `SchemaReady`, `ReadyMeansInstalled`, `QuiescentIsTruthful`, `InstalledNeverGoesBack`, `Converges` |
| `lifecycle` | 2 objects one after the other, 2 generated names and one of the user's, 2 passwords (one unusable), 3 edits, 1 failure, fairness | `CredentialsCurrent`, `NameKept`, `PasswordKept`, `OwnersExist`, `Settles` |
| `networking` | one switch secret under its default name or one of the user's, users who replace the operator's by their own, 3 edits, 1 failure, fairness | `PodsAreCurrent`, `NothingLeft`, `UserSecretsKept`, `NetworkingFirst`, `Settles` |
| `exposure` | 4 manifests: plain, on a provisioning network with keepalived and DHCP, highly available with TLS and networking, behind an Ingress with monitoring; 2 events, fairness | `MountsBacked`, `FilesMounted`, `ApiAuthenticated`, `OneAddress`, `FilesResolve`, `RoutesResolve`, `MonitorFollows`, `Settles` |
| `operators` | an operator for 37.0 and one for 38.0 with an image of its own; the spec empty, 38.0 or latest; with and without leader election; 1 event, fairness | `RunsOnItsSchema`, `RefusalIsReported`, `ReadyIsAgreed`, `NeverGoesBack`, `Settles` |
| `pod_template` | an external database; up to 2 containers, 2 init containers and 2 volumes in the overrides, 2 edits of the spec or the workload, 1 failure, fairness | `TemplateFollowsSpec`, `DefaultsKept`, `LabelsKept`, `Settles` |
| `dhcp` | addresses of 2 bits (IPv4) and 1 bit (IPv6), 2 extra ranges, 4 updates | `PoolsDisjoint`, `PoolsInSubnet`, `OwnRouters`, `AllServed` |

The type invariants (`TypeOK`) are in no run: for every module with state they
are theorems. `NoDowngrade` is part of what `ImplementsProtocol` promises about a
deployment, and a theorem, for users who wait; without that it fails
(`downgrade_hole`). `InstalledIsMigrated` leaves out databases that have seen
`latest`, for a reason told below.

*At any moment* is `Hasty = TRUE`; *one at a time* means that the version asked
for was installed, or refused, before the next edit. Why these bounds:

- Two releases and latest are enough for an upgrade, an edit to something newer
  and one to something older; two edits for leaving and coming back; one failure
  at any step for every crash point. 35 is older and 38 newer than the release
  that introduced extraRanges, 37. `converges` keeps to one topology, to afford
  edits at any moment; that two workloads never coexist under such edits, either,
  is proved.
- In `exposure` an event is an edit, a deletion, a failure or a restart. Two of
  them reach a setting and the one it depends on, a deletion in the middle of a
  walk, and a key that goes and comes back; a spec is at most two fields away
  from one of the four manifests, which differ from each other in many.
- In `operators` an event is a start, an edit, a lost write or an early removal of
  a job; stopping is free, and the first installation may be one operator's and
  the running one the other. So one event is a replacement at any point of an
  upgrade. The safety properties also hold with two events, over nine million
  states, and three of them are proved.
- Two objects are what deletion and creation under the same name needs; of two
  generated names one can be leaked by a crash and the other one used.
- With one switch secret every order of look-up, creation, replacement, label and
  removal happens; there is none at first (`Prepared`), so that one of a user's under
  a default name is one that came later (`unwatched_secret` starts with one, and the
  proofs cover all). The two secrets go through the same code one after the other;
  that both are gone through is `NextRole`, which the proofs cover for any roles.
- In `pod_template` two edits are an upgrade and the override that comes in the
  middle of it, two upgrades, one given up for the other, a list that grows and
  shrinks, one element put in the place of another, or one with a doubled name; one
  of the two specs to begin with has an override already. The containers on offer
  (`MCPodTemplate`) replace one of the operator's in two ways or are added, with and
  without fields the merge does not copy, and one name is on offer in both lists;
  the one failure is a lost call or a job removed too early. Without a database a walk does what one with the version
  installed does, so that case needs no run of its own (the theorems are about
  both).
- Two bits hold two pools beside, around and inside each other with an address
  to spare, one bit shows a second family; two extra ranges next to the main one
  are what tags, moving up and comparing in pairs need; four updates reach a
  range with begin, end and gateway changed, or two ranges with an edit each.

Fairness is weak throughout. In `IronicReconcile`, `Lifecycle` and
`NetworkingService` (`Fairness`): the work queue hands out what it holds and a
walk continues, as controller-runtime does; watches deliver; Kubernetes rolls
out, finishes jobs and collects garbage; in `IronicReconcile` linked secrets are
eventually repaired. In `PodTemplate` the queue is served and a walk, once
started, ends (`Ends`), in whichever of its ways; jobs end and are removed after
their day, which is what frees an upgrade whose job was made from other overrides. In `Exposure` the queue is
served (`Starts`), a walk goes on (`Continues`) and Kubernetes rolls out
(`RollsOut`). In `Operators` every running operator works off its queue (`Works`)
and hears of changes (`Learns`), jobs finish and those somebody waits for expire
(`Finishes`, `Expires`); nobody is obliged to start or stop an operator, which is
why its `Settles` is about the time when those that run agree.
Users never have to act, and failures, which are bounded, never have to happen; that is what the liveness
properties say: after the last of them, the system gets there.

### What the code does not keep

Four runs check one statement of the repository each and find a behaviour that
violates it.

| Run | Statement | Behaviour |
|---|---|---|
| `downgrade_hole` | `ironic_controller.go:156` no downgrades with a database | 37 installed, edit to 38, schema upgraded, edit back to 37: 37 is deployed on the schema of 38 |
| `late_database` | `containers.go:302` the schema is the job's business | a database attached to an installed Ironic gets no job, and Ironic skips its own synchronisation |
| `unwatched_secret` | `networking_deployment.go:227` secret versions restart the pods | new content in a switch secret that a user brings, and that the Ironic does not own, wakes nobody up |
| `overwritten_defaults` | `utils.go:99` defaulted values are not overridden | a volume or container of the overrides without some defaulted field is written again by every walk, and the Ironic never gets ready |

`patient` shows that the first one needs an edit in the middle of an upgrade,
`converges` that what it checks survives such edits.

Some more behaviours, seen in the same models under other constants, have no run
of their own:

- The name of a job holds its phase and the two versions. An upgrade abandoned
  after its post-upgrade job and repeated within a day finds the finished job,
  though the old version has run in between (`InstalledIsMigrated` with
  `Hasty = TRUE`). Users who wait get there through `latest`, which anything may
  follow: 35, 38, latest, 35, 38 within a day installs 38 over records that 35 has
  written since (`InstalledIsMigrated` without its exception, four edits). The
  attempt to prove that property found this one.
- After going back to the installed version in the middle of an upgrade,
  `requestedVersion` names the abandoned one, for a Ready object
  (`RequestedIsCurrent` with `Hasty = TRUE`).
- The rule against changing the database looks one update back: detach, then
  attach another (`DatabaseEdits = TRUE`, two databases).
- When a user puts a secret of their own in the place of one the operator made,
  under its name, a walk that still has the old one in its cache, or has decided
  on the delete, deletes it as its own: the delete is by name, with no
  precondition on the object that was looked at. `UserSecretsKept` holds outside of
  that window and is false for a successor inside it (`Recognized`).
- A switch secret made under the default name stays when the spec gives another
  name and networking is then switched off; the garbage collector takes it with
  the Ironic. `NothingLeft` is about the names the spec gives.
- A switch secret under a custom name is never created by the operator; `Settles`
  of `NetworkingService` counts it among what the user owes.
- A secret that a user brings for the API credentials gets an owner reference and
  is collected with the Ironic; a crash between creating a secret and storing its
  name leaks one that is collected with the object, too.
- Labels, annotations and the node selector are merged by key or only when set:
  what is taken out of the spec stays on the workload.
- Of a container of the overrides `mergeContainers` copies some fields only
  (`utils.go:76-93`): its arguments, resources and pull policy never arrive at a
  workload or job, although `ironic_types.go:563` says that "the existing container
  is replaced". As containers are merged by position, what the server or somebody else
  put into those fields stays when another container takes the place of the first
  in a list of the same length (`FieldsOfOthers`).
- The containers and init containers of the overrides are put into the pods of both
  upgrade jobs as well (theorem `JobsCarryOverrides`), where one that does not end keeps its job,
  and with it the upgrade, from finishing. `ironic_types.go:562` calls them
  "Containers to append to the main Ironic pod", while it says of annotations,
  labels and volumes that they go to the upgrade jobs.
- Overrides edited in the middle of an upgrade do not reach its job: every walk
  fails, because the template of a job is immutable, until the job is gone or the
  overrides are back (`Fails` in `PodTemplate`). `JobsAccepted` says that nothing
  but such an edit has that effect.
- Two overrides of the container `httpd` are valid for the workload, where the last
  one replaces it, and not for an upgrade job, which has none and gets both: they
  are accepted, and the next upgrade fails until one of them goes (`Invalid`).
- The merge takes only the handler of a probe from the template (`utils.go:85`), so
  the timing that an override gives it, which `containers.go:1048` keeps and
  `ironic_types.go:567` offers for `httpd`, never arrives at the workload.
- With TLS and `disableVirtualMediaTLS` the Service and the Ingress name the port
  `image-svc-tls`, which no container publishes, although `ironic_types.go:257`
  offers that setting for virtual media without TLS; with high availability the
  images of an Ingress go to a port the Service does not have. `RoutesResolve`
  excepts both.
- An Ingress stays when it is taken out of the spec, and one that is deleted is
  only made again by the next walk, which nothing about the Ingress starts. A key
  put back into a ConfigMap leaves the Ironic failed until something else happens.
- Where the cluster knows no ServiceMonitors an Ironic with an exporter never gets
  ready and is tried for ever, although `ironic_controller.go:442` says that it
  "will not be reconciled".
- A highly available Ironic with an exporter that is set but not enabled is
  refused unless it also disables the ServiceMonitor; ports may collide, which
  nothing validates.
- The networking pods take `IRONIC_HTPASSWD` from the API secret, whose version is
  not among their annotations (`networking_deployment.go:227`): they keep the old
  password until something else restarts them.
- Rolling the operator back in the middle of an upgrade gives the `downgrade_hole`
  without any edit: an older Ironic on a newer schema. Without leader election
  the lock on the status keeps the status, not the workload: two operators with
  different defaults write the workload in turns for as long as both run.
- A `spec.version` equal to the operator's default is not the same as an empty one:
  it drops the operator's `--ironic-image`. `--ironic-version` is parsed and not
  compared with `SupportedVersions`, so one the operator does not know gives an
  image without a tag. A job begun with another image blocks the upgrade until
  its day has passed.
- The local tool neither calls `Validate` nor `CheckVersion`, refuses superfluous
  linked objects but not missing ones, and has no upgrade jobs.

### Faulty variants

The definitions under *Faulty variants* in the modules are not used by the
specifications. Each is a definition of the model with one plausible slip; put in
the place of the definition it is named after, it breaks the property it is meant
for, which shows that the property depends on that code.

## Proofs

For every value of the constants: any sets of versions, databases, names and
roles, any widths and lengths of lists, and any numbers of edits and failures.

| Module | Theorem | Property | Assumes besides the module's assumptions |
|---|---|---|---|
| `IronicReconcileProofs` | `TypeCorrect` | `TypeOK` | |
| | `OneWorkloadAlways` | `OneWorkload` | |
| | `SchemaAlwaysReady` | `SchemaReady` | `~DatabaseEdits` |
| | `CopiesFresh` | `FreshInv` | |
| | `ReadyAlwaysMeansInstalled` | `ReadyMeansInstalled` | |
| | `InstalledGoesForward` | `InstalledNeverGoesBack` | `~DatabaseEdits` |
| | `QuiescentAlwaysTruthful` | `QuiescentIsTruthful` | |
| `ProtocolProofs` | `RequestedAlwaysCurrent` | `RequestedIsCurrent` | `~Hasty` |
| | `InstalledAlwaysMigrated` | `InstalledIsMigrated` | `~Hasty`, `~DatabaseEdits` |
| | `NeverDowngrades` | `NoDowngrade` | `~Hasty`, `~DatabaseEdits` |
| | `ImplementsUpgradeProtocol` | `ImplementsProtocol` | `~Hasty`, `~DatabaseEdits`, `Databases # {}` |
| `LifecycleProofs` | `LifecycleTypeCorrect` | `TypeOK` | |
| | `NameAlwaysKept` | `NameKept` | |
| | `PasswordAlwaysKept` | `PasswordKept` | |
| | `OwnersAlwaysExist` | `OwnersExist` | |
| | `CredentialsAlwaysCurrent` | `CredentialsCurrent` | |
| `NetworkingServiceProofs` | `NetworkingTypeCorrect` | `TypeOK` | |
| | `UserSecretsAlwaysKept` | `UserSecretsKept` | |
| | `NetworkingAlwaysFirst` | `NetworkingFirst` | |
| | `NothingEverLeft` | `NothingLeft` | |
| | `PodsAlwaysCurrent` | `PodsAreCurrent` | `~OwnContent` |
| `OperatorsProofs` | `OperatorsTypeCorrect` | `TypeOK` | |
| | `OperatorsNeverGoBack` | `NeverGoesBack` | |
| | `OperatorsRunOnTheirSchema` | `RunsOnItsSchema` | |
| | `OperatorsReportRefusals` | `RefusalIsReported` | |
| | `OperatorsAgreeOnReady` | `ReadyIsAgreed` | |
| `ExposureProofs` | `ExposureTypeCorrect` | `TypeOK` | |
| | `OneAddressAlways` | `OneAddress` | |
| | `ApiAlwaysAuthenticated` | `ApiAuthenticated` | |
| | `MountsAlwaysBacked` | `MountsBacked` | |
| | `FilesAlwaysMounted` | `FilesMounted` | |
| | `FilesAlwaysResolve` | `FilesResolve` | |
| | `RoutesAlwaysResolve` | `RoutesResolve` | |
| | `MonitorAlwaysFollows` | `MonitorFollows` | |
| `PodTemplateProofs` | `PodTemplateTypeCorrect` | `TypeOK` | |
| | `LabelsAlwaysKept` | `LabelsKept` | |
| | `TemplateAlwaysFollows` | `TemplateFollowsSpec` | |
| | `DefaultsAlwaysKept` | `DefaultsKept` | `~Sparse` |
| | `JobsCarryOverrides` | `JobsCarry` | |
| `DhcpProofs` | `DhcpTypeCorrect` | `TypeOK` | |
| | `PoolsAlwaysDisjoint` | `PoolsDisjoint` | |
| | `RoutersAlwaysOwn` | `OwnRouters` | |
| | `RangesAlwaysServed` | `AllServed` | |
| | `PoolsAlwaysInSubnet` | `PoolsInSubnet` | |

- *OneWorkload* needs to know that from the deletion of the other kind to the
  next walk that kind stays absent: `OneWorkloadInv` says so of the steps
  `workload` and later.
- *SchemaReady* is about workloads; what gets there is decided by finished jobs
  and by the installed version in some copy of the object. `SchemaInv` says that
  a finished pre-upgrade job, an installed version in `ironic`, `cache` or `mem`,
  and a walk past its pre-upgrade step all stand for an upgraded schema. That
  fails as soon as a database can be attached later (run `late_database`), hence
  the assumption.
- *CopiesFresh* makes optimistic locking usable in the other proofs: what is
  marked current is the object on the server. From it follows lemma
  `StatusWrites`: every step leaves the object alone, is an edit, or writes one
  of three statuses computed from the very object it replaces.
- *ReadyMeansInstalled* adds that no condition is about a generation to come.
- *InstalledNeverGoesBack*: `ForwardInv` says that, in every copy, the requested
  version is not older than the installed one, and that a walk past the version
  step deploys the installed or the requested version.
- *QuiescentIsTruthful* is not inductive: it says nothing while something goes on.
  `TruthInv` says what a walk may rely on meanwhile. Whatever makes a report wrong
  leaves an entry in the queue or a copy that is not current, whose refresh will
  queue the object (`SeenInv`, `WalkInv`); a walk that is about to report has seen
  what is there, or such a trace is left behind it (`ReportInv`).
- `ProtocolProofs` is about users who wait, and a database they leave alone.
  `RequestsInv` says that at most one version is under way then, and that a walk
  past the version step, however old its copy, has the one recorded last.
  `OrderInv` is about a database that has not seen `latest`: releases come to it
  in order, so the requested version is the newest that schema and jobs know
  (`RequestNewest`), what is deployed is as new as every migration done or under
  way (`MigrationsServed`), and every installed version in any copy, and every
  post-upgrade job that is complete, has been migrated and stays so
  (`InstalledMigrated`); in particular a job that is left over is of this very
  upgrade. `InstalledAlwaysMigrated` and `NeverDowngrades` follow.
- *ImplementsProtocol* is shown step by step: `RunningNext` and its neighbours say
  what each action does to the version that runs, and of all the actions the
  write of a workload, the end of a job, the roll-out and the report map to
  actions of `DatabaseUpgrade`, the others to a stutter. `Databases # {}` is
  needed to name the database the mapping is about.
- `Lifecycle`'s properties are about steps. `ObjectInv` says what the copies of
  the object, current or not, tell about the object: above all, that one with the
  finalizer that is not being deleted is of an object that still exists, since
  only the reconciler, which walks one copy at a time, takes the finalizer away.
  From it follow `NameKept` and `OwnersExist`. `SecretInv` says the same of the
  cached secret and the one in hand, and gives `PasswordKept`.
- *CredentialsCurrent*: a secret with an owner does not change unnoticed
  (`NoticedInv`), a walk on an outdated object is followed by another one
  (`StaleInv`), and what a walk holds of its secret after claiming it is the
  secret, or the owner is about to be told (`HoldInv`). Hence a walk that is not
  followed by another one leaves the current password served (`ServedInv`).
- *UserSecretsKept*: `KeptInv` says that nothing the cache or the walk remembers
  about a name is wrong about a user's secret that has not come after one of the
  operator's. A successor's is safe once it is `Recognized`: `TheirsByReconciler` is
  that no delete starts then, `TheirsByOthers` that no event makes the cache take it
  for the operator's again, `UsersLeaveTheirs` that users take only what they remove.
- *NetworkingFirst*: `OrderInv` follows the Deployment from the write to the
  check, through the cache.
- *NothingLeft*: `LeftInv` says of a walk on its way down which secrets it has
  passed, and that each of them is gone, as are Deployment and Service, unless the
  cache still does not show it or the queue holds the object again. No user makes a
  secret of the operator's.
- *PodsAreCurrent*: the annotations are taken of copies. `ContentInv` says which
  secrets can have changed at all, which are the operator's, and `PodsInv` that
  what was taken of a copy is the content of the present copy, or another walk is
  on its way. With `OwnContent` it fails as in `unwatched_secret`. It leaves
  successors out: a walk may write what it read of a secret that a user's own has
  replaced since, whose arrival wakes nobody.
- `Operators`: `TypeInv` is `TypeOK` with what every copy and every walk holds at
  each step. `NeverGoesBack` follows from `ForwardInv`: a walk's copy that is
  still current is the object, and whoever is past the version step, or has
  recorded a version, has compared it with the installed one. `RunsOnItsSchema`
  follows from `SchemaInv`: complete jobs, installed versions in whatever copy,
  and walks past their job stand for an upgraded schema, for every operator at
  once. `RefusalIsReported` follows from `ReportInv`: an operator that would
  refuse what is on the server has the refusal written there, or has lost that
  write, or will be woken. `ReadyIsAgreed` follows from `AgreedInv`, for each
  operator on its own: what it has found ready is there, or somebody has changed
  it and woken everyone; and one that rests with a current copy agrees with a
  status that says Ready, since the one that wrote it changed the object.
- `Exposure`: `ExposureInv` says that the workload, if there is one, was built from
  some spec that validation let through, not necessarily the present one. What
  remains is about `Wiring`: `PodContainers` says which containers a pod has and
  under which conditions, the lemmas on environments what they are told, and
  `BuiltOneAddress` and `BuiltAuthenticated` put that together with the rules of
  `ValidateIronic`.
- *MountsBacked* and *FilesMounted*: volumes and mounts are put together from parts.
  `Fits` says of a part which names and paths it may use, each once, and that its
  mounts have volumes; two parts that share no name and no path fit together
  (`FitsTogether`), and what one of them `Shows` at a path the whole does, too. The
  parts of the three kinds of pods are disjoint, whichever of them there are.
- *FilesResolve*, *RoutesResolve* and *MonitorFollows* are about a system at rest,
  and not inductive. `WalkInv` says that a walk nothing was queued behind works on
  the present spec and on linked objects that have not changed but unseen,
  `FoundInv` that what it has found ready and passed still stands, and `ServedInv`
  that it does so after the walk (`Stands`): whatever changes any of it queues the
  object or is recorded in `unseen`. `FilesResolve` needs in addition that a key
  comes with a reference (`KeyOfReference`; the key is a field of it, so no object
  could be otherwise), and that validation found the key in the object.
- `PodTemplate`: `LabelsInv` adds to the types that a workload that exists has the
  operator's version label; `WrittenLabels` is the merge of three maps.
- *TemplateFollowsSpec*: `ReadyInv` says that a walk without an entry in the queue
  behind it works on the present spec, and that at rest merging changes nothing of
  what is stored (`mergePodTemplates` gives `stored` back). `StaysFollows` shows
  that such a template is what the spec asks for, with `AppliedOverrides` on what
  the overrides make of a list: no name is lost or added. The lists have any
  length. `applyContainerOverrides` takes the last override of a name and appends
  those of no name in their order, so its lemmas need that a last position
  (`GreatestPosition`) and an ordered enumeration of some positions
  (`OrderComplete`) exist. Both would be inductions over the length; instead, a
  set of naturals has a least element (`LeastNatural`), which is taken of the
  lengths that fail.
  Its second half, *FieldsOfOthers*, holds at every step: `Shape` says that `ironic` and
  `httpd` come first, that only what the server completed or somebody set is in
  the fields left alone, and that the first two hold none but their own; `FilledStays`
  that a merge with anything that is asked for keeps that.
- *DefaultsKept* is inductive for overrides that leave nothing out (`~Sparse`). For
  the workload (`WorkloadKept`), `WrittenStays` says that a merged and completed template is merged into itself,
  and `LabelledStays` that it still is once others have labelled it, and
  `TunedTemplateStays` once they have set a field the merge leaves alone. With `Sparse`
  it is false, as `overwritten_defaults` shows. The lemmas are about any template
  that leaves out nothing (`LeavesNothingOut`), that of a job included.
  Its second half, *JobsAccepted*, adds that a job that was made is merged into
  itself (`MadeJob`), and that no step does anything to a job but make it, end it or
  remove it (`JobsChange`, part of `InvStep`). `JobsCarryOverrides` follows from the
  same two facts.
- `Dhcp`: `Stored` and `StoredParsed` say that what is stored was accepted, in
  whatever order it was edited; `CommonAddress` that pools which share an address
  overlap in the sense of the code. Routers and ranges are then a matter of the
  lists, of any length. *PoolsInSubnet* is `RangeInSubnet`: addresses between two
  of the same subnet are of that subnet. It divides by the number of hosts, a power
  of two, and that powers of two are positive is the one truth of arithmetic which
  cannot be proved here, for the provers have no rule about `^`; the assumption
  `PowersArePositive` of `Dhcp` states it for the widths at hand. It excludes no
  value of the constants.

Only model-checked: `Converges` and all `Settles`, which are liveness under
fairness. Every invariant and action property that a passing run checks, and the
refinement, is a theorem, under the assumptions in the table.

## Plan

Done: the core in the order `Releases`, `DatabaseUpgrade`, `IronicReconcile`; then
`NetworkingService`, `Lifecycle`, `PodTemplate` and `Dhcp`; then `Wiring`,
`Exposure` and `Operators`; runs and proofs as above. Next, most important first:

1. A reference specification of a declared template, with `PodTemplate` shown to
   implement it. (The networking Deployment takes no overrides and is not merged.)
2. Parsing of versions and images, with the set of supported ones.

Not modelled: the local command-line tool, which writes the same pods for podman
and reconciles nothing; TLS settings and the remaining flags of the manager, read
once and handed to the libraries; events and logs; generated code; test and
release tools; checks of the syntax of single fields in the webhook (agent
images, VLANs). The components and their status are in `PROJECT.json`.
