------------------------------ MODULE PodTemplate ------------------------------
(***************************************************************************)
(* The pod template of the Ironic workload: what newIronicPodTemplate asks *)
(* for, the overrides users put on top, and the merge into the object that *)
(* the API server has completed with its defaults and that others may have *)
(* annotated (pkg/ironic/utils.go, containers.go).  With a database, jobs   *)
(* with the same overrides and the same merge come before and after it     *)
(* (pkg/ironic/upgrades.go), and their templates cannot be changed.        *)
(*                                                                         *)
(* A container is told apart by its name and image, by what the merge does *)
(* to its fields and by what the API server does: the body stands for the  *)
(* other fields copied from the source, sparse if some field the server    *)
(* has a default for is left out; the timing is that of its probe; the     *)
(* policy stands for the fields the merge leaves alone, such as            *)
(* imagePullPolicy, args and resources: the server completes it, and what  *)
(* others put there is told apart by the container they put it on.         *)
(* The lag of the caches, failing jobs and the roll-out are the subject of *)
(* IronicReconcile and left out.                                           *)
(***************************************************************************)
EXTENDS SequencesExt

CONSTANTS
  Database,     \* is there an external database, which versions upgrade by jobs
  UserContainers, UserInits, UserVolumes,   \* what users may put into spec.overrides
  FirstSpecs,   \* what users may create an Ironic object with
  MaxContainers, MaxVolumes,   \* bounds on the lists of the overrides
  MaxEdits,     \* bound on what users and others do
  MaxFaults     \* bound on failures

Images == {"fixed", "latest"}
Bodies == {"sparse", "complete"}

Overriding == [name : STRING, image : Images, body : Bodies,
               timing : {"none", "user"}, policy : {"unset", "user"}]

ASSUME PodTemplateBounds ==
  /\ Database \in BOOLEAN
  /\ UserContainers \cup UserInits \subseteq Overriding
  /\ \A c \in UserContainers \cup UserInits : c.name \notin {"unset", "user"}
  /\ UserVolumes \subseteq [name : STRING, body : Bodies]
  /\ MaxContainers \in Nat /\ MaxVolumes \in Nat
  /\ MaxEdits \in Nat /\ MaxFaults \in Nat

\* May users leave out fields the API server has a default for.
Sparse == \E c \in UserContainers \cup UserInits \cup UserVolumes : c.body = "sparse"

\* The labels the operator sets, users set in the overrides, and others set on
\* the workload; annotations are treated alike.
Labels == [{"version", "mine", "other"} -> {"none", "user"} \cup Images]

Specs == [image : Images, downloader : BOOLEAN, node : {"any", "chosen"},
          containers : BoundedSeq(UserContainers, MaxContainers),
          initContainers : BoundedSeq(UserInits, MaxContainers),
          volumes : BoundedSeq(UserVolumes, MaxVolumes),
          labels : SUBSET {"version", "mine"}, probe : BOOLEAN]

ASSUME FirstSpecsTyped == FirstSpecs \subseteq Specs

Absent == [initContainers |-> <<>>, containers |-> <<>>, volumes |-> <<>>, node |-> "any",
           labels |-> [k \in {"version", "mine", "other"} |-> "none"]]
NoSpec == [image |-> "none"]

\* The jobs: a name holds the phase and the versions.  What a job was made for
\* is history.
Phases == {"pre", "post"}
JobNames == [phase : Phases, from : {"none"} \cup Images, to : Images]
NoJob == [template |-> Absent, done |-> FALSE, for |-> NoSpec]

VARIABLES
  spec,      \* the Ironic object: version and overrides
  conf,      \* the copy a reconcile works on, NoSpec between reconciles
  stored,    \* the template of the workload on the API server
  applied,   \* the spec of the last write, unless others changed the result
  ready,     \* the spec reported Ready, NoSpec while none is
  installed, \* status.installedVersion
  jobs,      \* the upgrade jobs, by name
  queued,    \* the work queue holds the object
  edits,     \* edits so far
  faults     \* failures so far

vars == <<spec, conf, stored, applied, ready, installed, jobs, queued, edits, faults>>

Names(list) == {c.name : c \in Range(list)}

\* A name is taken twice, other than those that there is a place for.
Twice(list, own) ==
  \E i, j \in DOMAIN list : i < j /\ list[i].name = list[j].name /\ list[i].name \notin own

Container(name, image, timing) ==
  [name |-> name, image |-> image, body |-> "complete", timing |-> timing, policy |-> "unset"]
Blank == Container("", "", "none")

TypeOK ==
  /\ spec \in Specs
  /\ {conf, applied, ready} \subseteq Specs \cup {NoSpec}
  /\ DOMAIN stored = DOMAIN Absent
  /\ stored.labels \in Labels
  /\ installed \in {"none"} \cup Images
  /\ DOMAIN jobs = JobNames
  /\ \A n \in JobNames :
       /\ DOMAIN jobs[n] = DOMAIN NoJob
       /\ jobs[n].done \in BOOLEAN
       /\ jobs[n].for \in Specs \cup {NoSpec}
       /\ jobs[n].template = Absent <=> jobs[n].for = NoSpec
  /\ queued \in BOOLEAN
  /\ edits \in 0 .. MaxEdits
  /\ faults \in 0 .. MaxFaults

-----------------------------------------------------------------------------
(* Faulty variants of definitions below, one plausible slip each.  Nothing    *)
(* uses them; put in place of the definition they are named after, each one   *)
(* breaks a property.                                                         *)

\* mergeMaps with the priority the other way round.
mergeMapsSwapped(m1, m2) == [k \in DOMAIN m1 |-> IF m2[k] # "none" THEN m2[k] ELSE m1[k]]

\* mergeContainers that copies the whole container.
mergeContainersWhole(target, source) == source

\* EndReconcile that drops the requeue.
EndReconcileForgetful(requeue) ==
  /\ conf' = NoSpec
  /\ queued' = queued

-----------------------------------------------------------------------------
(* What is asked for. *)

\* Merge maps, keys from m1 have priority over ones from m2.
mergeMaps(m1, m2) == [k \in DOMAIN m1 |-> IF m1[k] # "none" THEN m1[k] ELSE m2[k]]

\* The elements of a list in some of its positions, in their order.
Those(list, positions) ==
  LET order == CHOOSE f \in [1 .. Cardinality(positions) -> positions] :
                 \A i, j \in DOMAIN f : i < j => f[i] < f[j]
  IN  [i \in DOMAIN order |-> list[order[i]]]

\* The last override with a name takes the place of the existing element;
\* those left over are appended, the doubled ones doubled.
applyContainerOverrides(existing, overrides) ==
  LET Named(n) == SelectLastInSeq(overrides, LAMBDA o : o.name = n)
  IN  [i \in DOMAIN existing |->
         IF existing[i].name \in Names(overrides)
           THEN overrides[Named(existing[i].name)] ELSE existing[i]]
      \o Those(overrides, {i \in DOMAIN overrides : overrides[i].name \notin Names(existing)})

applyVolumeOverrides(existing, overrides) == applyContainerOverrides(existing, overrides)

\* Built-in labels are always preserved.
applyOverridesToPod(s, template) ==
  [template EXCEPT
     !.labels = mergeMaps(@, [k \in DOMAIN @ |-> IF k \in s.labels THEN "user" ELSE "none"]),
     !.containers = applyContainerOverrides(@, s.containers),
     !.initContainers = applyContainerOverrides(@, s.initContainers),
     !.volumes = applyVolumeOverrides(@, s.volumes)]

newIronicPodTemplate(s) ==
  applyOverridesToPod(s,
    [initContainers |-> IF s.downloader
                          THEN <<Container("ramdisk-downloader", s.image, "none")>> ELSE <<>>,
     containers |-> <<Container("ironic", s.image, "operator"),
                      Container("httpd", s.image, IF s.probe THEN "user" ELSE "operator")>>,
     volumes |-> <<[name |-> "ironic-shared", body |-> "complete"]>>,
     node |-> s.node,
     labels |-> [version |-> s.image, mine |-> "none", other |-> "none"]])

commandPerPhase == [pre |-> "database-upgrade", post |-> "online-data-migrations"]

newMigrationTemplate(s, phase) ==
  applyOverridesToPod(s,
    [Absent EXCEPT !.containers = <<Container(commandPerPhase[phase], s.image, "none")>>,
                   !.volumes = <<[name |-> "ironic-shared", body |-> "complete"]>>,
                   !.labels["version"] = s.image])

-----------------------------------------------------------------------------
(* How it is merged. *)

\* The timing already there stays, and is the operator's if there is none.
updateProbe(current) == IF current = "none" THEN "operator" ELSE current

mergeContainers(target, source) ==
  LET old == IF Len(target) = Len(source) THEN target ELSE [i \in DOMAIN source |-> Blank]
  IN  [i \in DOMAIN source |->
         [source[i] EXCEPT
            !.timing = IF @ = "none" THEN "none" ELSE updateProbe(old[i].timing),
            !.policy = old[i].policy]]

\* mergePodTemplates that merges the volumes as well (a faulty variant).
mergePodTemplatesAddVolumes(target, source) ==
  [initContainers |-> mergeContainers(target.initContainers, source.initContainers),
   containers |-> mergeContainers(target.containers, source.containers),
   volumes |-> applyVolumeOverrides(target.volumes, source.volumes),
   node |-> IF source.node # "any" THEN source.node ELSE target.node,
   labels |-> mergeMaps(source.labels, target.labels)]

mergePodTemplates(target, source) ==
  [initContainers |-> mergeContainers(target.initContainers, source.initContainers),
   containers |-> mergeContainers(target.containers, source.containers),
   volumes |-> source.volumes,
   node |-> IF source.node # "any" THEN source.node ELSE target.node,
   labels |-> mergeMaps(source.labels, target.labels)]

\* The API server completes what it stores.
Defaulted(t) ==
  LET Complete(list) ==
        [i \in DOMAIN list |->
           [list[i] EXCEPT
              !.body = "complete",
              !.policy = IF @ # "unset" THEN @
                         ELSE IF list[i].image = "latest" THEN "Always" ELSE "IfNotPresent"]]
  IN  [t EXCEPT !.initContainers = Complete(@), !.containers = Complete(@),
                !.volumes = [i \in DOMAIN @ |-> [@[i] EXCEPT !.body = "complete"]]]

\* It labels the pods of a job with the job.
Labelled(t) == [t EXCEPT !.labels["other"] = "user"]

\* It refuses two elements of one name; containers of both kinds share theirs.
Refused(t) ==
  \/ Twice(t.initContainers, {}) \/ Twice(t.containers, {}) \/ Twice(t.volumes, {})
  \/ Names(t.initContainers) \cap Names(t.containers) # {}

-----------------------------------------------------------------------------
(* The reconciler. *)

Init ==
  /\ spec \in FirstSpecs
  /\ conf = NoSpec
  /\ stored = Absent
  /\ applied = NoSpec
  /\ ready = NoSpec
  /\ installed = "none"
  /\ jobs = [n \in JobNames |-> NoJob]
  /\ queued = TRUE
  /\ edits = 0
  /\ faults = 0

StartReconcile ==
  /\ conf = NoSpec
  /\ queued
  /\ conf' = spec
  /\ queued' = FALSE
  /\ UNCHANGED <<spec, stored, applied, ready, installed, jobs, edits, faults>>

EndReconcile(requeue) ==
  /\ conf' = NoSpec
  /\ queued' = (queued \/ requeue)

upgradeJobRequired(s) == Database /\ s.image # installed

JobName(s, phase) == [phase |-> phase, from |-> installed, to |-> s.image]
JobOf(s, phase) == jobs[JobName(s, phase)]

\* The template of a job that is there is immutable.
Accepts(job, s, phase) ==
  mergePodTemplates(job.template, newMigrationTemplate(s, phase)) = job.template

\* The job is over, or there is none to run.
Upgraded(s, phase) ==
  upgradeJobRequired(s) => JobOf(s, phase).done /\ Accepts(JobOf(s, phase), s, phase)

\* The job still runs; its end is heard of.
Awaits(s, phase) ==
  /\ JobOf(s, phase).template # Absent
  /\ ~JobOf(s, phase).done
  /\ Accepts(JobOf(s, phase), s, phase)

\* What the server refuses is an error: the status stays, and it is tried again.
Fails(s, phase) ==
  /\ upgradeJobRequired(s)
  /\ IF JobOf(s, phase) = NoJob
       THEN Refused(mergePodTemplates(Absent, newMigrationTemplate(s, phase)))
       ELSE ~Accepts(JobOf(s, phase), s, phase)

CreateJob(phase) ==
  LET merged == mergePodTemplates(Absent, newMigrationTemplate(conf, phase))
      job    == [template |-> Labelled(Defaulted(merged)), done |-> FALSE, for |-> conf]
  IN  /\ jobs' = IF upgradeJobRequired(conf) /\ JobOf(conf, phase) = NoJob /\ ~Refused(merged)
                   THEN [jobs EXCEPT ![JobName(conf, phase)] = job] ELSE jobs
      /\ ready' = IF Fails(conf, phase) THEN ready ELSE NoSpec

ensureIronicUpgradeJob(phase) ==
  /\ ~Upgraded(conf, phase)
  /\ CreateJob(phase)
  /\ EndReconcile(~Awaits(conf, phase))
  /\ UNCHANGED <<spec, stored, applied, installed, edits, faults>>

\* What differs is sent; the result is reported as updated, and
\* the object comes back, though on the server nothing may have changed.  The
\* job after it runs parallel to Ironic.
WriteTemplate(merged) ==
  /\ merged # stored
  /\ ~Refused(merged)
  /\ stored' = Defaulted(merged)
  /\ applied' = conf
  /\ CreateJob("post")
  /\ EndReconcile(TRUE)
  /\ UNCHANGED <<spec, installed, edits, faults>>

RefuseTemplate(merged) ==
  /\ Refused(merged)
  /\ EndReconcile(TRUE)
  /\ UNCHANGED <<spec, stored, applied, ready, installed, jobs, edits, faults>>

\* Nothing to send: the workload is what it should be.
ReportReady(merged) ==
  /\ merged = stored
  /\ Upgraded(conf, "post")
  /\ ready' = conf
  /\ installed' = conf.image
  /\ EndReconcile(FALSE)
  /\ UNCHANGED <<spec, stored, applied, jobs, edits, faults>>

CreateOrUpdate ==
  /\ conf # NoSpec
  /\ LET merged == mergePodTemplates(stored, newIronicPodTemplate(conf))
     IN  \/ ensureIronicUpgradeJob("pre")
         \/ /\ Upgraded(conf, "pre")
            /\ \/ WriteTemplate(merged)
               \/ RefuseTemplate(merged)
               \/ merged = stored /\ ensureIronicUpgradeJob("post")
               \/ ReportReady(merged)

TransientError ==
  /\ conf # NoSpec
  /\ faults < MaxFaults
  /\ faults' = faults + 1
  /\ EndReconcile(TRUE)
  /\ UNCHANGED <<spec, stored, applied, ready, installed, jobs, edits>>

-----------------------------------------------------------------------------
(* The job controller; what happens to a job queues the Ironic object. *)

FinishJob(n) ==
  /\ jobs[n] # NoJob /\ ~jobs[n].done
  /\ jobs' = [jobs EXCEPT ![n].done = TRUE]
  /\ queued' = TRUE
  /\ UNCHANGED <<spec, conf, stored, applied, ready, installed, edits, faults>>

\* ttlSecondsAfterFinished: that the day passes before the operator has looked at
\* a job made for this very spec counts as a failure.
ExpireJob(n) ==
  /\ jobs[n].done
  /\ IF jobs[n].for = spec
       THEN faults < MaxFaults /\ faults' = faults + 1 ELSE faults' = faults
  /\ jobs' = [jobs EXCEPT ![n] = NoJob]
  /\ queued' = TRUE
  /\ UNCHANGED <<spec, conf, stored, applied, ready, installed, edits>>

-----------------------------------------------------------------------------
(* Users and others; an edit of one of the objects queues the Ironic object. *)

Edit ==
  /\ edits < MaxEdits
  /\ edits' = edits + 1
  /\ queued' = TRUE
  /\ UNCHANGED <<conf, ready, installed, jobs, faults>>

\* One element more, the first one less, or another in the place of one.
Edited(list, elements, most) ==
  {l \in BoundedSeq(elements, most) :
     \/ \E c \in elements : l = Append(list, c)
     \/ list # <<>> /\ l = Tail(list)
     \/ \E i \in DOMAIN list, c \in elements : l = [list EXCEPT ![i] = c]}

EditSpec ==
  /\ Edit
  /\ \/ \E i \in Images : spec' = [spec EXCEPT !.image = i]
     \/ spec' = [spec EXCEPT !.downloader = ~@]
     \/ \E n \in {"any", "chosen"} : spec' = [spec EXCEPT !.node = n]
     \/ \E list \in Edited(spec.containers, UserContainers, MaxContainers) :
          spec' = [spec EXCEPT !.containers = list]
     \/ \E list \in Edited(spec.initContainers, UserInits, MaxContainers) :
          spec' = [spec EXCEPT !.initContainers = list]
     \/ \E list \in Edited(spec.volumes, UserVolumes, MaxVolumes) :
          spec' = [spec EXCEPT !.volumes = list]
     \/ \E k \in {"version", "mine"} : spec' = [spec EXCEPT !.labels = @ \cup {k}]
     \/ spec' = [spec EXCEPT !.labels = {}]
     \/ spec' = [spec EXCEPT !.probe = ~@]
  /\ spec' # spec
  /\ UNCHANGED <<stored, applied>>

\* "kubectl rollout restart" and the like.
LabelWorkload ==
  /\ Edit
  /\ stored # Absent
  /\ stored' = [stored EXCEPT !.labels["other"] = "user"]
  /\ stored' # stored
  /\ UNCHANGED <<spec, applied>>

\* Somebody sets a field the merge leaves alone on a container of the workload.
TuneContainer ==
  /\ Edit
  /\ \E i \in DOMAIN stored.containers :
       stored' = [stored EXCEPT !.containers[i].policy = stored.containers[i].name]
  /\ stored' # stored
  /\ UNCHANGED <<spec, applied>>

\* Somebody edits the image of a container of the workload.
EditWorkload ==
  /\ Edit
  /\ \E i \in DOMAIN stored.containers, image \in Images :
       stored' = [stored EXCEPT !.containers[i].image = image]
  /\ stored' # stored
  /\ applied' = NoSpec
  /\ spec' = spec

Next ==
  \/ StartReconcile
  \/ CreateOrUpdate
  \/ TransientError
  \/ \E n \in JobNames : FinishJob(n) \/ ExpireJob(n)
  \/ EditSpec
  \/ LabelWorkload
  \/ TuneContainer
  \/ EditWorkload

Spec == Init /\ [][Next]_vars

\* The queue is served, a reconcile that was started ends in some way, and jobs
\* end and are removed after their day.
Ends == conf # NoSpec /\ conf' = NoSpec

FairSpec ==
  /\ Spec
  /\ WF_vars(StartReconcile) /\ WF_conf(Ends)
  /\ WF_jobs(\E n \in JobNames : FinishJob(n))
  /\ WF_jobs(\E n \in JobNames : ExpireJob(n))

-----------------------------------------------------------------------------
(* Properties. *)

\* A list has its own elements and the overrides, each name once: of several
\* overrides of one name the last, else the operator's own.
Carries(list, own, image, overrides) ==
  /\ Names(list) = own \cup Names(overrides)
  /\ ~Twice(list, {})
  /\ \A c \in Range(list) :
       IF c.name \notin Names(overrides) THEN c.image = image
       ELSE \E i \in DOMAIN overrides :
              /\ overrides[i].name = c.name
              /\ \A j \in DOMAIN overrides : j > i => overrides[j].name # c.name
              /\ c.image = overrides[i].image
              /\ c.timing = "none" <=> overrides[i].timing = "none"

BuiltInits(s) == IF s.downloader THEN {"ramdisk-downloader"} ELSE {}

\* "If a container name matches an existing container, the existing container
\* is replaced", else it is appended; the same for init containers and volumes.
\* What is ready has what its spec asks for and nothing besides, whatever was in
\* the lists before; only labels and a node that were asked for earlier stay.
SpecArrives ==
  ready = spec /\ ~queued /\ conf = NoSpec =>
    /\ Carries(stored.containers, {"ironic", "httpd"}, spec.image, spec.containers)
    /\ Carries(stored.initContainers, BuiltInits(spec), spec.image, spec.initContainers)
    /\ Names(stored.volumes) = {"ironic-shared"} \cup Names(spec.volumes)
    /\ spec.node = "chosen" => stored.node = "chosen"
    /\ stored.labels["version"] = spec.image
    /\ "mine" \in spec.labels => stored.labels["mine"] = "user"

\* Not all of a container gets there, though: mergeContainers copies some fields
\* and of a probe the handler, so a user's timing and policy never arrive, and
\* are what the operator and the server choose or others put there.  Lists of one
\* length are merged by position: what others put on a container may pass on to
\* the next one in its place, but never to one that every pod has.
FieldsOfOthers ==
  /\ \A c \in Range(stored.containers) \cup Range(stored.initContainers) :
       c.timing # "user" /\ c.policy \notin {"unset", "user"}
  /\ \A c \in Range(stored.containers) :
       c.name \in {"ironic", "httpd"} => c.policy \in {c.name, "Always", "IfNotPresent"}

TemplateFollowsSpec == SpecArrives /\ FieldsOfOthers

\* "Always preserve built-in annotations and labels": a workload never carries
\* a user's value for a label of the operator, which its Service selects by;
\* and what others put there is never taken away.
LabelsKept ==
  [][/\ stored' # Absent => stored'.labels["version"] \in Images
     /\ stored.labels["other"] = "user" => stored'.labels["other"] = "user"]_vars

\* mergePodTemplates takes "care to avoid overriding defaulted values": once a
\* spec is written, the server's completions included, there is nothing more
\* to write for it, unless somebody changes the workload.
WorkloadKept ==
  applied # NoSpec =>
    mergePodTemplates(stored, newIronicPodTemplate(applied)) = stored

\* The same of the jobs, which cannot be changed but only left alone: or else the
\* upgrade would wait for the job to be removed.
JobsAccepted ==
  \A n \in JobNames : jobs[n] # NoJob => Accepts(jobs[n], jobs[n].for, n.phase)

DefaultsKept == WorkloadKept /\ JobsAccepted

\* The merge reaches a fixed point: after the last edit the workload gets
\* ready, after its jobs, unless the overrides do not give a valid pod: a name is
\* used twice.  Two of the container httpd do for the workload, which has one to
\* replace, not for a job; the same of ramdisk-downloader, if that is disabled.
Invalid ==
  \/ Twice(spec.containers, {"ironic", "httpd"}) \/ Twice(spec.initContainers, BuiltInits(spec))
  \/ Twice(spec.volumes, {"ironic-shared"})
  \/ (BuiltInits(spec) \cup Names(spec.initContainers))
       \cap ({"ironic", "httpd"} \cup Names(spec.containers)) # {}
  \/ /\ upgradeJobRequired(spec)
     /\ \E phase \in Phases :
          \/ Twice(spec.containers, {commandPerPhase[phase]}) \/ Twice(spec.initContainers, {})
          \/ commandPerPhase[phase] \in Names(spec.initContainers)

Settles == <>[](ready = spec \/ Invalid)
=============================================================================
