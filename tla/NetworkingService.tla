-------------------------- MODULE NetworkingService --------------------------
(***************************************************************************)
(* The Ironic networking service (pkg/ironic/networking_deployment.go):    *)
(* two switch secrets, which the operator creates unless users bring their *)
(* own, a second Deployment that mounts them, and its Service.  A          *)
(* reconcile brings them up before Ironic itself, or removes them when the *)
(* networking service is disabled.                                         *)
(*                                                                         *)
(* Secrets are read from a cache that lags behind the server and holds     *)
(* only secrets with the environment label, with the uncached reader as a  *)
(* fallback.  The content of a secret is a number; the template of the     *)
(* Deployment carries a hash of it, so that its pods restart on a change.  *)
(* The Ironic workload is what IronicReconcile makes of it: here it is     *)
(* only known whether it was written with networking or without.  What is  *)
(* reported in the status is left out: IronicReconcile and Lifecycle have  *)
(* its writes, a failed one of which would here be a TransientError.       *)
(***************************************************************************)
EXTENDS Integers

CONSTANTS
  Roles,        \* the switch secrets: config and credentials, or config alone
  Prepared,     \* the kinds of names users may have secrets under at first
  Renames,      \* may users change the names of the secrets
  Replacing,    \* may users bring secrets of their own in place of the operator's
  OwnContent,   \* may users change the content of their own secrets
  MaxContent,   \* bound on the contents of a secret
  MaxEdits,     \* bound on what users do
  MaxFaults     \* bound on failures and crashes

ASSUME RolesAssumption == "config" \in Roles /\ Roles \subseteq {"config", "credentials"}
ASSUME UsersAssumption ==
  /\ Prepared \subseteq {"default", "custom"}
  /\ {Renames, Replacing, OwnContent} \subseteq BOOLEAN
ASSUME NetworkingBounds == MaxContent \in Nat /\ MaxEdits \in Nat /\ MaxFaults \in Nat

\* The default name of each secret, and one name of the user's choice.
Names == Roles \X {"default", "custom"}

Specs == [enabled : BOOLEAN, custom : SUBSET Roles]

\* Whose a secret is; a successor is a user's own that may have come after one
\* of the operator's under its name.
Makers == {"nobody", "operator", "user", "successor"}
Secrets == [maker : Makers, env : BOOLEAN, content : 0 .. MaxContent]
NoSecret == [maker |-> "nobody", env |-> FALSE, content |-> 0]
Placeholder == [maker |-> "operator", env |-> TRUE, content |-> 0]

Templates == [Roles -> Names \X (0 .. MaxContent)]
NoTemplate == [r \in Roles |-> <<<<r, "default">>, 0>>]
Deployments == [uses : Templates, phase : {"absent", "starting", "up", "down"}]
NoDeployment == [uses |-> NoTemplate, phase |-> "absent"]

Steps == {"idle", "ensure", "create", "obtain", "deployment", "service", "check",
          "drop", "delete", "removeDeployment", "removeService", "ironic"}

VARIABLES
  spec,       \* spec.networkingService on the API server
  seenSpec,   \* the informer's copy
  secrets,    \* the secrets on the API server, by name
  seen,       \* the copies in the filtered cache
  dep,        \* the networking Deployment
  seenDep,    \* the informer's copy
  depFresh,   \* seenDep carries the current resource version
  svc,        \* the networking Service exists
  seenSvc,    \* it does so in the informer's copy
  ironic,     \* the Ironic workload: none, plain or networked
  queued,     \* the work queue holds the object
  pc,         \* the step the reconciler is at
  conf,       \* the spec this reconcile works on
  role,       \* the secret it is busy with
  held,       \* the secrets it has obtained
  edits,      \* what users did so far, counted
  faults      \* failures so far

cluster == <<secrets, dep, depFresh, svc, ironic>>
caches == <<seenSpec, seen, seenDep, seenSvc>>
worker == <<queued, pc, conf, role, held>>
vars == <<spec, caches, cluster, worker, edits, faults>>

TypeOK ==
  /\ spec \in Specs
  /\ seenSpec \in Specs
  /\ secrets \in [Names -> Secrets]
  /\ seen \in [Names -> Secrets]
  /\ dep \in Deployments
  /\ seenDep \in Deployments
  /\ depFresh \in BOOLEAN
  /\ svc \in BOOLEAN
  /\ seenSvc \in BOOLEAN
  /\ ironic \in {"none", "plain", "networked"}
  /\ queued \in BOOLEAN
  /\ pc \in Steps
  /\ conf \in Specs
  /\ role \in Roles
  /\ held \in [Roles -> Secrets]
  /\ edits \in 0 .. MaxEdits
  /\ faults \in 0 .. MaxFaults

\* AddSecretSelector: only labelled secrets are cached.
Visible(s) == IF s.env THEN s ELSE NoSecret

\* switchConfigSecretName, switchCredentialsSecretName
NameOf(s, r) == <<r, IF r \in s.custom THEN "custom" ELSE "default">>
Current == NameOf(conf, role)

NotStarted == [enabled |-> FALSE, custom |-> {}]

\* A new Ironic; users may have prepared secrets, labelled or not.
Init ==
  /\ spec \in Specs
  /\ ~Renames => spec.custom = {}
  /\ seenSpec = spec
  /\ secrets \in [Names -> {NoSecret} \cup [maker : {"user"}, env : BOOLEAN, content : {0}]]
  /\ \A n \in Names : n[2] \notin Prepared => secrets[n] = NoSecret
  /\ seen = [n \in Names |-> Visible(secrets[n])]
  /\ dep = NoDeployment
  /\ seenDep = dep
  /\ depFresh = TRUE
  /\ svc = FALSE
  /\ seenSvc = FALSE
  /\ ironic = "none"
  /\ queued = TRUE
  /\ pc = "idle"
  /\ conf = NotStarted
  /\ role = "config"
  /\ held = [r \in Roles |-> NoSecret]
  /\ edits = 0
  /\ faults = 0

-----------------------------------------------------------------------------
(* Faulty variants of definitions of this module, one plausible slip each.    *)
(* Nothing uses them; put in place of the definition they are named after,    *)
(* each one breaks a property.                                                *)

\* EndReconcile that drops the requeue.
EndReconcileForgetful(requeue) ==
  /\ pc' = "idle"
  /\ conf' = NotStarted
  /\ role' = "config"
  /\ held' = [r \in Roles |-> NoSecret]
  /\ queued' = queued

-----------------------------------------------------------------------------

Goto(step) ==
  /\ pc' = step
  /\ UNCHANGED <<queued, conf, held>>

EndReconcile(requeue) ==
  /\ pc' = "idle"
  /\ conf' = NotStarted
  /\ role' = "config"
  /\ held' = [r \in Roles |-> NoSecret]
  /\ queued' = (queued \/ requeue)

\* First the config secret goes through the steps from "again", then the
\* credentials secret.
NextRole(again, after) ==
  IF role = "config" /\ "credentials" \in Roles
    THEN role' = "credentials" /\ pc' = again
    ELSE role' = "config" /\ pc' = after

-----------------------------------------------------------------------------
(* More faulty variants. *)

\* WriteDeployment that leaves a matching cached Deployment alone.
WriteDeploymentIfChanged ==
  /\ pc = "deployment"
  /\ LET uses == [r \in Roles |-> <<NameOf(conf, r), held[r].content>>]
     IN  \/ /\ seenDep.phase # "absent" /\ seenDep.uses = uses
            /\ UNCHANGED <<dep, depFresh>>
            /\ Goto("service")
            /\ role' = role
         \/ /\ seenDep.phase = "absent" \/ seenDep.uses # uses
            /\ depFresh
            /\ dep' = [uses  |-> uses,
                       phase |-> IF dep.phase = "absent" THEN "starting" ELSE dep.phase]
            /\ depFresh' = FALSE
            /\ Goto("service")
            /\ role' = role
  /\ UNCHANGED <<spec, caches, secrets, svc, ironic, edits, faults>>

\* DropSecret without the test of the managed label.
DropSecretUnchecked ==
  /\ pc = "drop"
  /\ IF seen[Current] # NoSecret
       THEN pc' = "delete" /\ role' = role
       ELSE NextRole("drop", "removeDeployment")
  /\ UNCHANGED <<spec, caches, cluster, queued, conf, held, edits, faults>>

\* RemoveDeployment that is done when the Deployment is not found.
RemoveDeploymentReturnsEarly ==
  /\ pc = "removeDeployment"
  /\ IF seenDep.phase = "absent"
       THEN Goto("ironic") /\ UNCHANGED <<dep, depFresh>>
       ELSE /\ Goto("removeService")
            /\ dep' = NoDeployment
            /\ depFresh' = (depFresh /\ dep = NoDeployment)
  /\ role' = role
  /\ UNCHANGED <<spec, caches, secrets, svc, ironic, edits, faults>>

-----------------------------------------------------------------------------
(* The reconciler. *)

StartReconcile ==
  /\ pc = "idle"
  /\ queued
  /\ queued' = FALSE
  /\ conf' = seenSpec
  /\ pc' = IF seenSpec.enabled THEN "ensure" ELSE "drop"
  /\ UNCHANGED <<spec, caches, cluster, role, held, edits, faults>>

\* EnsureSwitch...Secret: look for the secret in the cache; one with a custom
\* name is the user's business.
EnsureSecret ==
  /\ pc = "ensure"
  /\ Goto(IF seen[Current] = NoSecret /\ role \notin conf.custom
            THEN "create" ELSE "obtain")
  /\ role' = role
  /\ UNCHANGED <<spec, caches, cluster, edits, faults>>

\* A secret that exists already is fine.
CreateSecret ==
  /\ pc = "create"
  /\ secrets' = [secrets EXCEPT ![Current] = IF @ = NoSecret THEN Placeholder ELSE @]
  /\ Goto("obtain")
  /\ role' = role
  /\ UNCHANGED <<spec, caches, dep, depFresh, svc, ironic, edits, faults>>

\* getExternalSecret: from the cache, else from the server.  A missing secret
\* and one without the label are errors.
Found(n) == IF seen[n] # NoSecret THEN seen[n] ELSE secrets[n]

ObtainSecret ==
  /\ pc = "obtain"
  /\ Found(Current).env
  /\ held' = [held EXCEPT ![role] = Found(Current)]
  /\ NextRole("ensure", "deployment")
  /\ UNCHANGED <<spec, caches, cluster, queued, conf, edits, faults>>

RefuseSecret ==
  /\ pc = "obtain"
  /\ ~Found(Current).env
  /\ EndReconcile(TRUE)
  /\ UNCHANGED <<spec, caches, cluster, edits, faults>>

\* ensureNetworkingDeployment: the desired spec lacks the server's defaults, so
\* it never equals the cached one and a write is sent every time; on the server
\* it may change nothing.  An outdated cache makes the write fail.
WriteDeployment ==
  /\ pc = "deployment"
  /\ \/ /\ depFresh
        /\ dep' = [uses  |-> [r \in Roles |-> <<NameOf(conf, r), held[r].content>>],
                   phase |-> IF dep.phase = "absent" THEN "starting" ELSE dep.phase]
        /\ depFresh' = (dep' = dep)
        /\ Goto("service")
        /\ role' = role
     \/ /\ ~depFresh
        /\ EndReconcile(TRUE)
        /\ UNCHANGED <<dep, depFresh>>
  /\ UNCHANGED <<spec, caches, secrets, svc, ironic, edits, faults>>

\* ensureNetworkingService: what the cache has is updated, or else the Service
\* created; both fail if the cache is wrong about it.
WriteService ==
  /\ pc = "service"
  /\ IF seenSvc = svc
       THEN svc' = TRUE /\ Goto("check") /\ role' = role
       ELSE svc' = svc /\ EndReconcile(TRUE)
  /\ UNCHANGED <<spec, caches, secrets, dep, depFresh, ironic, edits, faults>>

\* Wait for a ready replica, of whatever template, in the cached Deployment.
\* No status is written while waiting.
CheckDeployment ==
  /\ pc = "check"
  /\ IF seenDep.phase = "up"
       THEN Goto("ironic") /\ role' = role
       ELSE EndReconcile(TRUE)
  /\ UNCHANGED <<spec, caches, cluster, edits, faults>>

\* EnsureSwitch...SecretDeleted: only what carries the managed label ...
DropSecret ==
  /\ pc = "drop"
  /\ IF seen[Current].maker = "operator"
       THEN pc' = "delete" /\ role' = role
       ELSE NextRole("drop", "removeDeployment")
  /\ UNCHANGED <<spec, caches, cluster, queued, conf, held, edits, faults>>

\* ... is deleted, by name.
DeleteSecret ==
  /\ pc = "delete"
  /\ secrets' = [secrets EXCEPT ![Current] = NoSecret]
  /\ NextRole("drop", "removeDeployment")
  /\ UNCHANGED <<spec, caches, dep, depFresh, svc, ironic,
                 queued, conf, held, edits, faults>>

\* removeNetworkingResources: what the cache knows of is deleted.
RemoveDeployment ==
  /\ pc = "removeDeployment"
  /\ IF seenDep.phase = "absent"
       THEN UNCHANGED <<dep, depFresh>>
       ELSE dep' = NoDeployment /\ depFresh' = (depFresh /\ dep = NoDeployment)
  /\ Goto("removeService")
  /\ role' = role
  /\ UNCHANGED <<spec, caches, secrets, svc, ironic, edits, faults>>

RemoveService ==
  /\ pc = "removeService"
  /\ svc' = (svc /\ ~seenSvc)
  /\ Goto("ironic")
  /\ role' = role
  /\ UNCHANGED <<spec, caches, secrets, dep, depFresh, ironic, edits, faults>>

\* EnsureIronic: a changed workload means another round.
WriteIronic ==
  /\ pc = "ironic"
  /\ ironic' = IF conf.enabled THEN "networked" ELSE "plain"
  /\ EndReconcile(ironic' # ironic)
  /\ UNCHANGED <<spec, caches, secrets, dep, depFresh, svc, edits, faults>>

\* A call fails, and the error puts the object back.
TransientError ==
  /\ pc # "idle"
  /\ faults < MaxFaults
  /\ faults' = faults + 1
  /\ EndReconcile(TRUE)
  /\ UNCHANGED <<spec, caches, cluster, edits>>

\* The operator dies and starts again with caches listed anew.
Restart ==
  /\ pc # "idle"
  /\ faults < MaxFaults
  /\ faults' = faults + 1
  /\ EndReconcile(TRUE)
  /\ seenSpec' = spec
  /\ seen' = [n \in Names |-> Visible(secrets[n])]
  /\ seenDep' = dep
  /\ depFresh' = TRUE
  /\ seenSvc' = svc
  /\ UNCHANGED <<spec, secrets, dep, svc, ironic, edits>>

-----------------------------------------------------------------------------
(* Informers, Kubernetes and users. *)

SyncSpec ==
  /\ seenSpec # spec
  /\ seenSpec' = spec
  /\ queued' = TRUE
  /\ UNCHANGED <<spec, seen, seenDep, seenSvc, cluster, pc, conf, role, held, edits, faults>>

\* Only secrets the Ironic object owns wake the reconciler up.
SyncSecret(n) ==
  /\ seen[n] # Visible(secrets[n])
  /\ seen' = [seen EXCEPT ![n] = Visible(secrets[n])]
  /\ queued' = (queued \/ "operator" \in {seen[n].maker, secrets[n].maker})
  /\ UNCHANGED <<spec, seenSpec, seenDep, seenSvc, cluster, pc, conf, role, held, edits, faults>>

SyncDeployment ==
  /\ ~depFresh
  /\ seenDep' = dep
  /\ depFresh' = TRUE
  /\ queued' = TRUE
  /\ UNCHANGED <<spec, seenSpec, seen, seenSvc, secrets, dep, svc, ironic,
                 pc, conf, role, held, edits, faults>>

SyncService ==
  /\ seenSvc # svc
  /\ seenSvc' = svc
  /\ queued' = TRUE
  /\ UNCHANGED <<spec, seenSpec, seen, seenDep, cluster, pc, conf, role, held, edits, faults>>

\* A pod starts once all it mounts is there.
RollOut ==
  /\ dep.phase \in {"starting", "down"}
  /\ \A r \in Roles : secrets[dep.uses[r][1]] # NoSecret
  /\ dep' = [dep EXCEPT !.phase = "up"]
  /\ depFresh' = FALSE
  /\ UNCHANGED <<spec, caches, secrets, svc, ironic, worker, edits, faults>>

PodDies ==
  /\ dep.phase = "up"
  /\ faults < MaxFaults
  /\ faults' = faults + 1
  /\ dep' = [dep EXCEPT !.phase = "down"]
  /\ depFresh' = FALSE
  /\ UNCHANGED <<spec, caches, secrets, svc, ironic, worker, edits>>

OfUser(s) == s.maker \in {"user", "successor"}

Edit == edits < MaxEdits /\ edits' = edits + 1

EditSpec ==
  /\ Edit
  /\ spec' \in Specs
  /\ spec' # spec
  /\ Renames \/ spec'.custom = spec.custom
  /\ UNCHANGED <<caches, cluster, worker, faults>>

ChangeSecret(n, s) ==
  /\ Edit
  /\ secrets' = [secrets EXCEPT ![n] = s]
  /\ UNCHANGED <<spec, caches, dep, depFresh, svc, ironic, worker, faults>>

\* Users bring secrets under names of their choice.
ProvideSecret(n) ==
  /\ Renames /\ n[2] = "custom" /\ secrets[n] = NoSecret
  /\ \E env \in BOOLEAN : ChangeSecret(n, [maker |-> "user", env |-> env, content |-> 0])

\* They bring one under a name of the operator's, in the place of its secret if
\* that is there.
ReplaceSecret(n) ==
  /\ Replacing /\ n[2] = "default" /\ ~OfUser(secrets[n])
  /\ \E env \in BOOLEAN :
       ChangeSecret(n, [maker |-> "successor", env |-> env, content |-> 0])

LabelSecret(n) ==
  /\ OfUser(secrets[n])
  /\ ~secrets[n].env
  /\ ChangeSecret(n, [secrets[n] EXCEPT !.env = TRUE])

\* The Baremetal Operator writes to the operator's secrets, users to their own.
EditSecret(n) ==
  /\ secrets[n].maker = "operator" \/ (OfUser(secrets[n]) /\ OwnContent)
  /\ secrets[n].content < MaxContent
  /\ ChangeSecret(n, [secrets[n] EXCEPT !.content = @ + 1])

RemoveSecret(n) ==
  /\ secrets[n] # NoSecret
  /\ ChangeSecret(n, NoSecret)

-----------------------------------------------------------------------------

Reconciler ==
  \/ StartReconcile
  \/ EnsureSecret
  \/ CreateSecret
  \/ ObtainSecret
  \/ RefuseSecret
  \/ WriteDeployment
  \/ WriteService
  \/ CheckDeployment
  \/ DropSecret
  \/ DeleteSecret
  \/ RemoveDeployment
  \/ RemoveService
  \/ WriteIronic

Failures == TransientError \/ Restart \/ PodDies

Users ==
  \/ EditSpec
  \/ \E n \in Names :
       \/ ProvideSecret(n) \/ ReplaceSecret(n) \/ LabelSecret(n)
       \/ EditSecret(n) \/ RemoveSecret(n)

Kubernetes ==
  \/ SyncSpec
  \/ \E n \in Names : SyncSecret(n)
  \/ SyncDeployment
  \/ SyncService
  \/ RollOut

Next == Reconciler \/ Failures \/ Users \/ Kubernetes

Spec == Init /\ [][Next]_vars

\* The queue is served, watches deliver, pods start.
Fairness ==
  /\ WF_vars(Reconciler)
  /\ WF_vars(SyncSpec)
  /\ \A n \in Names : WF_vars(SyncSecret(n))
  /\ WF_vars(SyncDeployment)
  /\ WF_vars(SyncService)
  /\ WF_vars(RollOut)

FairSpec == Spec /\ Fairness

-----------------------------------------------------------------------------
(* Properties. *)

\* The operator does not take the secret for its own, nor is about to delete
\* what it took for its own under the name.
Recognized(n) == seen[n].maker # "operator" /\ ~(pc = "delete" /\ Current = n)

Theirs(n) == secrets[n].maker = "user" \/ (secrets[n].maker = "successor" /\ Recognized(n))

\* EnsureSwitch...SecretDeleted: "externally-provided secrets are left
\* untouched".  A user's secret goes only by the hand of a user, whatever the
\* caches say and at whatever point of a walk it came, also one in the place of
\* the operator's, as soon as the cache has it and no delete is on its way.
\* Until then the label that is tested is that of the secret before it, and the
\* delete, which is by name alone, may hit it.
UserSecretsKept ==
  [][\A n \in Names :
       Theirs(n) => Theirs(n)' \/ (edits' # edits /\ secrets'[n] = NoSecret)]_vars

\* EnsureIronicNetworking: Ironic does not start with networking before its
\* networking service has been available.
NetworkingFirst ==
  [][ironic # "networked" /\ ironic' = "networked" => dep.phase \in {"up", "down"}]_vars

\* Nothing is going on and nothing is known to be outdated.
Quiescent ==
  /\ pc = "idle"
  /\ ~queued
  /\ seenSpec = spec
  /\ \A n \in Names : seen[n] = Visible(secrets[n])
  /\ depFresh
  /\ seenSvc = svc

\* Annotations with secret versions: once all is quiet, the pods use the
\* secrets the spec names, with the content they have.  Not so of a successor:
\* its arrival may wake nobody and the pods have the content of the one before.
PodsAreCurrent ==
  Quiescent /\ spec.enabled =>
    \A r \in Roles :
      LET n == NameOf(spec, r)
      IN  secrets[n].maker \in {"operator", "user"} => dep.uses[r] = <<n, secrets[n].content>>

\* EnsureNetworkingSwitchSecrets and removeNetworkingResources: once all is
\* quiet and networking is disabled, nothing made by the operator is left,
\* except a secret under a default name that the spec no longer gives.
NothingLeft ==
  Quiescent /\ ~spec.enabled =>
    /\ \A r \in Roles : secrets[NameOf(spec, r)].maker # "operator"
    /\ dep = NoDeployment
    /\ ~svc
    /\ ironic # "networked"

\* Reconcile gets there: networking is up before a networked Ironic, or all of
\* it is gone, unless the user owes a secret.
Blocked ==
  \E r \in Roles :
    LET s == secrets[NameOf(spec, r)]
    IN  IF r \in spec.custom THEN ~s.env ELSE s # NoSecret /\ ~s.env

Arrived ==
  IF spec.enabled
    THEN dep.phase = "up" /\ svc /\ ironic = "networked"
    ELSE dep = NoDeployment /\ ~svc /\ ironic = "plain"

Settles == <>[](Arrived \/ (spec.enabled /\ Blocked))
=============================================================================
