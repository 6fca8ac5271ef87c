------------------------------ MODULE Lifecycle ------------------------------
(***************************************************************************)
(* The life of an Ironic object and of what is created for it: finalizer,  *)
(* API credentials, deletion, garbage collection, and a new object with    *)
(* the old name.                                                           *)
(*                                                                         *)
(* A secret is known by its name; its password is a number, 0 for data     *)
(* that no htpasswd can be made of, and its htpasswd the password it was   *)
(* made of.  Dependents refer to their owner by its UID.  The workload     *)
(* carries the credentials it was last written with; how it is rolled out  *)
(* is the subject of IronicReconcile, and its cache does not lag here.     *)
(***************************************************************************)
EXTENDS Integers

CONSTANTS
  Generated,     \* names the server may generate for secrets
  Chosen,        \* names of secrets that users bring
  None,          \* no name
  Networked,     \* whether spec.networkingService is enabled
  MaxUid,        \* bound on the objects created one after the other
  MaxPassword,   \* bound on passwords
  MaxEdits,      \* bound on what users do
  MaxFaults      \* bound on failures and crashes

Names == Generated \cup Chosen

ASSUME NamesAssumption == None \notin Names /\ Generated \cap Chosen = {}
ASSUME NetworkedAssumption == Networked \in BOOLEAN
ASSUME LifecycleBounds ==
  MaxUid \in Nat /\ MaxPassword \in Nat \ {0} /\ MaxEdits \in Nat /\ MaxFaults \in Nat

Uids == 1 .. MaxUid

\* cond is the reason of the Ready condition, as far as it matters here.
Objects == [uid : 0 .. MaxUid, name : Names \cup {None}, finalizer : BOOLEAN,
            deleting : BOOLEAN, cond : {"Unknown", "Failed", "Other"}]
Absent == [uid |-> 0, name |-> None, finalizer |-> FALSE,
           deleting |-> FALSE, cond |-> "Unknown"]

Secrets == [exists : BOOLEAN, env : BOOLEAN, owner : 0 .. MaxUid,
            password : 0 .. MaxPassword, htpasswd : 0 .. MaxPassword]
NoSecret == [exists |-> FALSE, env |-> FALSE, owner |-> 0, password |-> 0, htpasswd |-> 0]

Workloads == [owner : 0 .. MaxUid, name : Names \cup {None}, htpasswd : 0 .. MaxPassword]
NoWorkload == [owner |-> 0, name |-> None, htpasswd |-> 0]

VARIABLES
  ironic,      \* the object on the API server
  cache,       \* the informer's copy
  cacheFresh,  \* it carries the current resource version
  mem,         \* the copy this reconcile works on
  memFresh,    \* it carries the current resource version
  secrets,     \* the secrets on the API server, by name
  seen,        \* the copies in the filtered cache
  lag,         \* events under way to that cache: none, any, or of an owned secret
  held,        \* the secret this reconcile works on
  heldFresh,   \* it carries the current resource version
  net,         \* the UID of the owner of the networking Deployment, or 0
  workload,    \* the Ironic workload
  queued,      \* the work queue holds the name of the object
  pc,          \* the step the reconciler is at
  births,      \* objects created so far
  edits,       \* what users did so far, counted
  faults       \* failures so far

object == <<ironic, cache, cacheFresh>>
store == <<secrets, seen, lag>>
dependents == <<net, workload>>
hand == <<mem, memFresh, held, heldFresh>>
bounds == <<births, edits, faults>>
vars == <<object, store, dependents, hand, queued, pc, bounds>>

Steps == {"idle", "addFinalizer", "secret", "name", "claim", "htpasswd", "networking",
          "workload", "report", "removeNetworking", "removeFinalizer"}

TypeOK ==
  /\ ironic \in Objects
  /\ cache \in Objects
  /\ cacheFresh \in BOOLEAN
  /\ mem \in Objects
  /\ memFresh \in BOOLEAN
  /\ secrets \in [Names -> Secrets]
  /\ seen \in [Names -> Secrets]
  /\ lag \in [Names -> {"none", "any", "owned"}]
  /\ held \in Secrets
  /\ heldFresh \in BOOLEAN
  /\ net \in 0 .. MaxUid
  /\ workload \in Workloads
  /\ queued \in BOOLEAN
  /\ pc \in Steps
  /\ pc # "idle" => mem.uid \in Uids
  /\ births \in 0 .. MaxUid
  /\ edits \in 0 .. MaxEdits
  /\ faults \in 0 .. MaxFaults

\* Nothing is there yet but secrets that users have prepared.
Init ==
  /\ ironic = Absent
  /\ cache = Absent
  /\ cacheFresh = TRUE
  /\ mem = Absent
  /\ memFresh = FALSE
  /\ secrets \in [Names -> {NoSecret} \cup
       [exists : {TRUE}, env : BOOLEAN, owner : {0}, password : {1}, htpasswd : {0}]]
  /\ \A n \in Generated : secrets[n] = NoSecret
  /\ seen = [n \in Names |-> IF secrets[n].env THEN secrets[n] ELSE NoSecret]
  /\ lag = [n \in Names |-> "none"]
  /\ held = NoSecret
  /\ heldFresh = FALSE
  /\ net = 0
  /\ workload = NoWorkload
  /\ queued = FALSE
  /\ pc = "idle"
  /\ births = 0
  /\ edits = 0
  /\ faults = 0

-----------------------------------------------------------------------------
(* Faulty variants of definitions of this module, one plausible slip each.    *)
(* Nothing uses them; put in place of the definition they are named after,    *)
(* each one breaks a property.                                                *)

\* EndReconcile that drops the requeue.
EndReconcileForgetful(requeue) ==
  /\ pc' = "idle"
  /\ mem' = Absent
  /\ memFresh' = FALSE
  /\ held' = NoSecret
  /\ heldFresh' = FALSE
  /\ queued' = queued

\* NeedsUpdating that looks for an htpasswd, of whatever password.
NeedsUpdatingIfMissing(s) == s.htpasswd = 0

\* FirstStep that does not wait for the finalizer.
FirstStepUnfinalized(o) ==
  CASE o.uid = 0 -> "idle"
    [] o.uid # 0 /\ ~o.deleting -> "secret"
    [] o.uid # 0 /\ o.deleting -> IF o.finalizer THEN "removeNetworking" ELSE "idle"

-----------------------------------------------------------------------------
(* Writes to the API server. *)

Goto(step) ==
  /\ pc' = step
  /\ queued' = queued

EndReconcile(requeue) ==
  /\ pc' = "idle"
  /\ mem' = Absent
  /\ memFresh' = FALSE
  /\ held' = NoSecret
  /\ heldFresh' = FALSE
  /\ queued' = (queued \/ requeue)

\* An object without finalizers that is to be deleted is gone.
Stored(o) == IF o.deleting /\ ~o.finalizer THEN Absent ELSE o

\* What is written to the object reaches the cache later.
Store(o) ==
  /\ ironic' = Stored(o)
  /\ cacheFresh' = (cacheFresh /\ ironic' = ironic)
  /\ cache' = cache

\* Client.Update and Status().Update from the copy in hand: refused if the
\* object is no longer the one that was read.
UpdateIronic(o) == memFresh /\ Store(o)
UpdateRefused == ~memFresh /\ UNCHANGED object

\* Any write to a secret; the owner is notified if it is, or was, owned.
StoreSecret(n, s) ==
  /\ secrets' = [secrets EXCEPT ![n] = s]
  /\ lag' = [lag EXCEPT ![n] =
               IF s = secrets[n] THEN @
               ELSE IF @ = "owned" \/ {secrets[n].owner, s.owner} # {0} THEN "owned"
               ELSE "any"]
  /\ seen' = seen

\* setNotReady: the result is ignored, and the caller returns its own error.
SetNotReady ==
  IF memFresh THEN Store([mem EXCEPT !.cond = "Failed"]) ELSE UNCHANGED object

-----------------------------------------------------------------------------
(* Reconcile. *)

\* getIronic, and the two ways handleIronic may go.
FirstStep(o) ==
  CASE o.uid = 0 -> "idle"
    [] o.uid # 0 /\ ~o.deleting -> IF o.finalizer THEN "secret" ELSE "addFinalizer"
    [] o.uid # 0 /\ o.deleting -> IF o.finalizer THEN "removeNetworking" ELSE "idle"

StartReconcile ==
  /\ pc = "idle"
  /\ queued
  /\ queued' = FALSE
  /\ pc' = FirstStep(cache)
  /\ IF pc' = "idle"
       THEN UNCHANGED <<mem, memFresh>>
       ELSE mem' = cache /\ memFresh' = cacheFresh
  /\ UNCHANGED <<object, store, dependents, held, heldFresh, bounds>>

\* ensureFinalizer
AddFinalizer ==
  /\ pc = "addFinalizer"
  /\ UpdateIronic([mem EXCEPT !.finalizer = TRUE]) \/ UpdateRefused
  /\ EndReconcile(TRUE)
  /\ UNCHANGED <<store, dependents, bounds>>

\* generateSecret: a new name, owned from the start.  As the names are finitely
\* many here, that of a secret that nothing refers to any more is used again; a
\* server that has no name left stands for one that refuses.
Free(n) == secrets[n].exists => n \notin {ironic.name, cache.name, workload.name}

GenerateSecret ==
  /\ pc = "secret"
  /\ mem.name = None
  /\ \/ \E n \in Generated :
          /\ Free(n)
          /\ LET s == [exists |-> TRUE, env |-> TRUE, owner |-> mem.uid,
                       password |-> 1, htpasswd |-> 1]
             IN  StoreSecret(n, s) /\ held' = s
          /\ mem' = [mem EXCEPT !.name = n]
          /\ heldFresh' = TRUE
          /\ memFresh' = memFresh
          /\ Goto("name")
          /\ UNCHANGED object
     \/ /\ \A n \in Generated : ~Free(n)
        /\ SetNotReady
        /\ EndReconcile(TRUE)
        /\ UNCHANGED store
  /\ UNCHANGED <<dependents, bounds>>

\* SetName as a patch, without optimistic locking (a faulty variant).
SetNameUnlocked ==
  /\ pc = "name"
  /\ IF ironic.uid = mem.uid THEN Store([ironic EXCEPT !.name = mem.name])
                             ELSE UNCHANGED object
  /\ EndReconcile(TRUE)
  /\ UNCHANGED <<store, dependents, bounds>>

\* ... and its name goes into the spec.
SetName ==
  /\ pc = "name"
  /\ UpdateIronic(mem) \/ UpdateRefused
  /\ EndReconcile(TRUE)
  /\ UNCHANGED <<store, dependents, bounds>>

\* AcquireSecret: from the cache, else from the server.
Found(n) == IF seen[n].exists THEN seen[n] ELSE secrets[n]
FoundFresh(n) == seen[n].exists => lag[n] = "none"

AcquireSecret ==
  /\ pc = "secret"
  /\ mem.name # None
  /\ Found(mem.name).env
  /\ held' = Found(mem.name)
  /\ heldFresh' = FoundFresh(mem.name)
  /\ Goto(IF held'.owner = mem.uid THEN "htpasswd" ELSE "claim")
  /\ UNCHANGED <<object, store, dependents, mem, memFresh, bounds>>

\* Not found, or without the label.
RefuseSecret ==
  /\ pc = "secret"
  /\ mem.name # None
  /\ ~Found(mem.name).env
  /\ SetNotReady
  /\ EndReconcile(TRUE)
  /\ UNCHANGED <<store, dependents, bounds>>

\* ClaimSecret without optimistic locking (a faulty variant).
ClaimSecretUnlocked ==
  /\ pc = "claim"
  /\ held' = [held EXCEPT !.owner = mem.uid]
  /\ StoreSecret(mem.name, held')
  /\ heldFresh' = TRUE
  /\ Goto("htpasswd")
  /\ UNCHANGED <<object, dependents, mem, memFresh, bounds>>

\* claimObject: the owner reference makes changes of the secret known to the
\* reconciler, and the secret a dependent.  SetOwnerReference replaces a reference
\* to an earlier object of the same name.  A write that is refused because the
\* secret is gone is reported like a secret that was not found.
ClaimSecret ==
  /\ pc = "claim"
  /\ \/ /\ heldFresh
        /\ held' = [held EXCEPT !.owner = mem.uid]
        /\ StoreSecret(mem.name, held')
        /\ Goto("htpasswd")
        /\ UNCHANGED <<object, mem, memFresh, heldFresh>>
     \/ /\ ~heldFresh
        /\ IF secrets[mem.name].exists THEN UNCHANGED object ELSE SetNotReady
        /\ EndReconcile(TRUE)
        /\ UNCHANGED store
  /\ UNCHANGED <<dependents, bounds>>

\* secretNeedsUpdating, UpdateSecret
NeedsUpdating(s) == s.htpasswd = 0 \/ s.htpasswd # s.password

KeepHtpasswd ==
  /\ pc = "htpasswd"
  /\ ~NeedsUpdating(held)
  /\ Goto("networking")
  /\ UNCHANGED <<object, store, dependents, hand, bounds>>

WriteHtpasswd ==
  /\ pc = "htpasswd"
  /\ NeedsUpdating(held)
  /\ held.password # 0
  /\ IF heldFresh THEN StoreSecret(mem.name, [held EXCEPT !.htpasswd = held.password])
                  ELSE UNCHANGED store
  /\ EndReconcile(TRUE)
  /\ UNCHANGED <<object, dependents, bounds>>

RefuseHtpasswd ==
  /\ pc = "htpasswd"
  /\ NeedsUpdating(held)
  /\ held.password = 0
  /\ SetNotReady
  /\ EndReconcile(TRUE)
  /\ UNCHANGED <<store, dependents, bounds>>

\* SetControllerReference: what another object controls is not taken over.
EnsureNetworking ==
  /\ pc = "networking"
  /\ \/ /\ Networked
        /\ net \in {0, mem.uid}
        /\ net' = mem.uid
        /\ Goto("workload")
        /\ UNCHANGED hand
     \/ /\ Networked
        /\ net \notin {0, mem.uid}
        /\ EndReconcile(TRUE)
        /\ net' = net
     \/ /\ ~Networked
        /\ Goto("workload")
        /\ UNCHANGED <<hand, net>>
  /\ UNCHANGED <<object, store, workload, bounds>>

EnsureWorkload ==
  /\ pc = "workload"
  /\ \/ /\ workload.owner \in {0, mem.uid}
        /\ workload' = [owner |-> mem.uid, name |-> mem.name, htpasswd |-> held.htpasswd]
        /\ Goto("report")
        /\ UNCHANGED hand
     \/ /\ workload.owner \notin {0, mem.uid}
        /\ EndReconcile(TRUE)
        /\ workload' = workload
  /\ UNCHANGED <<object, store, net, bounds>>

\* updateIronicStatus
Report ==
  /\ pc = "report"
  /\ \/ mem.cond = "Other" /\ UNCHANGED object /\ EndReconcile(FALSE)
     \/ /\ mem.cond # "Other"
        /\ \/ UpdateIronic([mem EXCEPT !.cond = "Other"]) /\ EndReconcile(FALSE)
           \/ UpdateRefused /\ EndReconcile(TRUE)
  /\ UNCHANGED <<store, dependents, bounds>>

\* cleanUp: RemoveIronic does nothing; RemoveIronicNetworking deletes the
\* Deployment if its cache knows of it.
RemoveNetworking ==
  /\ pc = "removeNetworking"
  /\ net' \in {0, net}
  /\ Goto("removeFinalizer")
  /\ UNCHANGED <<object, store, workload, hand, bounds>>

RemoveFinalizer ==
  /\ pc = "removeFinalizer"
  /\ UpdateIronic([mem EXCEPT !.finalizer = FALSE]) \/ UpdateRefused
  /\ EndReconcile(TRUE)
  /\ UNCHANGED <<store, dependents, bounds>>

\* A call fails; or its reply is lost after the step before.
TransientError ==
  /\ pc # "idle"
  /\ faults < MaxFaults
  /\ faults' = faults + 1
  /\ EndReconcile(TRUE)
  /\ UNCHANGED <<object, store, dependents, births, edits>>

\* The operator dies and starts again with caches listed anew.
Restart ==
  /\ pc # "idle"
  /\ faults < MaxFaults
  /\ faults' = faults + 1
  /\ EndReconcile(TRUE)
  /\ cache' = ironic
  /\ cacheFresh' = TRUE
  /\ seen' = [n \in Names |-> IF secrets[n].env THEN secrets[n] ELSE NoSecret]
  /\ lag' = [n \in Names |-> "none"]
  /\ UNCHANGED <<ironic, secrets, dependents, births, edits>>

-----------------------------------------------------------------------------
(* Informers, the garbage collector, users. *)

SyncIronic ==
  /\ ~cacheFresh
  /\ cache' = ironic
  /\ cacheFresh' = TRUE
  /\ queued' = TRUE
  /\ UNCHANGED <<ironic, store, dependents, hand, pc, bounds>>

\* Owns(Secret, MatchEveryOwner)
SyncSecret(n) ==
  /\ lag[n] # "none"
  /\ seen' = [seen EXCEPT ![n] = IF secrets[n].env THEN secrets[n] ELSE NoSecret]
  /\ lag' = [lag EXCEPT ![n] = "none"]
  /\ queued' = (queued \/ lag[n] = "owned")
  /\ UNCHANGED <<object, secrets, dependents, hand, pc, bounds>>

\* Whatever has an owner that does not exist is deleted.
CollectSecret(n) ==
  /\ secrets[n].owner \notin {0, ironic.uid}
  /\ StoreSecret(n, NoSecret)
  /\ heldFresh' = (heldFresh /\ mem.name # n)
  /\ UNCHANGED <<object, dependents, mem, memFresh, held, queued, pc, bounds>>

CollectNetworking ==
  /\ net \notin {0, ironic.uid}
  /\ net' = 0
  /\ queued' = TRUE
  /\ UNCHANGED <<object, store, workload, hand, pc, bounds>>

CollectWorkload ==
  /\ workload.owner \notin {0, ironic.uid}
  /\ workload' = NoWorkload
  /\ queued' = TRUE
  /\ UNCHANGED <<object, store, net, hand, pc, bounds>>

Edit == edits < MaxEdits /\ edits' = edits + 1

\* A user changes the object on the server.
ChangeIronic(o) ==
  /\ Edit
  /\ Store(o)
  /\ memFresh' = FALSE
  /\ UNCHANGED <<store, dependents, mem, held, heldFresh, queued, pc, faults>>

CreateIronic ==
  /\ ironic.uid = 0
  /\ births < MaxUid
  /\ births' = births + 1
  /\ \E name \in Chosen \cup {None} :
       ChangeIronic([Absent EXCEPT !.uid = births + 1, !.name = name])

DeleteIronic ==
  /\ ironic.uid # 0
  /\ ~ironic.deleting
  /\ ChangeIronic([ironic EXCEPT !.deleting = TRUE])
  /\ births' = births

\* The spec may be edited while the object is being deleted, too.
ChangeName ==
  /\ ironic.uid # 0
  /\ \E name \in Names \cup {None} :
       /\ name # ironic.name
       /\ name \in Generated => secrets[name].exists
       /\ ChangeIronic([ironic EXCEPT !.name = name])
  /\ births' = births

\* A user changes a secret on the server.
ChangeSecret(n, s) ==
  /\ Edit
  /\ StoreSecret(n, s)
  /\ heldFresh' = (heldFresh /\ mem.name # n)
  /\ UNCHANGED <<object, dependents, mem, memFresh, held, queued, pc, births, faults>>

BringSecret(n) ==
  /\ n \in Chosen
  /\ ~secrets[n].exists
  /\ \E env \in BOOLEAN :
       ChangeSecret(n, [exists |-> TRUE, env |-> env, owner |-> 0,
                        password |-> 1, htpasswd |-> 0])

ChangePassword(n) ==
  /\ secrets[n].exists
  /\ \E password \in 0 .. MaxPassword :
       /\ password # secrets[n].password
       /\ ChangeSecret(n, [secrets[n] EXCEPT !.password = password])

ChangeLabel(n) ==
  /\ secrets[n].exists
  /\ ChangeSecret(n, [secrets[n] EXCEPT !.env = ~@])

RemoveSecret(n) ==
  /\ secrets[n].exists
  /\ ChangeSecret(n, NoSecret)

-----------------------------------------------------------------------------

Reconciler ==
  \/ StartReconcile
  \/ AddFinalizer
  \/ GenerateSecret
  \/ SetName
  \/ AcquireSecret
  \/ RefuseSecret
  \/ ClaimSecret
  \/ KeepHtpasswd
  \/ WriteHtpasswd
  \/ RefuseHtpasswd
  \/ EnsureNetworking
  \/ EnsureWorkload
  \/ Report
  \/ RemoveNetworking
  \/ RemoveFinalizer

Failures == TransientError \/ Restart

Informers ==
  \/ SyncIronic
  \/ \E n \in Names : SyncSecret(n)

GarbageCollector ==
  \/ \E n \in Names : CollectSecret(n)
  \/ CollectNetworking
  \/ CollectWorkload

Users ==
  \/ CreateIronic
  \/ DeleteIronic
  \/ ChangeName
  \/ \E n \in Names :
       BringSecret(n) \/ ChangePassword(n) \/ ChangeLabel(n) \/ RemoveSecret(n)

Next == Reconciler \/ Failures \/ Informers \/ GarbageCollector \/ Users

Spec == Init /\ [][Next]_vars

\* The queue is served, watches deliver, garbage is collected.
Fairness ==
  /\ WF_vars(Reconciler)
  /\ WF_vars(SyncIronic)
  /\ \A n \in Names : WF_vars(SyncSecret(n))
  /\ \A n \in Names : WF_vars(CollectSecret(n))
  /\ WF_vars(CollectNetworking)
  /\ WF_vars(CollectWorkload)

FairSpec == Spec /\ Fairness

-----------------------------------------------------------------------------
(* Properties. *)

\* ensureAPISecret fills in a name and never replaces one: a name that is in
\* the spec changes by the hand of a user only.
NameKept ==
  [][ironic'.uid = ironic.uid /\ ironic.name \notin {None, ironic'.name}
       => edits' # edits]_vars

\* claimObject and UpdateSecret write whole secrets, from copies that may be
\* old: the password and the label are the user's all the same, and an htpasswd
\* is made of the password that is there.  (A generated name used again is
\* another secret.)
Rewritten(n) ==
  /\ secrets[n].exists
  /\ secrets'[n].exists
  /\ secrets'[n] # secrets[n]
  /\ n \in Generated => ~Free(n)

PasswordKept ==
  [][\A n \in Names :
       Rewritten(n)
         => \/ edits' # edits
            \/ /\ secrets'[n].password = secrets[n].password
               /\ secrets'[n].env = secrets[n].env
               /\ secrets'[n].htpasswd \in {secrets[n].htpasswd, secrets[n].password}]_vars

\* ensureFinalizer first, removeFinalizer last ("This must be the last
\* action"): nothing is created for, or claimed by, an object that is gone.
OwnersExist ==
  [][/\ \A n \in Names : secrets'[n].owner \in {0, secrets[n].owner, ironic.uid}
     /\ net' \in {0, net, ironic.uid}
     /\ workload'.owner \in {0, workload.owner, ironic.uid}]_vars

\* Nothing is going on and nothing is known to be outdated.
Quiescent ==
  /\ pc = "idle"
  /\ ~queued
  /\ cacheFresh
  /\ \A n \in Names : lag[n] = "none"

\* The workload serves the credentials the spec names, as they are now.
Served ==
  /\ ironic.finalizer
  /\ ironic.name # None
  /\ secrets[ironic.name].owner = ironic.uid
  /\ workload = [owner |-> ironic.uid, name |-> ironic.name,
                 htpasswd |-> secrets[ironic.name].password]

\* Once all is quiet, Ironic accepts the password that is in the secret: what
\* users do to the secret reaches Ironic, and nobody has to wait for a resync.
CredentialsCurrent == Quiescent /\ ironic.uid # 0 => ~ironic.deleting /\ Served

\* The user owes a usable secret, and is told so.
Blocked ==
  /\ ironic.name # None
  /\ ~secrets[ironic.name].env \/ secrets[ironic.name].password = 0
  /\ ironic.cond = "Failed"

\* An object is served or refused, and one that is deleted goes, with all that
\* was created for it.
Settles ==
  <>[](IF ironic.uid = 0
         THEN /\ \A n \in Generated : ~secrets[n].exists
              /\ net = 0
              /\ workload = NoWorkload
         ELSE ~ironic.deleting /\ (Served \/ Blocked))
=============================================================================
