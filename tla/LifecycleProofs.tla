--------------------------- MODULE LifecycleProofs ---------------------------
(***************************************************************************)
(* Theorems about Lifecycle, for any names, users and bounds: types, that  *)
(* names, passwords and owners are safe from outdated copies, and that the *)
(* password served in the end is the one in the secret.                    *)
(***************************************************************************)
EXTENDS Lifecycle, TLAPS

Working == {"secret", "name", "claim", "htpasswd", "networking", "workload", "report"}

\* The object in hand, and in the cache.  A copy marked current is the object
\* on the server, but for the name that is about to be written; one that is
\* not being deleted, and has the finalizer, is of an object that still
\* exists, with the finalizer; and so is the one the reconciler works on.
ObjectInv ==
  /\ ironic.finalizer => ironic.uid \in Uids
  /\ cacheFresh => cache = ironic
  /\ memFresh => ironic = IF pc = "name" THEN [mem EXCEPT !.name = None] ELSE mem
  /\ cache.finalizer /\ ~cache.deleting
       => cache.uid \in Uids /\ ironic.uid = cache.uid /\ ironic.finalizer
  /\ pc = "idle" => ~memFresh
  /\ pc # "idle" => mem.uid \in Uids
  /\ pc = "addFinalizer" => ~mem.deleting
  /\ pc \in Working
       => ironic.uid = mem.uid /\ ironic.finalizer /\ ~mem.deleting
  /\ pc \in {"removeNetworking", "removeFinalizer"} /\ memFresh => mem.deleting /\ cache = ironic

\* The secret in hand, and those in the cache.
SecretInv ==
  /\ \A n \in Names : lag[n] = "none" /\ seen[n].exists => seen[n] = secrets[n]
  /\ pc \in {"claim", "htpasswd"} => mem.name \in Names
  /\ pc \in {"claim", "htpasswd"} /\ heldFresh => held = secrets[mem.name]
-----------------------------------------------------------------------------
(* Types. *)

LEMMA ConstantTypes ==
  /\ 0 \in 0 .. MaxUid /\ 0 \in 0 .. MaxPassword /\ 1 \in 0 .. MaxPassword
  /\ 0 \in 0 .. MaxEdits /\ 0 \in 0 .. MaxFaults
  /\ Uids \subseteq 0 .. MaxUid /\ 0 \notin Uids
  /\ None \notin Names
  BY LifecycleBounds, NamesAssumption DEF LifecycleBounds, NamesAssumption, Uids, Names

LEMMA RecordTypes ==
  /\ Absent \in Objects
  /\ NoSecret \in Secrets
  /\ NoWorkload \in Workloads
  /\ \A o \in Objects : Stored(o) \in Objects
  /\ \A s \in Secrets, p \in 0 .. MaxPassword : /\ [s EXCEPT !.htpasswd = p] \in Secrets
                                                /\ [s EXCEPT !.password = p] \in Secrets
  <1>1. Absent \in Objects /\ NoSecret \in Secrets /\ NoWorkload \in Workloads
    BY ConstantTypes DEF Absent, Objects, NoSecret, Secrets, NoWorkload, Workloads
  <1>2. \A o \in Objects : Stored(o) \in Objects
    BY <1>1 DEF Stored
  <1>3. \A s \in Secrets, p \in 0 .. MaxPassword : /\ [s EXCEPT !.htpasswd = p] \in Secrets
                                                   /\ [s EXCEPT !.password = p] \in Secrets
    BY DEF Secrets
  <1> QED
    BY <1>1, <1>2, <1>3

LEMMA StoreType ==
  ASSUME TypeOK, NEW o \in Objects, Store(o)
  PROVE  ironic' \in Objects /\ cache' \in Objects /\ cacheFresh' \in BOOLEAN
  BY RecordTypes DEF Store, TypeOK

LEMMA StoreSecretType ==
  ASSUME TypeOK, NEW n \in Names, NEW s \in Secrets, StoreSecret(n, s)
  PROVE  /\ secrets' \in [Names -> Secrets]
         /\ seen' \in [Names -> Secrets]
         /\ lag' \in [Names -> {"none", "any", "owned"}]
  BY DEF StoreSecret, TypeOK

LEMMA EndReconcileType ==
  ASSUME TypeOK, NEW requeue \in BOOLEAN, EndReconcile(requeue)
  PROVE  /\ mem' \in Objects /\ memFresh' \in BOOLEAN
         /\ held' \in Secrets /\ heldFresh' \in BOOLEAN
         /\ pc' = "idle" /\ pc' \in Steps /\ queued' \in BOOLEAN
  BY RecordTypes DEF TypeOK, EndReconcile, Steps

LEMMA SetNotReadyType ==
  ASSUME TypeOK, SetNotReady
  PROVE  ironic' \in Objects /\ cache' \in Objects /\ cacheFresh' \in BOOLEAN
  <1>1. [mem EXCEPT !.cond = "Failed"] \in Objects
    BY DEF TypeOK, Objects
  <1> QED
    BY <1>1, StoreType DEF SetNotReady, TypeOK, object

\* A step that writes the object, or fails to, and ends the reconcile.
LEMMA EndingType ==
  ASSUME TypeOK, NEW o \in Objects, NEW requeue \in BOOLEAN,
         UpdateIronic(o) \/ UpdateRefused \/ SetNotReady,
         EndReconcile(requeue),
         UNCHANGED <<store, dependents, bounds>>
  PROVE  TypeOK'
  <1>1. ironic' \in Objects /\ cache' \in Objects /\ cacheFresh' \in BOOLEAN
    BY StoreType, SetNotReadyType DEF UpdateIronic, UpdateRefused, object, TypeOK
  <1> QED
    BY <1>1, EndReconcileType DEF TypeOK, store, dependents, bounds

LEMMA FoundType ==
  ASSUME TypeOK, NEW n \in Names
  PROVE  Found(n) \in Secrets /\ FoundFresh(n) \in BOOLEAN
  BY DEF Found, FoundFresh, TypeOK

LEMMA ReconcilerType ==
  ASSUME TypeOK, ObjectInv, Reconciler
  PROVE  TypeOK'
  <1> USE DEF object, store, dependents, hand, bounds
  <1>1. mem \in Objects /\ mem.name \in Names \cup {None} /\ mem.uid \in 0 .. MaxUid
    BY DEF TypeOK, Objects
  <1>2. pc \in Working => mem.uid \in Uids
    BY DEF ObjectInv
  <1>3. CASE StartReconcile
    <2>1. pc' \in Steps
      BY <1>3 DEF StartReconcile, FirstStep, Steps
    <2>2. pc' # "idle" => mem'.uid \in Uids
      BY <1>3 DEF StartReconcile, FirstStep, TypeOK, Objects, Uids
    <2> QED
      BY <1>3, <2>1, <2>2 DEF StartReconcile, TypeOK
  <1>4. CASE AddFinalizer
    <2>1. [mem EXCEPT !.finalizer = TRUE] \in Objects
      BY <1>1 DEF Objects
    <2> QED
      BY <1>4, <2>1, EndingType DEF AddFinalizer
  <1>5. CASE GenerateSecret
    <2>1. CASE SetNotReady /\ EndReconcile(TRUE) /\ UNCHANGED store
      BY <1>1, <1>5, <2>1, EndingType DEF GenerateSecret
    <2>2. CASE ~(SetNotReady /\ EndReconcile(TRUE) /\ UNCHANGED store)
      <3> DEFINE s == [exists |-> TRUE, env |-> TRUE, owner |-> mem.uid,
                       password |-> 1, htpasswd |-> 1]
      <3>1. PICK n \in Generated :
              /\ StoreSecret(n, s)
              /\ held' = s
              /\ mem' = [mem EXCEPT !.name = n]
              /\ heldFresh' = TRUE
              /\ memFresh' = memFresh
              /\ Goto("name")
              /\ UNCHANGED object
        BY <1>5, <2>2 DEF GenerateSecret
      <3>2. s \in Secrets
        BY <1>1, ConstantTypes DEF Secrets
      <3>3. n \in Names /\ mem' \in Objects /\ mem'.uid \in Uids
        BY <1>1, <1>2, <1>5, <3>1 DEF GenerateSecret, Working, Objects, Names
      <3>4. UNCHANGED <<dependents, bounds>>
        BY <1>5 DEF GenerateSecret
      <3>5. /\ secrets' \in [Names -> Secrets]
            /\ seen' \in [Names -> Secrets]
            /\ lag' \in [Names -> {"none", "any", "owned"}]
        BY <3>1, <3>2, <3>3, StoreSecretType
      <3> QED
        BY <3>1, <3>2, <3>3, <3>4, <3>5 DEF Goto, TypeOK, Steps
    <2> QED
      BY <2>1, <2>2
  <1>6. CASE SetName
    BY <1>1, <1>6, EndingType DEF SetName
  <1>7. CASE AcquireSecret
    <2>1. held' \in Secrets /\ heldFresh' \in BOOLEAN
      BY <1>1, <1>7, FoundType DEF AcquireSecret
    <2> QED
      BY <1>7, <2>1 DEF AcquireSecret, Goto, TypeOK, Steps
  <1>8. CASE RefuseSecret
    BY <1>1, <1>8, EndingType DEF RefuseSecret
  <1>9. CASE ClaimSecret
    <2>1. CASE EndReconcile(TRUE) /\ UNCHANGED store /\ (UNCHANGED object \/ SetNotReady)
      <3>1. CASE UNCHANGED object
        BY <1>9, <2>1, <3>1, EndReconcileType DEF ClaimSecret, TypeOK
      <3>2. CASE SetNotReady
        BY <1>1, <1>9, <2>1, <3>2, EndingType DEF ClaimSecret
      <3> QED
        BY <2>1, <3>1, <3>2
    <2>2. CASE /\ held' = [held EXCEPT !.owner = mem.uid]
               /\ StoreSecret(mem.name, held')
               /\ Goto("htpasswd")
               /\ UNCHANGED <<object, mem, memFresh, heldFresh>>
      <3>1. held' \in Secrets
        BY <1>1, <2>2 DEF TypeOK, Secrets
      <3>2. /\ secrets' \in [Names -> Secrets]
            /\ seen' \in [Names -> Secrets]
            /\ lag' \in [Names -> {"none", "any", "owned"}]
        BY <1>1, <2>2, <3>1 DEF StoreSecret, TypeOK
      <3> QED
        BY <1>9, <2>2, <3>1, <3>2 DEF ClaimSecret, Goto, TypeOK, Steps
    <2> QED
      BY <1>9, <2>1, <2>2 DEF ClaimSecret
  <1>10. CASE KeepHtpasswd
    BY <1>10 DEF KeepHtpasswd, Goto, TypeOK, Steps
  <1>11. CASE WriteHtpasswd
    <2>1. [held EXCEPT !.htpasswd = held.password] \in Secrets
      BY DEF TypeOK, Secrets
    <2>2. /\ secrets' \in [Names -> Secrets]
          /\ seen' \in [Names -> Secrets]
          /\ lag' \in [Names -> {"none", "any", "owned"}]
      BY <1>11, <2>1 DEF WriteHtpasswd, StoreSecret, TypeOK
    <2>3. EndReconcile(TRUE)
      BY <1>11 DEF WriteHtpasswd
    <2> QED
      BY <1>11, <2>2, <2>3, EndReconcileType DEF WriteHtpasswd, TypeOK
  <1>12. CASE RefuseHtpasswd
    BY <1>1, <1>12, EndingType DEF RefuseHtpasswd
  <1>13. CASE EnsureNetworking
    <2>1. CASE EndReconcile(TRUE) /\ net' = net
      BY <1>13, <2>1, EndReconcileType DEF EnsureNetworking, TypeOK
    <2>2. CASE Goto("workload") /\ UNCHANGED hand /\ net' \in {net, mem.uid}
      BY <1>1, <1>13, <2>2 DEF EnsureNetworking, Goto, TypeOK, Steps
    <2> QED
      BY <1>13, <2>1, <2>2 DEF EnsureNetworking
  <1>14. CASE EnsureWorkload
    <2>1. CASE EndReconcile(TRUE) /\ workload' = workload
      BY <1>14, <2>1, EndReconcileType DEF EnsureWorkload, TypeOK
    <2>2. CASE /\ workload' = [owner |-> mem.uid, name |-> mem.name,
                               htpasswd |-> held.htpasswd]
               /\ Goto("report")
               /\ UNCHANGED hand
      <3>1. workload' \in Workloads
        BY <1>1, <2>2 DEF TypeOK, Secrets, Workloads
      <3> QED
        BY <1>14, <2>2, <3>1 DEF EnsureWorkload, Goto, TypeOK, Steps
    <2> QED
      BY <1>14, <2>1, <2>2 DEF EnsureWorkload
  <1>15. CASE Report
    <2>1. [mem EXCEPT !.cond = "Other"] \in Objects
      BY <1>1 DEF Objects
    <2>2. CASE UNCHANGED object /\ EndReconcile(FALSE)
      BY <1>15, <2>2, EndReconcileType DEF Report, TypeOK
    <2>3. CASE \E requeue \in BOOLEAN :
                 /\ UpdateIronic([mem EXCEPT !.cond = "Other"]) \/ UpdateRefused
                 /\ EndReconcile(requeue)
      BY <1>15, <2>1, <2>3, EndingType DEF Report
    <2> QED
      BY <1>15, <2>2, <2>3 DEF Report
  <1>16. CASE RemoveNetworking
    BY <1>16, ConstantTypes DEF RemoveNetworking, Goto, TypeOK, Steps
  <1>17. CASE RemoveFinalizer
    <2>1. [mem EXCEPT !.finalizer = FALSE] \in Objects
      BY <1>1 DEF Objects
    <2> QED
      BY <1>17, <2>1, EndingType DEF RemoveFinalizer
  <1> QED
    BY <1>3, <1>4, <1>5, <1>6, <1>7, <1>8, <1>9, <1>10, <1>11, <1>12, <1>13, <1>14,
       <1>15, <1>16, <1>17
    DEF Reconciler

LEMMA FailuresType ==
  ASSUME TypeOK, Failures
  PROVE  TypeOK'
  <1> USE DEF object, store, dependents, hand, bounds
  <1>1. ASSUME faults < MaxFaults, faults' = faults + 1
        PROVE  faults' \in 0 .. MaxFaults
    BY <1>1, LifecycleBounds DEF LifecycleBounds, TypeOK
  <1>2. CASE TransientError
    <2>1. EndReconcile(TRUE)
      BY <1>2 DEF TransientError
    <2> QED
      BY <1>1, <1>2, <2>1, EndReconcileType DEF TransientError, TypeOK
  <1>3. CASE Restart
    <2>1. EndReconcile(TRUE)
      BY <1>3 DEF Restart
    <2>2. seen' \in [Names -> Secrets]
      BY <1>3, RecordTypes DEF Restart, TypeOK
    <2>3. lag' \in [Names -> {"none", "any", "owned"}]
      BY <1>3 DEF Restart
    <2> QED
      BY <1>1, <1>3, <2>1, <2>2, <2>3, EndReconcileType DEF Restart, TypeOK
  <1> QED
    BY <1>2, <1>3 DEF Failures

LEMMA InformersType ==
  ASSUME TypeOK, Informers
  PROVE  TypeOK'
  <1> USE DEF object, store, dependents, hand, bounds
  <1>1. CASE SyncIronic
    BY <1>1 DEF SyncIronic, TypeOK
  <1>2. CASE \E n \in Names : SyncSecret(n)
    <2>1. PICK n \in Names : SyncSecret(n)
      BY <1>2
    <2>2. seen' \in [Names -> Secrets]
      BY <2>1, RecordTypes DEF SyncSecret, TypeOK
    <2> QED
      BY <2>1, <2>2 DEF SyncSecret, TypeOK
  <1> QED
    BY <1>1, <1>2 DEF Informers

LEMMA GarbageCollectorType ==
  ASSUME TypeOK, GarbageCollector
  PROVE  TypeOK'
  <1> USE DEF object, store, dependents, hand, bounds
  <1>1. ASSUME NEW n \in Names, CollectSecret(n)
        PROVE  TypeOK'
    <2>1. /\ secrets' \in [Names -> Secrets]
          /\ seen' \in [Names -> Secrets]
          /\ lag' \in [Names -> {"none", "any", "owned"}]
      BY <1>1, StoreSecretType, RecordTypes DEF CollectSecret
    <2> QED
      BY <1>1, <2>1 DEF CollectSecret, TypeOK
  <1>2. CASE CollectNetworking
    BY <1>2, ConstantTypes DEF CollectNetworking, TypeOK
  <1>3. CASE CollectWorkload
    BY <1>3, RecordTypes DEF CollectWorkload, TypeOK
  <1> QED
    BY <1>1, <1>2, <1>3 DEF GarbageCollector

LEMMA UsersType ==
  ASSUME TypeOK, Users
  PROVE  TypeOK'
  <1> USE DEF object, store, dependents, hand, bounds
  <1>1. Edit => edits' \in 0 .. MaxEdits
    BY LifecycleBounds DEF LifecycleBounds, Edit, TypeOK
  <1>2. ASSUME NEW o \in Objects, ChangeIronic(o), births' \in 0 .. MaxUid
        PROVE  TypeOK'
    <2>1. ironic' \in Objects /\ cache' \in Objects /\ cacheFresh' \in BOOLEAN
      BY <1>2, StoreType DEF ChangeIronic
    <2> QED
      BY <1>1, <1>2, <2>1 DEF ChangeIronic, TypeOK
  <1>3. ASSUME NEW n \in Names, NEW s \in Secrets, ChangeSecret(n, s)
        PROVE  TypeOK'
    <2>1. /\ secrets' \in [Names -> Secrets]
          /\ seen' \in [Names -> Secrets]
          /\ lag' \in [Names -> {"none", "any", "owned"}]
      BY <1>3, StoreSecretType DEF ChangeSecret
    <2> QED
      BY <1>1, <1>3, <2>1 DEF ChangeSecret, TypeOK
  <1>4. CASE CreateIronic
    <2>1. PICK name \in Chosen \cup {None} :
            ChangeIronic([Absent EXCEPT !.uid = births + 1, !.name = name])
      BY <1>4 DEF CreateIronic
    <2>2. births + 1 \in 0 .. MaxUid /\ births' = births + 1
      BY <1>4, LifecycleBounds DEF LifecycleBounds, CreateIronic, TypeOK
    <2>3. [Absent EXCEPT !.uid = births + 1, !.name = name] \in Objects
      BY <2>2, RecordTypes DEF Objects, Names
    <2> QED
      BY <2>1, <2>2, <2>3, <1>2
  <1>5. CASE DeleteIronic
    <2>1. [ironic EXCEPT !.deleting = TRUE] \in Objects
      BY DEF TypeOK, Objects
    <2> QED
      BY <1>5, <2>1, <1>2 DEF DeleteIronic, TypeOK
  <1>6. CASE ChangeName
    <2>1. PICK name \in Names \cup {None} : ChangeIronic([ironic EXCEPT !.name = name])
      BY <1>6 DEF ChangeName
    <2>2. [ironic EXCEPT !.name = name] \in Objects
      BY DEF TypeOK, Objects
    <2> QED
      BY <1>6, <2>1, <2>2, <1>2 DEF ChangeName, TypeOK
  <1>7. ASSUME NEW n \in Names,
               BringSecret(n) \/ ChangePassword(n) \/ ChangeLabel(n) \/ RemoveSecret(n)
        PROVE  TypeOK'
    <2>1. CASE BringSecret(n)
      <3>1. PICK env \in BOOLEAN :
              ChangeSecret(n, [exists |-> TRUE, env |-> env, owner |-> 0,
                               password |-> 1, htpasswd |-> 0])
        BY <2>1 DEF BringSecret
      <3>2. [exists |-> TRUE, env |-> env, owner |-> 0,
             password |-> 1, htpasswd |-> 0] \in Secrets
        BY ConstantTypes DEF Secrets
      <3> QED
        BY <3>1, <3>2, <1>3
    <2>2. CASE ChangePassword(n)
      BY <2>2, <1>3, RecordTypes DEF ChangePassword, TypeOK
    <2>3. CASE ChangeLabel(n)
      <3>1. [secrets[n] EXCEPT !.env = ~@] \in Secrets
        BY DEF TypeOK, Secrets
      <3> QED
        BY <2>3, <3>1, <1>3 DEF ChangeLabel
    <2>4. CASE RemoveSecret(n)
      BY <2>4, <1>3, RecordTypes DEF RemoveSecret
    <2> QED
      BY <1>7, <2>1, <2>2, <2>3, <2>4
  <1> QED
    BY <1>4, <1>5, <1>6, <1>7 DEF Users

-----------------------------------------------------------------------------
(* The object in hand and in the cache. *)

\* Steps that leave the object and its copies alone.
LEMMA ObjectElsewhere ==
  ASSUME ObjectInv, UNCHANGED object,
         \/ UNCHANGED <<mem, memFresh, pc>>
         \/ UNCHANGED <<mem, memFresh>> /\ {pc, pc'} \subseteq Working \ {"name"}
         \/ memFresh' = FALSE /\ pc' = "idle"
  PROVE  ObjectInv'
  BY DEF ObjectInv, object, Working

\* Steps that write the copy in hand, changed in its status at most, and end.
LEMMA ObjectWritten ==
  ASSUME TypeOK, ObjectInv, pc \in Working, NEW o,
         o = mem \/ \E c : o = [mem EXCEPT !.cond = c],
         UpdateIronic(o) \/ UpdateRefused,
         memFresh' = FALSE, pc' = "idle"
  PROVE  ObjectInv'
  <1>1. CASE UpdateRefused
    BY <1>1, ObjectElsewhere DEF UpdateRefused
  <1>2. CASE UpdateIronic(o)
    <2>1. /\ o.uid = mem.uid /\ o.finalizer = mem.finalizer
          /\ o.deleting = mem.deleting /\ ~mem.deleting
      BY DEF ObjectInv, TypeOK, Objects
    <2>2. /\ memFresh
          /\ ironic' = o
          /\ cacheFresh' => cacheFresh /\ ironic' = ironic
          /\ cache' = cache
      BY <1>2, <2>1 DEF UpdateIronic, Store, Stored
    <2>3. ironic.finalizer = mem.finalizer /\ ironic.uid = mem.uid
      BY <2>2 DEF ObjectInv, TypeOK, Objects
    <2>4. ironic'.uid = ironic.uid /\ ironic'.finalizer = ironic.finalizer
      BY <2>1, <2>2, <2>3
    <2> QED
      BY <2>2, <2>4 DEF ObjectInv, Working
  <1> QED
    BY <1>1, <1>2

LEMMA ObjectRefused ==
  ASSUME TypeOK, ObjectInv, pc \in Working, SetNotReady, memFresh' = FALSE, pc' = "idle"
  PROVE  ObjectInv'
  <1>1. \/ UpdateIronic([mem EXCEPT !.cond = "Failed"])
        \/ UpdateRefused
    BY DEF SetNotReady, UpdateIronic, UpdateRefused, TypeOK
  <1> QED
    BY <1>1, ObjectWritten

LEMMA ObjectByReconciler ==
  ASSUME TypeOK, ObjectInv, Reconciler
  PROVE  ObjectInv'
  <1> USE DEF store, dependents, hand, bounds
  <1>1. CASE StartReconcile
    <2>1. CASE pc' = "idle"
      BY <1>1, <2>1, ObjectElsewhere DEF StartReconcile
    <2>2. CASE pc' # "idle"
      <3>1. /\ UNCHANGED object /\ mem' = cache /\ memFresh' = cacheFresh
            /\ cache.uid \in Uids
        BY <1>1, <2>2 DEF StartReconcile, FirstStep, TypeOK, Objects, Uids
      <3>2. CASE pc' = "addFinalizer"
        BY <1>1, <3>1, <3>2 DEF StartReconcile, FirstStep, ObjectInv, object, Working,
                                TypeOK, Objects
      <3>3. CASE pc' = "secret"
        BY <1>1, <3>1, <3>3 DEF StartReconcile, FirstStep, ObjectInv, object, Working,
                                TypeOK, Objects
      <3>4. CASE pc' = "removeNetworking"
        BY <1>1, <3>1, <3>4 DEF StartReconcile, FirstStep, ObjectInv, object, Working,
                                TypeOK, Objects
      <3> QED
        BY <1>1, <2>2, <3>2, <3>3, <3>4 DEF StartReconcile, FirstStep, TypeOK, Objects
    <2> QED
      BY <2>1, <2>2
  <1>2. CASE AddFinalizer
    <2>1. memFresh' = FALSE /\ pc' = "idle"
      BY <1>2 DEF AddFinalizer, EndReconcile
    <2>2. CASE UpdateRefused
      BY <2>1, <2>2, ObjectElsewhere DEF UpdateRefused
    <2>3. CASE UpdateIronic([mem EXCEPT !.finalizer = TRUE])
      <3>1. mem = ironic /\ mem.uid \in Uids /\ ~mem.deleting
        BY <1>2, <2>3 DEF AddFinalizer, UpdateIronic, ObjectInv
      <3>2. /\ ironic' = [ironic EXCEPT !.finalizer = TRUE]
            /\ cacheFresh' => cacheFresh /\ ironic' = ironic
            /\ cache' = cache
        BY <2>3, <3>1 DEF UpdateIronic, Store, Stored, TypeOK, Objects
      <3>3. ironic'.uid = ironic.uid /\ ironic'.finalizer
        BY <3>2 DEF TypeOK, Objects
      <3> QED
        BY <2>1, <3>1, <3>2, <3>3 DEF ObjectInv, Working
    <2> QED
      BY <1>2, <2>2, <2>3 DEF AddFinalizer
  <1>3. CASE GenerateSecret
    <2>1. CASE SetNotReady /\ EndReconcile(TRUE)
      BY <1>3, <2>1, ObjectRefused DEF GenerateSecret, EndReconcile, Working
    <2>2. CASE \E n \in Generated :
                 /\ mem' = [mem EXCEPT !.name = n]
                 /\ memFresh' = memFresh
                 /\ Goto("name")
                 /\ UNCHANGED object
      <3>1. PICK n \in Generated : mem' = [mem EXCEPT !.name = n]
        BY <2>2
      <3>2. mem.name = None
        BY <1>3 DEF GenerateSecret
      <3>3. [mem' EXCEPT !.name = None] = mem
        BY <3>1, <3>2 DEF TypeOK, Objects
      <3>4. mem'.uid = mem.uid /\ mem'.deleting = mem.deleting
        BY <3>1 DEF TypeOK, Objects
      <3> QED
        BY <1>3, <2>2, <3>3, <3>4 DEF GenerateSecret, Goto, ObjectInv, object, Working
    <2> QED
      BY <1>3, <2>1, <2>2 DEF GenerateSecret
  <1>4. CASE SetName
    <2>1. memFresh' = FALSE /\ pc' = "idle" /\ pc \in Working
      BY <1>4 DEF SetName, EndReconcile, Working
    <2> QED
      BY <1>4, <2>1, ObjectWritten DEF SetName
  <1>5. CASE AcquireSecret
    BY <1>5, ObjectElsewhere DEF AcquireSecret, Goto, Working
  <1>6. CASE RefuseSecret
    BY <1>6, ObjectRefused DEF RefuseSecret, EndReconcile, Working
  <1>7. CASE ClaimSecret
    <2>1. CASE UNCHANGED object
      BY <1>7, <2>1, ObjectElsewhere DEF ClaimSecret, Goto, EndReconcile, Working
    <2>2. CASE SetNotReady /\ EndReconcile(TRUE)
      BY <1>7, <2>2, ObjectRefused DEF ClaimSecret, EndReconcile, Working
    <2> QED
      BY <1>7, <2>1, <2>2 DEF ClaimSecret
  <1>8. CASE KeepHtpasswd
    BY <1>8, ObjectElsewhere DEF KeepHtpasswd, Goto, Working
  <1>9. CASE WriteHtpasswd
    BY <1>9, ObjectElsewhere DEF WriteHtpasswd, EndReconcile, Working
  <1>10. CASE RefuseHtpasswd
    BY <1>10, ObjectRefused DEF RefuseHtpasswd, EndReconcile, Working
  <1>11. CASE EnsureNetworking
    BY <1>11, ObjectElsewhere DEF EnsureNetworking, Goto, EndReconcile, Working
  <1>12. CASE EnsureWorkload
    BY <1>12, ObjectElsewhere DEF EnsureWorkload, Goto, EndReconcile, Working
  <1>13. CASE Report
    <2>1. memFresh' = FALSE /\ pc' = "idle" /\ pc \in Working
      BY <1>13 DEF Report, EndReconcile, Working
    <2>2. CASE UNCHANGED object
      BY <2>1, <2>2, ObjectElsewhere
    <2>3. CASE UpdateIronic([mem EXCEPT !.cond = "Other"])
      BY <2>1, <2>3, ObjectWritten
    <2> QED
      BY <1>13, <2>2, <2>3 DEF Report, UpdateRefused
  <1>14. CASE RemoveNetworking
    BY <1>14 DEF RemoveNetworking, Goto, ObjectInv, object, Working
  <1>15. CASE RemoveFinalizer
    <2>1. memFresh' = FALSE /\ pc' = "idle"
      BY <1>15 DEF RemoveFinalizer, EndReconcile
    <2>2. CASE UpdateRefused
      BY <2>1, <2>2, ObjectElsewhere DEF UpdateRefused
    <2>3. CASE UpdateIronic([mem EXCEPT !.finalizer = FALSE])
      <3>1. mem.deleting /\ cache = mem /\ ironic = mem
        BY <1>15, <2>3 DEF RemoveFinalizer, UpdateIronic, ObjectInv
      <3>2. /\ ironic' = Absent
            /\ cacheFresh' => ironic' = ironic
            /\ cache' = cache
        BY <2>3, <3>1 DEF UpdateIronic, Store, Stored, TypeOK, Objects
      <3> QED
        BY <2>1, <3>1, <3>2 DEF ObjectInv, Working, Absent
    <2> QED
      BY <1>15, <2>2, <2>3 DEF RemoveFinalizer
  <1> QED
    BY <1>1, <1>2, <1>3, <1>4, <1>5, <1>6, <1>7, <1>8, <1>9, <1>10, <1>11, <1>12, <1>13,
       <1>14, <1>15
    DEF Reconciler

\* A user changes the object, which stays what it is, or was not there.
LEMMA ObjectByUser ==
  ASSUME TypeOK, ObjectInv, NEW o \in Objects, ChangeIronic(o),
         \/ ironic.uid = 0 /\ o.uid \in Uids /\ ~o.finalizer
         \/ o.uid = ironic.uid /\ o.finalizer = ironic.finalizer
  PROVE  ObjectInv'
  <1>1. /\ ironic' = Stored(o)
        /\ cacheFresh' => cacheFresh /\ ironic' = ironic
        /\ memFresh' = FALSE
        /\ UNCHANGED <<cache, mem, pc>>
    BY DEF ChangeIronic, Store
  <1>2. ironic.finalizer => ironic' = o /\ o.uid = ironic.uid /\ o.finalizer
    BY <1>1, ConstantTypes DEF ObjectInv, Stored
  <1>3. ironic'.finalizer => ironic'.uid \in Uids
    BY <1>1 DEF Stored, Absent, ObjectInv
  <1> QED
    BY <1>1, <1>2, <1>3 DEF ObjectInv, Working

LEMMA ObjectStep ==
  ASSUME TypeOK, ObjectInv, [Next]_vars
  PROVE  ObjectInv'
  <1> USE DEF store, dependents, hand, bounds
  <1>1. CASE UNCHANGED vars
    BY <1>1, ObjectElsewhere DEF vars
  <1>2. CASE TransientError
    BY <1>2, ObjectElsewhere DEF TransientError, EndReconcile
  <1>3. CASE Restart
    BY <1>3 DEF Restart, EndReconcile, ObjectInv, Working
  <1>4. CASE SyncIronic
    BY <1>4 DEF SyncIronic, ObjectInv, Working
  <1>5. CASE \E n \in Names : SyncSecret(n)
    BY <1>5, ObjectElsewhere DEF SyncSecret
  <1>6. CASE GarbageCollector
    BY <1>6, ObjectElsewhere DEF GarbageCollector, CollectSecret,
                                 CollectNetworking, CollectWorkload
  <1>7. CASE CreateIronic
    <2>1. PICK name \in Chosen \cup {None} :
            ChangeIronic([Absent EXCEPT !.uid = births + 1, !.name = name])
      BY <1>7 DEF CreateIronic
    <2>2. births + 1 \in Uids
      BY <1>7, LifecycleBounds DEF LifecycleBounds, CreateIronic, TypeOK, Uids
    <2>3. /\ [Absent EXCEPT !.uid = births + 1, !.name = name] \in Objects
          /\ [Absent EXCEPT !.uid = births + 1, !.name = name].uid = births + 1
          /\ ~[Absent EXCEPT !.uid = births + 1, !.name = name].finalizer
      BY <2>2, ConstantTypes DEF Objects, Names, Absent
    <2> QED
      BY <1>7, <2>1, <2>2, <2>3, ObjectByUser DEF CreateIronic
  <1>8. CASE DeleteIronic
    <2>1. /\ [ironic EXCEPT !.deleting = TRUE] \in Objects
          /\ [ironic EXCEPT !.deleting = TRUE].uid = ironic.uid
          /\ [ironic EXCEPT !.deleting = TRUE].finalizer = ironic.finalizer
      BY DEF TypeOK, Objects
    <2> QED
      BY <1>8, <2>1, ObjectByUser DEF DeleteIronic
  <1>9. CASE ChangeName
    <2>1. PICK name \in Names \cup {None} : ChangeIronic([ironic EXCEPT !.name = name])
      BY <1>9 DEF ChangeName
    <2>2. /\ [ironic EXCEPT !.name = name] \in Objects
          /\ [ironic EXCEPT !.name = name].uid = ironic.uid
          /\ [ironic EXCEPT !.name = name].finalizer = ironic.finalizer
      BY DEF TypeOK, Objects
    <2> QED
      BY <2>1, <2>2, ObjectByUser
  <1>10. CASE \E n \in Names :
                BringSecret(n) \/ ChangePassword(n) \/ ChangeLabel(n) \/ RemoveSecret(n)
    BY <1>10, ObjectElsewhere DEF BringSecret, ChangePassword, ChangeLabel, RemoveSecret,
                                  ChangeSecret
  <1> QED
    BY <1>1, <1>2, <1>3, <1>4, <1>5, <1>6, <1>7, <1>8, <1>9, <1>10, ObjectByReconciler
    DEF Next, Failures, Informers, Users

LEMMA Invariance ==
  /\ Init => TypeOK /\ ObjectInv
  /\ TypeOK /\ ObjectInv /\ [Next]_vars => TypeOK' /\ ObjectInv'
  <1>1. Init => TypeOK
    <2> SUFFICES ASSUME Init PROVE TypeOK
      OBVIOUS
    <2>1. secrets \in [Names -> Secrets]
      <3>1. {NoSecret} \cup [exists : {TRUE}, env : BOOLEAN, owner : {0}, password : {1},
                             htpasswd : {0}] \subseteq Secrets
        <4>1. {0} \subseteq 0 .. MaxUid /\ {0, 1} \subseteq 0 .. MaxPassword
          BY ConstantTypes
        <4>2. [exists : {TRUE}, env : BOOLEAN, owner : {0}, password : {1},
               htpasswd : {0}] \subseteq Secrets
          BY <4>1 DEF Secrets
        <4> QED
          BY <4>2, RecordTypes
      <3> QED
        BY <3>1 DEF Init
    <2>2. seen \in [Names -> Secrets]
      BY <2>1, RecordTypes DEF Init
    <2>3. lag \in [Names -> {"none", "any", "owned"}]
      BY DEF Init
    <2> QED
      BY <2>1, <2>2, <2>3, ConstantTypes, RecordTypes DEF Init, TypeOK, Steps
  <1>2. Init => ObjectInv
    BY DEF Init, ObjectInv, Absent, Working
  <1>3. TypeOK /\ ObjectInv /\ [Next]_vars => TypeOK'
    <2>1. TypeOK /\ UNCHANGED vars => TypeOK'
      BY DEF vars, object, store, dependents, hand, bounds, TypeOK
    <2> QED
      BY <2>1, ReconcilerType, FailuresType, InformersType, GarbageCollectorType, UsersType
      DEF Next
  <1> QED
    BY <1>1, <1>2, <1>3, ObjectStep

\* Type correctness; among others, no secret and no workload ever refers to an
\* object without a UID, although the reconciler reads objects that may be gone.
THEOREM LifecycleTypeCorrect == Spec => []TypeOK
  BY Invariance, PTL DEF Spec

LEMMA UsersCount ==
  ASSUME TypeOK, Users
  PROVE  edits' # edits
  <1>1. \A o : ChangeIronic(o) => Edit
    BY DEF ChangeIronic
  <1>2. \A n, s : ChangeSecret(n, s) => Edit
    BY DEF ChangeSecret
  <1>3. Edit
    BY <1>1, <1>2, Zenon DEF Users, CreateIronic, DeleteIronic, ChangeName, BringSecret,
                             ChangePassword, ChangeLabel, RemoveSecret
  <1>4. edits \in Nat /\ edits' = edits + 1
    BY <1>3 DEF Edit, TypeOK
  <1> QED
    BY <1>4

-----------------------------------------------------------------------------
(* Names, owners, passwords. *)

LEMMA NameStep ==
  ASSUME TypeOK, ObjectInv, Next, ironic'.uid = ironic.uid,
         ironic.name # None, ironic'.name # ironic.name
  PROVE  edits' # edits
  <1> USE DEF object, store
  <1>1. ASSUME NEW o, o.uid = ironic.uid => o.name = ironic.name \/ ironic.name = None,
               Store(o), ironic.uid # 0
        PROVE  FALSE
    BY <1>1 DEF Store, Stored, Absent
  <1>2. memFresh => ironic.uid = mem.uid /\ (pc # "name" => ironic.name = mem.name)
                                         /\ (pc = "name" => ironic.name = None)
    BY DEF ObjectInv, TypeOK, Objects
  <1>3. /\ [mem EXCEPT !.cond = "Failed"].name = mem.name
        /\ [mem EXCEPT !.cond = "Other"].name = mem.name
        /\ [mem EXCEPT !.finalizer = TRUE].name = mem.name
        /\ [mem EXCEPT !.finalizer = FALSE].name = mem.name
    BY DEF TypeOK, Objects
  <1>4. memFresh => ironic.uid # 0
    BY <1>2, ConstantTypes DEF ObjectInv
  <1>5. ironic' = ironic => FALSE
    OBVIOUS
  <1>6. CASE AddFinalizer
    BY <1>1, <1>2, <1>3, <1>4, <1>5, <1>6 DEF AddFinalizer, UpdateIronic, UpdateRefused
  <1>7. CASE SetName
    BY <1>1, <1>2, <1>4, <1>5, <1>7 DEF SetName, UpdateIronic, UpdateRefused, Working
  <1>8. CASE SetNotReady /\ pc \in {"secret", "claim", "htpasswd"}
    BY <1>1, <1>2, <1>3, <1>4, <1>5, <1>8 DEF SetNotReady, Working
  <1>9. CASE Report
    BY <1>1, <1>2, <1>3, <1>4, <1>5, <1>9 DEF Report, UpdateIronic, UpdateRefused, Working
  <1>10. CASE RemoveFinalizer
    <2>1. CASE UpdateRefused
      BY <1>5, <2>1 DEF UpdateRefused
    <2>2. CASE UpdateIronic([mem EXCEPT !.finalizer = FALSE])
      <3>1. memFresh /\ mem = ironic /\ mem.deleting
        BY <1>10, <2>2 DEF RemoveFinalizer, UpdateIronic, ObjectInv
      <3>2. ironic' = Absent
        BY <2>2, <3>1 DEF UpdateIronic, Store, Stored, TypeOK, Objects
      <3>3. ironic.uid # 0
        BY <1>4, <3>1
      <3> QED
        BY <3>2, <3>3 DEF Absent
    <2> QED
      BY <1>10, <2>1, <2>2 DEF RemoveFinalizer
  <1>11. CASE Users
    BY <1>11, UsersCount
  <1>12. \/ ironic' = ironic
         \/ AddFinalizer \/ SetName \/ Report \/ RemoveFinalizer \/ Users
         \/ SetNotReady /\ pc \in {"secret", "claim", "htpasswd"}
    BY DEF Next, Reconciler, Failures, Informers, GarbageCollector, StartReconcile,
           GenerateSecret, AcquireSecret, RefuseSecret, ClaimSecret, KeepHtpasswd,
           WriteHtpasswd, RefuseHtpasswd, EnsureNetworking, EnsureWorkload,
           RemoveNetworking, TransientError, Restart, SyncIronic, SyncSecret,
           CollectSecret, CollectNetworking, CollectWorkload
  <1> QED
    BY <1>5, <1>6, <1>7, <1>8, <1>9, <1>10, <1>11, <1>12

\* The reconciler fills in a name only where there is none, although users
\* write the same field: the write is refused when the object has changed.
THEOREM NameAlwaysKept == Spec => NameKept
  <1>1. TypeOK /\ ObjectInv /\ [Next]_vars =>
          [ironic'.uid = ironic.uid /\ ironic.name \notin {None, ironic'.name}
             => edits' # edits]_vars
    BY NameStep
  <1> QED
    BY <1>1, Invariance, PTL DEF Spec, NameKept

-----------------------------------------------------------------------------
(* The secret in hand and those in the cache. *)

LEMMA SecretElsewhere ==
  ASSUME SecretInv, UNCHANGED store,
         pc' \notin {"claim", "htpasswd"} \/ UNCHANGED <<mem, held, heldFresh, pc>>
  PROVE  SecretInv'
  BY DEF SecretInv, store

\* Someone else writes a secret.
LEMMA SecretByOthers ==
  ASSUME TypeOK, SecretInv, NEW n \in Names, NEW s, StoreSecret(n, s),
         heldFresh' = (heldFresh /\ mem.name # n), UNCHANGED <<mem, held, pc>>
  PROVE  SecretInv'
  <1>1. /\ seen' = seen
        /\ \A k \in Names : k # n => secrets'[k] = secrets[k] /\ lag'[k] = lag[k]
        /\ lag'[n] = "none" => secrets'[n] = secrets[n] /\ lag[n] = "none"
    BY DEF StoreSecret, TypeOK
  <1>2. \A k \in Names : lag'[k] = "none" /\ seen'[k].exists => seen'[k] = secrets'[k]
    BY <1>1 DEF SecretInv
  <1> QED
    BY <1>1, <1>2 DEF SecretInv, TypeOK

\* The reconciler writes the secret in hand.
LEMMA SecretByReconciler ==
  ASSUME TypeOK, SecretInv, NEW n \in Names, NEW s, StoreSecret(n, s),
         \/ pc' \notin {"claim", "htpasswd"}
         \/ pc' = "htpasswd" /\ mem' = mem /\ mem.name = n /\ held' = s
  PROVE  SecretInv'
  <1>1. /\ seen' = seen
        /\ \A k \in Names : k # n => secrets'[k] = secrets[k] /\ lag'[k] = lag[k]
        /\ lag'[n] = "none" => secrets'[n] = secrets[n] /\ lag[n] = "none"
        /\ secrets'[n] = s
    BY DEF StoreSecret, TypeOK
  <1>2. \A k \in Names : lag'[k] = "none" /\ seen'[k].exists => seen'[k] = secrets'[k]
    BY <1>1 DEF SecretInv
  <1> QED
    BY <1>1, <1>2 DEF SecretInv

LEMMA SecretStep ==
  ASSUME TypeOK, SecretInv, [Next]_vars
  PROVE  SecretInv'
  <1> USE DEF object, dependents, hand, bounds
  <1>1. CASE UNCHANGED vars
    BY <1>1, SecretElsewhere DEF vars
  <1>2. CASE StartReconcile \/ AddFinalizer \/ SetName \/ RefuseSecret \/ KeepHtpasswd
             \/ RefuseHtpasswd \/ EnsureNetworking \/ EnsureWorkload \/ Report
             \/ RemoveNetworking \/ RemoveFinalizer \/ TransientError
    <2>1. UNCHANGED store
      BY <1>2 DEF StartReconcile, AddFinalizer, SetName, RefuseSecret, KeepHtpasswd,
                  RefuseHtpasswd, EnsureNetworking, EnsureWorkload, Report,
                  RemoveNetworking, RemoveFinalizer, TransientError
    <2>2. pc' \notin {"claim", "htpasswd"}
      BY <1>2 DEF StartReconcile, FirstStep, AddFinalizer, SetName, RefuseSecret,
                  KeepHtpasswd, RefuseHtpasswd, EnsureNetworking, EnsureWorkload, Report,
                  RemoveNetworking, RemoveFinalizer, TransientError, EndReconcile, Goto
    <2> QED
      BY <2>1, <2>2, SecretElsewhere
  <1>3. CASE GenerateSecret
    <2>1. pc' \notin {"claim", "htpasswd"}
      BY <1>3 DEF GenerateSecret, Goto, EndReconcile
    <2>2. UNCHANGED store \/ \E n \in Names : \E s : StoreSecret(n, s)
      BY <1>3 DEF GenerateSecret, Names
    <2> QED
      BY <2>1, <2>2, SecretElsewhere, SecretByReconciler
  <1>4. CASE AcquireSecret
    <2>1. mem.name \in Names /\ UNCHANGED <<store, mem>>
      BY <1>4 DEF AcquireSecret, TypeOK, Objects
    <2>2. heldFresh' => held' = secrets[mem.name]
      BY <1>4, <2>1 DEF AcquireSecret, Found, FoundFresh, SecretInv
    <2> QED
      BY <2>1, <2>2 DEF SecretInv, store
  <1>5. CASE ClaimSecret
    <2>1. mem.name \in Names
      BY <1>5 DEF ClaimSecret, SecretInv
    <2>2. CASE EndReconcile(TRUE) /\ UNCHANGED store
      BY <2>2, SecretElsewhere DEF EndReconcile
    <2>3. CASE StoreSecret(mem.name, held') /\ Goto("htpasswd") /\ mem' = mem
      BY <2>1, <2>3, SecretByReconciler DEF Goto
    <2> QED
      BY <1>5, <2>2, <2>3 DEF ClaimSecret
  <1>6. CASE WriteHtpasswd
    <2>1. mem.name \in Names /\ pc' = "idle"
      BY <1>6 DEF WriteHtpasswd, SecretInv, EndReconcile
    <2> QED
      BY <1>6, <2>1, SecretElsewhere, SecretByReconciler DEF WriteHtpasswd
  <1>7. CASE Restart
    BY <1>7 DEF Restart, EndReconcile, SecretInv, NoSecret
  <1>8. CASE SyncIronic
    BY <1>8, SecretElsewhere DEF SyncIronic
  <1>9. CASE \E n \in Names : SyncSecret(n)
    BY <1>9 DEF SyncSecret, SecretInv, NoSecret, TypeOK
  <1>10. CASE GarbageCollector
    <2>1. ASSUME NEW n \in Names, CollectSecret(n)
          PROVE  SecretInv'
      BY <2>1, SecretByOthers DEF CollectSecret
    <2>2. CASE CollectNetworking \/ CollectWorkload
      BY <2>2, SecretElsewhere DEF CollectNetworking, CollectWorkload
    <2> QED
      BY <1>10, <2>1, <2>2 DEF GarbageCollector
  <1>11. CASE CreateIronic \/ DeleteIronic \/ ChangeName
    <2>1. \A o : ChangeIronic(o) => UNCHANGED <<store, mem, held, heldFresh, pc>>
      BY DEF ChangeIronic
    <2> QED
      BY <1>11, <2>1, SecretElsewhere DEF CreateIronic, DeleteIronic, ChangeName
  <1>12. ASSUME NEW n \in Names,
                BringSecret(n) \/ ChangePassword(n) \/ ChangeLabel(n) \/ RemoveSecret(n)
         PROVE  SecretInv'
    <2>1. PICK s : ChangeSecret(n, s)
      BY <1>12, Zenon DEF BringSecret, ChangePassword, ChangeLabel, RemoveSecret
    <2> QED
      BY <2>1, SecretByOthers DEF ChangeSecret
  <1> QED
    BY <1>1, <1>2, <1>3, <1>4, <1>5, <1>6, <1>7, <1>8, <1>9, <1>10, <1>11, <1>12
    DEF Next, Reconciler, Failures, Informers, Users

LEMMA SecretInit == Init => SecretInv
  BY DEF Init, SecretInv, NoSecret

\* What becomes of a secret in a step: nothing, or a user's doing, or it goes, or
\* its name is used for a new one, or it gets an owner or an htpasswd.
LEMMA SecretWrites ==
  ASSUME TypeOK, ObjectInv, SecretInv, Next, NEW n \in Names
  PROVE  \/ secrets'[n] = secrets[n]
         \/ Users
         \/ secrets'[n] = NoSecret
         \/ n \in Generated /\ Free(n) /\ secrets'[n].owner = ironic.uid
         \/ secrets'[n] = [secrets[n] EXCEPT !.htpasswd = secrets[n].password]
         \/ secrets'[n] = [secrets[n] EXCEPT !.owner = ironic.uid]
  <1> USE DEF object, dependents, hand, bounds
  <1>1. \A k \in Names : \A s : StoreSecret(k, s)
          => secrets'[n] = IF n = k THEN s ELSE secrets[n]
    BY DEF StoreSecret, TypeOK
  <1>2. CASE GenerateSecret
    <2>1. CASE UNCHANGED store
      BY <2>1 DEF store
    <2>2. CASE \E k \in Generated :
                 Free(k) /\ StoreSecret(k, [exists |-> TRUE, env |-> TRUE, owner |-> mem.uid,
                                            password |-> 1, htpasswd |-> 1])
      <3>1. mem.uid = ironic.uid
        BY <1>2 DEF GenerateSecret, ObjectInv, Working
      <3> QED
        BY <1>1, <2>2, <3>1 DEF Names
    <2> QED
      BY <1>2, <2>1, <2>2 DEF GenerateSecret
  <1>3. CASE ClaimSecret
    <2>1. CASE UNCHANGED store
      BY <2>1 DEF store
    <2>2. CASE /\ heldFresh
               /\ held' = [held EXCEPT !.owner = mem.uid]
               /\ StoreSecret(mem.name, held')
      <3>1. mem.uid = ironic.uid /\ mem.name \in Names /\ held = secrets[mem.name]
        BY <1>3, <2>2 DEF ClaimSecret, ObjectInv, SecretInv, Working
      <3> QED
        BY <1>1, <2>2, <3>1
    <2> QED
      BY <1>3, <2>1, <2>2 DEF ClaimSecret
  <1>4. CASE WriteHtpasswd
    <2>1. CASE UNCHANGED store
      BY <2>1 DEF store
    <2>2. CASE heldFresh /\ StoreSecret(mem.name, [held EXCEPT !.htpasswd = held.password])
      <3>1. mem.name \in Names /\ held = secrets[mem.name]
        BY <1>4, <2>2 DEF WriteHtpasswd, SecretInv
      <3> QED
        BY <1>1, <2>2, <3>1
    <2> QED
      BY <1>4, <2>1, <2>2 DEF WriteHtpasswd
  <1>5. ASSUME NEW k \in Names, CollectSecret(k)
        PROVE  \/ secrets'[n] = secrets[n]
               \/ secrets'[n] = NoSecret
    BY <1>1, <1>5 DEF CollectSecret
  <1>6. \/ secrets' = secrets
        \/ Users \/ GenerateSecret \/ ClaimSecret \/ WriteHtpasswd
        \/ \E k \in Names : CollectSecret(k)
    BY DEF Next, Reconciler, Failures, Informers, GarbageCollector, store, StartReconcile,
           AddFinalizer, SetName, AcquireSecret, RefuseSecret, KeepHtpasswd, RefuseHtpasswd,
           EnsureNetworking, EnsureWorkload, Report, RemoveNetworking, RemoveFinalizer,
           TransientError, Restart, SyncIronic, SyncSecret, CollectNetworking,
           CollectWorkload
  <1> QED
    BY <1>2, <1>3, <1>4, <1>5, <1>6

\* What the operator does to a secret that is there before and after.
LEMMA PasswordStep ==
  ASSUME TypeOK, ObjectInv, SecretInv, Next, NEW n \in Names, Rewritten(n), ~Users
  PROVE  /\ secrets'[n].password = secrets[n].password
         /\ secrets'[n].env = secrets[n].env
         /\ secrets'[n].htpasswd \in {secrets[n].htpasswd, secrets[n].password}
  <1>1. secrets[n] \in Secrets
    BY DEF TypeOK
  <1>2. \/ secrets'[n] = [secrets[n] EXCEPT !.htpasswd = secrets[n].password]
        \/ secrets'[n] = [secrets[n] EXCEPT !.owner = ironic.uid]
    <2>1. secrets'[n] # NoSecret
      BY DEF Rewritten, NoSecret
    <2>2. ~(n \in Generated /\ Free(n)) /\ secrets'[n] # secrets[n]
      BY DEF Rewritten
    <2> QED
      BY <2>1, <2>2, SecretWrites
  <1>3. CASE secrets'[n] = [secrets[n] EXCEPT !.htpasswd = secrets[n].password]
    BY <1>1, <1>3 DEF Secrets
  <1>4. CASE secrets'[n] = [secrets[n] EXCEPT !.owner = ironic.uid]
    BY <1>1, <1>4 DEF Secrets
  <1> QED
    BY <1>2, <1>3, <1>4

\* claimObject and UpdateSecret replace whole secrets by what was read before,
\* and still the operator never puts back an old password, nor an htpasswd of
\* one: the copy is current, or the write is refused.
THEOREM PasswordAlwaysKept == Spec => PasswordKept
  <1>1. TypeOK /\ ObjectInv /\ SecretInv /\ [Next]_vars =>
          [\A n \in Names :
             Rewritten(n)
               => \/ edits' # edits
                  \/ /\ secrets'[n].password = secrets[n].password
                     /\ secrets'[n].env = secrets[n].env
                     /\ secrets'[n].htpasswd \in {secrets[n].htpasswd, secrets[n].password}]_vars
    BY UsersCount, PasswordStep
  <1>2. SecretInv /\ TypeOK /\ [Next]_vars => SecretInv'
    BY SecretStep
  <1> QED
    BY <1>1, <1>2, SecretInit, Invariance, PTL DEF Spec, PasswordKept

\* Users do not give secrets an owner.
LEMMA UsersOwn ==
  ASSUME TypeOK, Users, NEW n \in Names
  PROVE  secrets'[n].owner \in {0, secrets[n].owner}
  <1>1. ASSUME NEW k \in Names, NEW s, ChangeSecret(k, s), s.owner \in {0, secrets[k].owner}
        PROVE  secrets'[n].owner \in {0, secrets[n].owner}
    <2>1. secrets'[n] = IF n = k THEN s ELSE secrets[n]
      BY <1>1 DEF ChangeSecret, StoreSecret, TypeOK
    <2> QED
      BY <1>1, <2>1
  <1>2. CASE CreateIronic \/ DeleteIronic \/ ChangeName
    <2>1. \A o : ChangeIronic(o) => secrets' = secrets
      BY DEF ChangeIronic, store
    <2>2. secrets' = secrets
      BY <1>2, <2>1, Zenon DEF CreateIronic, DeleteIronic, ChangeName
    <2> QED
      BY <2>2
  <1>3. ASSUME NEW k \in Names, BringSecret(k)
        PROVE  secrets'[n].owner \in {0, secrets[n].owner}
    <2>1. PICK env \in BOOLEAN : ChangeSecret(k, [exists |-> TRUE, env |-> env, owner |-> 0,
                                                  password |-> 1, htpasswd |-> 0])
      BY <1>3 DEF BringSecret
    <2> QED
      BY <1>1, <2>1
  <1>4. ASSUME NEW k \in Names, ChangePassword(k)
        PROVE  secrets'[n].owner \in {0, secrets[n].owner}
    <2>1. PICK password : ChangeSecret(k, [secrets[k] EXCEPT !.password = password])
      BY <1>4, Zenon DEF ChangePassword
    <2>2. [secrets[k] EXCEPT !.password = password].owner = secrets[k].owner
      BY DEF TypeOK, Secrets
    <2> QED
      BY <1>1, <2>1, <2>2
  <1>5. ASSUME NEW k \in Names, ChangeLabel(k)
        PROVE  secrets'[n].owner \in {0, secrets[n].owner}
    <2>1. ChangeSecret(k, [secrets[k] EXCEPT !.env = ~@])
      BY <1>5 DEF ChangeLabel
    <2>2. [secrets[k] EXCEPT !.env = ~@].owner = secrets[k].owner
      BY DEF TypeOK, Secrets
    <2> QED
      BY <1>1, <2>1, <2>2
  <1>6. ASSUME NEW k \in Names, RemoveSecret(k)
        PROVE  secrets'[n].owner \in {0, secrets[n].owner}
    <2>1. ChangeSecret(k, NoSecret) /\ NoSecret.owner = 0
      BY <1>6 DEF RemoveSecret, NoSecret
    <2> QED
      BY <1>1, <2>1
  <1> QED
    BY <1>2, <1>3, <1>4, <1>5, <1>6 DEF Users

\* The operator, and the garbage collector, add the object that is there.
LEMMA OwnersStep ==
  ASSUME TypeOK, ObjectInv, SecretInv, Next, NEW n \in Names
  PROVE  secrets'[n].owner \in {0, secrets[n].owner, ironic.uid}
  <1>1. secrets[n] \in Secrets
    BY DEF TypeOK
  <1>2. CASE Users
    BY <1>2, UsersOwn
  <1>3. CASE secrets'[n] = [secrets[n] EXCEPT !.htpasswd = secrets[n].password]
    <2>1. secrets'[n].owner = secrets[n].owner
      BY <1>1, <1>3 DEF Secrets
    <2> QED
      BY <2>1
  <1>4. CASE secrets'[n] = [secrets[n] EXCEPT !.owner = ironic.uid]
    <2>1. secrets'[n].owner = ironic.uid
      BY <1>1, <1>4 DEF Secrets
    <2> QED
      BY <2>1
  <1>5. CASE secrets'[n].owner = ironic.uid \/ secrets'[n] = secrets[n]
    BY <1>5
  <1>6. CASE secrets'[n] = NoSecret
    BY <1>6 DEF NoSecret
  <1> QED
    BY <1>2, <1>3, <1>4, <1>5, <1>6, SecretWrites

\* The same for the Deployments.
LEMMA DependentsStep ==
  ASSUME TypeOK, ObjectInv, Next
  PROVE  /\ net' \in {0, net, ironic.uid}
         /\ workload'.owner \in {0, workload.owner, ironic.uid}
  <1> USE DEF dependents
  <1>1. CASE EnsureNetworking \/ EnsureWorkload
    <2>1. mem.uid = ironic.uid
      BY <1>1 DEF EnsureNetworking, EnsureWorkload, ObjectInv, Working
    <2>2. CASE EnsureNetworking
      BY <2>1, <2>2 DEF EnsureNetworking
    <2>3. CASE EnsureWorkload
      <3>1. \/ workload' = [owner |-> mem.uid, name |-> mem.name, htpasswd |-> held.htpasswd]
            \/ workload' = workload
        BY <2>3, Zenon DEF EnsureWorkload
      <3>2. workload'.owner \in {workload.owner, mem.uid} /\ net' = net
        BY <2>3, <3>1 DEF EnsureWorkload
      <3> QED
        BY <2>1, <3>2
    <2> QED
      BY <1>1, <2>2, <2>3
  <1>2. CASE RemoveNetworking \/ CollectNetworking \/ CollectWorkload
    BY <1>2 DEF RemoveNetworking, CollectNetworking, CollectWorkload, NoWorkload
  <1>3. \/ UNCHANGED dependents
        \/ EnsureNetworking \/ EnsureWorkload
        \/ RemoveNetworking \/ CollectNetworking \/ CollectWorkload
    <2>1. Users => UNCHANGED dependents
      <3>1. /\ \A o : ChangeIronic(o) => UNCHANGED dependents
            /\ \A k, s : ChangeSecret(k, s) => UNCHANGED dependents
        BY DEF ChangeIronic, ChangeSecret
      <3> QED
        BY <3>1, Zenon DEF Users, CreateIronic, DeleteIronic, ChangeName, BringSecret,
                           ChangePassword, ChangeLabel, RemoveSecret
    <2> QED
      BY <2>1
      DEF Next, Reconciler, Failures, Informers, GarbageCollector, StartReconcile,
          AddFinalizer, GenerateSecret, SetName, AcquireSecret, RefuseSecret, ClaimSecret,
          KeepHtpasswd, WriteHtpasswd, RefuseHtpasswd, Report, RemoveFinalizer,
          TransientError, Restart, SyncIronic, SyncSecret, CollectSecret
  <1> QED
    BY <1>1, <1>2, <1>3

\* Nothing is created for an object that is gone: the finalizer is there before
\* the first dependent and goes after the last one, and the one worker never
\* reads an older copy than the one it removed the finalizer from.
THEOREM OwnersAlwaysExist == Spec => OwnersExist
  <1>1. TypeOK /\ ObjectInv /\ SecretInv /\ [Next]_vars =>
          [/\ \A n \in Names : secrets'[n].owner \in {0, secrets[n].owner, ironic.uid}
           /\ net' \in {0, net, ironic.uid}
           /\ workload'.owner \in {0, workload.owner, ironic.uid}]_vars
    BY OwnersStep, DependentsStep
  <1>2. SecretInv /\ TypeOK /\ [Next]_vars => SecretInv'
    BY SecretStep
  <1> QED
    BY <1>1, <1>2, SecretInit, Invariance, PTL DEF Spec, OwnersExist

-----------------------------------------------------------------------------
(* The credentials that are served.  A copy may be outdated wherever the      *)
(* reconciler reads one, and whatever makes it so is going to wake it up.     *)

\* The reconciler is going to look at the secret again.
Noticed(n) == queued \/ lag[n] = "owned"

\* The copy of a secret that had an owner is current, or its owner will be told.
NoticedInv == \A n \in Names : seen[n].owner # 0 => lag[n] = "owned" \/ seen[n] = secrets[n]

\* An object that is being deleted is held by its finalizer, and a reconcile
\* that works on an old object is followed by another one.
StaleInv ==
  /\ ironic.deleting => ironic.finalizer
  /\ pc # "idle" /\ ~memFresh => queued \/ ~cacheFresh

\* The steps of a reconcile that has claimed its secret.
Holding == {"htpasswd", "networking", "workload", "report"}

HoldInv ==
  /\ pc \in Holding => /\ mem.name \in Names
                       /\ held.owner = mem.uid
                       /\ Noticed(mem.name) \/ held = secrets[mem.name]
  /\ pc \in Holding \ {"htpasswd"} => held.htpasswd = held.password
  /\ pc = "report" =>
       queued \/ workload = [owner |-> mem.uid, name |-> mem.name, htpasswd |-> held.htpasswd]

\* What a reconcile leaves behind when it is not followed by another one.
ServedInv ==
  pc = "idle" /\ ~queued /\ cacheFresh /\ ironic.uid # 0 =>
    /\ ~ironic.deleting /\ ironic.finalizer /\ ironic.name \in Names
    /\ lag[ironic.name] = "owned" \/ Served

\* Secrets with an owner do not change unnoticed.
SecretsNoticed ==
  \A n \in Names : /\ lag[n] = "owned" => lag'[n] = "owned"
                   /\ secrets'[n] = secrets[n] \/ lag'[n] = "owned" \/ secrets[n].owner = 0

LEMMA WriteNoticed ==
  ASSUME TypeOK, NoticedInv, NEW n \in Names, NEW s, StoreSecret(n, s)
  PROVE  NoticedInv' /\ SecretsNoticed
  <1>1. /\ seen' = seen
        /\ \A k \in Names : secrets'[k] = IF k = n THEN s ELSE secrets[k]
        /\ \A k \in Names : k # n => lag'[k] = lag[k]
        /\ lag'[n] = IF s = secrets[n] THEN lag[n]
                     ELSE IF lag[n] = "owned" \/ {secrets[n].owner, s.owner} # {0} THEN "owned"
                     ELSE "any"
    BY DEF StoreSecret, TypeOK
  <1>2. s = secrets[n] \/ lag'[n] = "owned" \/ secrets[n].owner = 0
    BY <1>1
  <1>3. lag[n] = "owned" => lag'[n] = "owned"
    BY <1>1
  <1>4. SecretsNoticed
    BY <1>1, <1>2, <1>3 DEF SecretsNoticed
  <1>5. \A k \in Names : seen'[k].owner # 0 => lag'[k] = "owned" \/ seen'[k] = secrets'[k]
    BY <1>1, <1>4 DEF NoticedInv, SecretsNoticed
  <1> QED
    BY <1>4, <1>5 DEF NoticedInv

LEMMA NoticedStep ==
  ASSUME TypeOK, SecretInv, NoticedInv, [Next]_vars
  PROVE  NoticedInv'
  <1> USE DEF object, dependents, hand, bounds
  <1>1. CASE UNCHANGED store
    BY <1>1 DEF store, NoticedInv
  <1>2. CASE \E n \in Names : \E s : StoreSecret(n, s)
    BY <1>2, WriteNoticed
  <1>3. CASE Restart
    BY <1>3 DEF Restart, NoticedInv, NoSecret
  <1>4. CASE \E n \in Names : SyncSecret(n)
    BY <1>4 DEF SyncSecret, NoticedInv, NoSecret, TypeOK
  <1>5. CASE Reconciler
    <2>1. mem.name # None => mem.name \in Names
      BY DEF TypeOK, Objects
    <2>2. CASE GenerateSecret
      BY <1>1, <1>2, <2>2 DEF GenerateSecret, Names
    <2>3. CASE ClaimSecret \/ WriteHtpasswd
      BY <1>1, <1>2, <2>3 DEF ClaimSecret, WriteHtpasswd, SecretInv
    <2>4. CASE ~GenerateSecret /\ ~ClaimSecret /\ ~WriteHtpasswd
      BY <1>1, <1>5, <2>4
      DEF Reconciler, StartReconcile, AddFinalizer, SetName, AcquireSecret, RefuseSecret,
          KeepHtpasswd, RefuseHtpasswd, EnsureNetworking, EnsureWorkload, Report,
          RemoveNetworking, RemoveFinalizer
    <2> QED
      BY <2>2, <2>3, <2>4
  <1>6. CASE GarbageCollector
    BY <1>1, <1>2, <1>6 DEF GarbageCollector, CollectSecret, CollectNetworking, CollectWorkload
  <1>7. CASE CreateIronic \/ DeleteIronic \/ ChangeName
    BY <1>1, <1>7 DEF CreateIronic, DeleteIronic, ChangeName, ChangeIronic
  <1>8. ASSUME NEW n \in Names,
               BringSecret(n) \/ ChangePassword(n) \/ ChangeLabel(n) \/ RemoveSecret(n)
        PROVE  NoticedInv'
    <2>1. PICK s : ChangeSecret(n, s)
      BY <1>8, Zenon DEF BringSecret, ChangePassword, ChangeLabel, RemoveSecret
    <2> QED
      BY <1>2, <2>1 DEF ChangeSecret
  <1>9. CASE TransientError \/ SyncIronic \/ UNCHANGED vars
    BY <1>1, <1>9 DEF TransientError, SyncIronic, vars
  <1> QED
    BY <1>3, <1>4, <1>5, <1>6, <1>7, <1>8, <1>9 DEF Next, Failures, Informers, Users

\* A reconcile that ends with a requeue.
LEMMA ServedByEnd ==
  ASSUME EndReconcile(TRUE), StaleInv, ironic' = ironic \/ \E o : ironic' = Stored(o)
  PROVE  StaleInv' /\ HoldInv' /\ ServedInv'
  <1>1. ironic'.deleting => ironic'.finalizer
    BY DEF StaleInv, Stored, Absent
  <1> QED
    BY <1>1 DEF EndReconcile, StaleInv, HoldInv, ServedInv, Holding

\* Someone else's step that wakes the reconciler up.
LEMMA ServedByWaking ==
  ASSUME StaleInv, HoldInv, queued', UNCHANGED <<ironic, mem, held, pc>>
  PROVE  StaleInv' /\ HoldInv' /\ ServedInv'
  BY DEF StaleInv, HoldInv, ServedInv, Noticed

\* Someone else's step on secrets.
LEMMA ServedByOthers ==
  ASSUME TypeOK, ObjectInv, StaleInv, HoldInv, ServedInv, SecretsNoticed,
         UNCHANGED <<ironic, cacheFresh, mem, memFresh, held, workload, queued, pc>>
  PROVE  StaleInv' /\ HoldInv' /\ ServedInv'
  <1>1. StaleInv'
    BY DEF StaleInv
  <1>2. ASSUME pc \in Holding
        PROVE  Noticed(mem.name)' \/ held = secrets'[mem.name]
    <2>1. held.owner # 0 /\ mem.name \in Names
      BY <1>2, ConstantTypes DEF HoldInv, ObjectInv, Holding
    <2> QED
      BY <1>2, <2>1 DEF HoldInv, SecretsNoticed, Noticed
  <1>3. HoldInv'
    BY <1>2 DEF HoldInv
  <1>4. ASSUME pc = "idle", ~queued, cacheFresh, ironic.uid # 0
        PROVE  lag'[ironic.name] = "owned" \/ Served'
    <2>1. ironic.name \in Names /\ (lag[ironic.name] = "owned" \/ Served)
      BY <1>4 DEF ServedInv
    <2> QED
      BY <1>4, <2>1 DEF SecretsNoticed, Served
  <1>5. ServedInv'
    BY <1>4 DEF ServedInv
  <1> QED
    BY <1>1, <1>3, <1>5

\* A user's change of the object.
LEMMA ServedByUser ==
  ASSUME TypeOK, StaleInv, HoldInv, NEW o, ChangeIronic(o), Stored(o) # ironic
  PROVE  StaleInv' /\ HoldInv' /\ ServedInv'
  <1>1. /\ ironic' = Stored(o) /\ ~cacheFresh' /\ ~memFresh'
        /\ UNCHANGED <<secrets, lag, workload, mem, held, queued, pc>>
    BY DEF ChangeIronic, Store, store, dependents
  <1>2. ironic'.deleting => ironic'.finalizer
    BY <1>1 DEF Stored, Absent
  <1> QED
    BY <1>1, <1>2 DEF StaleInv, HoldInv, ServedInv, Noticed

LEMMA ServedByReconciler ==
  ASSUME TypeOK, ObjectInv, SecretInv, NoticedInv, StaleInv, HoldInv, ServedInv, Reconciler
  PROVE  StaleInv' /\ HoldInv' /\ ServedInv'
  <1> USE DEF object, store, dependents, hand, bounds
  <1>1. CASE StartReconcile
    <2>1. /\ UNCHANGED <<ironic, cache, cacheFresh>> /\ ~queued'
          /\ pc' = FirstStep(cache)
          /\ pc' # "idle" => memFresh' = cacheFresh
      BY <1>1 DEF StartReconcile
    <2>2. pc' \notin Holding
      BY <2>1 DEF FirstStep, Holding
    <2>3. cacheFresh /\ ironic.uid # 0 => pc' # "idle"
      BY <2>1 DEF FirstStep, ObjectInv, StaleInv
    <2> QED
      BY <2>1, <2>2, <2>3 DEF StaleInv, HoldInv, ServedInv, Holding
  <1>2. ASSUME EndReconcile(TRUE),
               \/ UNCHANGED object
               \/ SetNotReady
               \/ \E o : UpdateIronic(o) \/ UpdateRefused
        PROVE  StaleInv' /\ HoldInv' /\ ServedInv'
    <2>1. ironic' = ironic \/ \E o : ironic' = Stored(o)
      BY <1>2 DEF SetNotReady, UpdateIronic, UpdateRefused, Store
    <2> QED
      BY <1>2, <2>1, ServedByEnd
  <1>3. CASE AddFinalizer \/ SetName \/ RefuseSecret \/ RefuseHtpasswd \/ RemoveFinalizer
    BY <1>2, <1>3 DEF AddFinalizer, SetName, RefuseSecret, RefuseHtpasswd, RemoveFinalizer
  <1>4. CASE WriteHtpasswd
    BY <1>2, <1>4 DEF WriteHtpasswd
  <1>5. CASE GenerateSecret
    <2>1. CASE SetNotReady /\ EndReconcile(TRUE)
      BY <1>2, <2>1
    <2>2. CASE Goto("name") /\ UNCHANGED object /\ memFresh' = memFresh
      BY <1>5, <2>2 DEF GenerateSecret, Goto, StaleInv, HoldInv, ServedInv, Holding
    <2> QED
      BY <1>5, <2>1, <2>2 DEF GenerateSecret
  <1>6. CASE AcquireSecret
    <2>1. /\ UNCHANGED <<ironic, cacheFresh, secrets, lag, mem, memFresh, queued>>
          /\ pc = "secret" /\ mem.name \in Names
          /\ held' = Found(mem.name)
          /\ pc' = IF held'.owner = mem.uid THEN "htpasswd" ELSE "claim"
      BY <1>6 DEF AcquireSecret, Goto, TypeOK, Objects
    <2>2. mem.uid # 0
      BY <2>1, ConstantTypes DEF ObjectInv
    <2>3. pc' = "htpasswd" => lag[mem.name] = "owned" \/ held' = secrets[mem.name]
      BY <2>1, <2>2 DEF Found, NoticedInv
    <2> QED
      BY <2>1, <2>3 DEF StaleInv, HoldInv, ServedInv, Holding, Noticed
  <1>7. CASE ClaimSecret
    <2>1. CASE EndReconcile(TRUE)
      BY <1>2, <1>7, <2>1 DEF ClaimSecret
    <2>2. CASE /\ held' = [held EXCEPT !.owner = mem.uid]
               /\ StoreSecret(mem.name, held')
               /\ Goto("htpasswd")
               /\ UNCHANGED <<object, mem, memFresh>>
      <3>1. mem.name \in Names /\ held'.owner = mem.uid
        BY <1>7, <2>2 DEF ClaimSecret, SecretInv, TypeOK, Secrets
      <3>2. secrets'[mem.name] = held'
        BY <2>2, <3>1 DEF StoreSecret, TypeOK
      <3> QED
        BY <1>7, <2>2, <3>1, <3>2
        DEF ClaimSecret, Goto, StaleInv, HoldInv, ServedInv, Holding
    <2> QED
      BY <1>7, <2>1, <2>2 DEF ClaimSecret
  <1>8. CASE KeepHtpasswd
    BY <1>8 DEF KeepHtpasswd, Goto, NeedsUpdating, StaleInv, HoldInv, ServedInv, Holding, Noticed
  <1>9. CASE EnsureNetworking
    <2>1. CASE EndReconcile(TRUE)
      BY <1>2, <1>9, <2>1 DEF EnsureNetworking
    <2>2. CASE Goto("workload") /\ UNCHANGED hand
      BY <1>9, <2>2
      DEF EnsureNetworking, Goto, StaleInv, HoldInv, ServedInv, Holding, Noticed
    <2> QED
      BY <1>9, <2>1, <2>2 DEF EnsureNetworking
  <1>10. CASE EnsureWorkload
    <2>1. CASE EndReconcile(TRUE)
      BY <1>2, <1>10, <2>1 DEF EnsureWorkload
    <2>2. CASE /\ workload' = [owner |-> mem.uid, name |-> mem.name, htpasswd |-> held.htpasswd]
               /\ Goto("report") /\ UNCHANGED hand
      BY <1>10, <2>2
      DEF EnsureWorkload, Goto, StaleInv, HoldInv, ServedInv, Holding, Noticed
    <2> QED
      BY <1>10, <2>1, <2>2 DEF EnsureWorkload
  <1>11. CASE Report
    <2>1. CASE EndReconcile(TRUE)
      BY <1>2, <1>11, <2>1 DEF Report
    <2>2. CASE /\ EndReconcile(FALSE)
               /\ UNCHANGED object \/ UpdateIronic([mem EXCEPT !.cond = "Other"])
      <3>1. /\ pc = "report" /\ pc' = "idle" /\ (queued => queued')
            /\ UNCHANGED <<secrets, lag, workload>>
        BY <1>11, <2>2 DEF Report, EndReconcile
      <3>2. [mem EXCEPT !.cond = "Other"].deleting = mem.deleting
        BY DEF TypeOK, Objects
      <3>3. \/ ironic' = ironic /\ cacheFresh' = cacheFresh
            \/ memFresh /\ ironic' = [mem EXCEPT !.cond = "Other"]
                        /\ cacheFresh' = (cacheFresh /\ ironic' = ironic)
        BY <2>2, <3>1, <3>2 DEF UpdateIronic, Store, Stored, ObjectInv, Working
      <3>4. ironic'.deleting => ironic'.finalizer
        BY <3>1, <3>2, <3>3 DEF StaleInv, ObjectInv, Working
      <3>5. ASSUME ~queued', cacheFresh'
            PROVE  /\ ~ironic'.deleting /\ ironic'.finalizer /\ ironic'.name \in Names
                   /\ lag'[ironic'.name] = "owned" \/ Served'
        <4>1. ironic' = ironic /\ cacheFresh /\ ~queued
          BY <3>1, <3>3, <3>5
        <4>2. ironic = mem
          BY <3>1, <4>1 DEF StaleInv, ObjectInv
        <4>3. ~mem.deleting /\ mem.finalizer /\ mem.name \in Names
          BY <3>1, <4>2 DEF ObjectInv, Working, HoldInv, Holding
        <4>4. lag[mem.name] = "owned" \/ held = secrets[mem.name]
          BY <3>1, <4>1 DEF HoldInv, Holding, Noticed
        <4>5. /\ held.owner = mem.uid /\ held.htpasswd = held.password
              /\ workload = [owner |-> mem.uid, name |-> mem.name, htpasswd |-> held.htpasswd]
          BY <3>1, <4>1 DEF HoldInv, Holding
        <4>6. mem.name # None
          BY <4>3, ConstantTypes
        <4> QED
          BY <3>1, <4>1, <4>2, <4>3, <4>4, <4>5, <4>6 DEF Served
      <3> QED
        BY <3>1, <3>4, <3>5 DEF StaleInv, HoldInv, ServedInv, Holding
    <2> QED
      BY <1>11, <2>1, <2>2 DEF Report
  <1>12. CASE RemoveNetworking
    BY <1>12 DEF RemoveNetworking, Goto, StaleInv, HoldInv, ServedInv, Holding
  <1> QED
    BY <1>1, <1>3, <1>4, <1>5, <1>6, <1>7, <1>8, <1>9, <1>10, <1>11, <1>12 DEF Reconciler

LEMMA ServedStep ==
  ASSUME TypeOK, ObjectInv, SecretInv, NoticedInv, StaleInv, HoldInv, ServedInv, [Next]_vars
  PROVE  StaleInv' /\ HoldInv' /\ ServedInv'
  <1> USE DEF object, store, dependents, hand, bounds
  <1>1. UNCHANGED store => SecretsNoticed
    BY DEF SecretsNoticed
  <1>2. CASE TransientError \/ Restart
    BY <1>2, ServedByEnd DEF TransientError, Restart
  <1>3. CASE SyncIronic
    BY <1>3, ServedByWaking DEF SyncIronic
  <1>4. ASSUME NEW n \in Names, SyncSecret(n)
        PROVE  StaleInv' /\ HoldInv' /\ ServedInv'
    <2>1. CASE lag[n] = "owned"
      BY <1>4, <2>1, ServedByWaking DEF SyncSecret
    <2>2. CASE lag[n] # "owned"
      <3>1. SecretsNoticed
        BY <1>4, <2>2 DEF SyncSecret, SecretsNoticed, TypeOK
      <3> QED
        BY <1>4, <2>2, <3>1, ServedByOthers DEF SyncSecret, TypeOK
    <2> QED
      BY <2>1, <2>2
  <1>5. ASSUME NEW n \in Names, CollectSecret(n)
        PROVE  StaleInv' /\ HoldInv' /\ ServedInv'
    BY <1>5, WriteNoticed, ServedByOthers DEF CollectSecret
  <1>6. CASE CollectNetworking \/ CollectWorkload
    BY <1>6, ServedByWaking DEF CollectNetworking, CollectWorkload
  <1>7. CASE CreateIronic
    <2>1. PICK name \in Chosen \cup {None} :
            ChangeIronic([Absent EXCEPT !.uid = births + 1, !.name = name])
      BY <1>7 DEF CreateIronic
    <2>2. [Absent EXCEPT !.uid = births + 1, !.name = name].uid = births + 1
          /\ ~[Absent EXCEPT !.uid = births + 1, !.name = name].deleting
      BY DEF Absent
    <2>3. births + 1 # 0 /\ ironic.uid = 0
      BY <1>7 DEF CreateIronic, TypeOK
    <2> QED
      BY <2>1, <2>2, <2>3, ServedByUser DEF Stored
  <1>8. CASE DeleteIronic
    <2>1. [ironic EXCEPT !.deleting = TRUE].deleting
      BY DEF TypeOK, Objects
    <2>2. Absent.uid = 0
      BY DEF Absent
    <2>3. Stored([ironic EXCEPT !.deleting = TRUE]) # ironic
      BY <1>8, <2>1, <2>2 DEF DeleteIronic, Stored
    <2> QED
      BY <1>8, <2>3, ServedByUser DEF DeleteIronic
  <1>9. CASE ChangeName
    <2>1. PICK name \in Names \cup {None} :
            name # ironic.name /\ ChangeIronic([ironic EXCEPT !.name = name])
      BY <1>9 DEF ChangeName
    <2>2. /\ [ironic EXCEPT !.name = name].name = name
          /\ [ironic EXCEPT !.name = name].deleting = ironic.deleting
          /\ [ironic EXCEPT !.name = name].finalizer = ironic.finalizer
      BY DEF TypeOK, Objects
    <2> QED
      BY <2>1, <2>2, ServedByUser DEF Stored, StaleInv
  <1>10. ASSUME NEW n \in Names,
                BringSecret(n) \/ ChangePassword(n) \/ ChangeLabel(n) \/ RemoveSecret(n)
         PROVE  StaleInv' /\ HoldInv' /\ ServedInv'
    <2>1. PICK s : ChangeSecret(n, s)
      BY <1>10, Zenon DEF BringSecret, ChangePassword, ChangeLabel, RemoveSecret
    <2> QED
      BY <2>1, WriteNoticed, ServedByOthers DEF ChangeSecret
  <1>11. CASE UNCHANGED vars
    BY <1>1, <1>11, ServedByOthers DEF vars
  <1> QED
    BY <1>2, <1>3, <1>4, <1>5, <1>6, <1>7, <1>8, <1>9, <1>10, <1>11, ServedByReconciler
    DEF Next, Failures, Informers, GarbageCollector, Users

\* Once all is quiet, Ironic accepts the password that is in the secret the spec
\* names: the secret is read from a cache that lags and, being owned, tells the
\* reconciler of every change, whoever edits, removes, relabels or replaces it,
\* and whichever object of the name is there.
THEOREM CredentialsAlwaysCurrent == Spec => []CredentialsCurrent
  <1>1. Init => NoticedInv /\ StaleInv /\ HoldInv /\ ServedInv
    <2> SUFFICES ASSUME Init PROVE NoticedInv /\ StaleInv /\ HoldInv /\ ServedInv
      OBVIOUS
    <2>1. \A n \in Names : seen[n] = secrets[n] \/ seen[n] = NoSecret
      BY DEF Init
    <2> QED
      BY <2>1 DEF Init, Absent, NoSecret, NoticedInv, StaleInv, HoldInv, ServedInv, Holding
  <1>2. TypeOK /\ ObjectInv /\ SecretInv /\ NoticedInv /\ StaleInv /\ HoldInv /\ ServedInv
          /\ [Next]_vars
          => NoticedInv' /\ StaleInv' /\ HoldInv' /\ ServedInv'
    BY NoticedStep, ServedStep
  <1>3. TypeOK /\ ServedInv => CredentialsCurrent
    BY DEF TypeOK, ServedInv, CredentialsCurrent, Quiescent
  <1> QED
    BY <1>1, <1>2, <1>3, Invariance, SecretInit, SecretStep, PTL DEF Spec

=============================================================================
