----------------------- MODULE NetworkingServiceProofs -----------------------
(***************************************************************************)
(* Theorems about NetworkingService, for any bounds: type correctness, the *)
(* safety of users' secrets, the order networking before Ironic, and, once *)
(* all is quiet, that nothing is left and that the pods are current.       *)
(***************************************************************************)
EXTENDS NetworkingService, TLAPS

-----------------------------------------------------------------------------
(* Types. *)

LEMMA RoleTypes ==
  /\ "config" \in Roles
  /\ \A s \in Specs, r \in Roles : NameOf(s, r) \in Names
  /\ NotStarted \in Specs
  BY RolesAssumption DEF RolesAssumption, NameOf, Names, Specs, NotStarted

LEMMA SecretTypes ==
  /\ NoSecret \in Secrets
  /\ Placeholder \in Secrets
  /\ \A s \in Secrets : Visible(s) \in Secrets
  <1>1. 0 \in 0 .. MaxContent
    BY NetworkingBounds DEF NetworkingBounds
  <1> QED
    BY <1>1 DEF NoSecret, Placeholder, Secrets, Makers, Visible

LEMMA DeploymentTypes ==
  /\ NoDeployment \in Deployments
  /\ \A d \in Deployments, p \in {"absent", "starting", "up", "down"} :
       [d EXCEPT !.phase = p] \in Deployments
  <1>1. 0 \in 0 .. MaxContent
    BY NetworkingBounds DEF NetworkingBounds
  <1>2. NoTemplate \in Templates
    BY <1>1 DEF NoTemplate, Templates, Names
  <1> QED
    BY <1>2 DEF NoDeployment, Deployments

LEMMA EndReconcileType ==
  ASSUME TypeOK, NEW requeue \in BOOLEAN, EndReconcile(requeue)
  PROVE  /\ pc' \in Steps
         /\ conf' \in Specs
         /\ role' \in Roles
         /\ held' \in [Roles -> Secrets]
         /\ queued' \in BOOLEAN
  BY RoleTypes, SecretTypes DEF TypeOK, EndReconcile, Steps

LEMMA NextRoleType ==
  ASSUME NEW again \in Steps, NEW after \in Steps, NextRole(again, after)
  PROVE  role' \in Roles /\ pc' \in Steps
  BY RoleTypes DEF NextRole

LEMMA ReconcilerType ==
  ASSUME TypeOK, Reconciler
  PROVE  TypeOK'
  <1> USE DEF caches, cluster
  <1>1. Current \in Names
    BY RoleTypes DEF TypeOK, Current
  <1>2. CASE StartReconcile
    BY <1>2 DEF StartReconcile, TypeOK, Steps
  <1>3. CASE EnsureSecret
    BY <1>3 DEF EnsureSecret, Goto, TypeOK, Steps
  <1>4. CASE CreateSecret
    <2>1. secrets' \in [Names -> Secrets]
      BY <1>4, <1>1, SecretTypes DEF CreateSecret, TypeOK
    <2> QED
      BY <1>4, <2>1 DEF CreateSecret, Goto, TypeOK, Steps
  <1>5. CASE ObtainSecret
    <2>1. Found(Current) \in Secrets
      BY <1>1 DEF Found, TypeOK
    <2>2. held' \in [Roles -> Secrets]
      BY <1>5, <2>1 DEF ObtainSecret, TypeOK
    <2>3. role' \in Roles /\ pc' \in Steps
      BY <1>5, NextRoleType DEF ObtainSecret, Steps
    <2> QED
      BY <1>5, <2>2, <2>3 DEF ObtainSecret, TypeOK
  <1>6. CASE RefuseSecret
    <2>1. EndReconcile(TRUE)
      BY <1>6 DEF RefuseSecret
    <2> QED
      BY <1>6, <2>1, EndReconcileType DEF RefuseSecret, TypeOK
  <1>7. CASE WriteDeployment
    <2>1. /\ dep' \in Deployments /\ depFresh' \in BOOLEAN
          /\ \/ Goto("service") /\ role' = role
             \/ EndReconcile(TRUE)
      <3>1. CASE UNCHANGED <<dep, depFresh>> /\ EndReconcile(TRUE)
        BY <3>1 DEF TypeOK
      <3>2. CASE /\ dep' = [uses  |-> [r \in Roles |-> <<NameOf(conf, r), held[r].content>>],
                            phase |-> IF dep.phase = "absent" THEN "starting" ELSE dep.phase]
                 /\ depFresh' = (dep' = dep)
                 /\ Goto("service")
                 /\ role' = role
        <4>1. [r \in Roles |-> <<NameOf(conf, r), held[r].content>>] \in Templates
          BY RoleTypes DEF TypeOK, Templates, Secrets
        <4>2. (IF dep.phase = "absent" THEN "starting" ELSE dep.phase)
                \in {"absent", "starting", "up", "down"}
          BY DEF TypeOK, Deployments
        <4> QED
          BY <3>2, <4>1, <4>2 DEF Deployments
      <3> QED
        BY <1>7, <3>1, <3>2 DEF WriteDeployment
    <2>2. UNCHANGED <<spec, caches, secrets, svc, ironic, edits, faults>>
      BY <1>7 DEF WriteDeployment
    <2>3. CASE Goto("service") /\ role' = role
      BY <2>1, <2>2, <2>3 DEF Goto, TypeOK, Steps
    <2>4. CASE EndReconcile(TRUE)
      BY <2>1, <2>2, <2>4, EndReconcileType DEF TypeOK
    <2> QED
      BY <2>1, <2>3, <2>4
  <1>8. CASE WriteService
    <2>1. UNCHANGED <<spec, caches, secrets, dep, depFresh, ironic, edits, faults>>
      BY <1>8 DEF WriteService
    <2>2. CASE svc' = TRUE /\ Goto("check") /\ role' = role
      BY <2>1, <2>2 DEF Goto, TypeOK, Steps
    <2>3. CASE svc' = svc /\ EndReconcile(TRUE)
      BY <2>1, <2>3, EndReconcileType DEF TypeOK
    <2> QED
      BY <1>8, <2>2, <2>3 DEF WriteService
  <1>9. CASE CheckDeployment
    <2>1. CASE Goto("ironic") /\ role' = role
      BY <1>9, <2>1 DEF CheckDeployment, Goto, TypeOK, Steps
    <2>2. CASE EndReconcile(TRUE)
      BY <1>9, <2>2, EndReconcileType DEF CheckDeployment, TypeOK
    <2> QED
      BY <1>9, <2>1, <2>2 DEF CheckDeployment
  <1>10. CASE DropSecret
    <2>1. role' \in Roles /\ pc' \in Steps
      BY <1>10, NextRoleType DEF DropSecret, TypeOK, Steps
    <2> QED
      BY <1>10, <2>1 DEF DropSecret, TypeOK
  <1>11. CASE DeleteSecret
    <2>1. role' \in Roles /\ pc' \in Steps
      BY <1>11, NextRoleType DEF DeleteSecret, Steps
    <2>2. secrets' \in [Names -> Secrets]
      BY <1>11, <1>1, SecretTypes DEF DeleteSecret, TypeOK
    <2> QED
      BY <1>11, <2>1, <2>2 DEF DeleteSecret, TypeOK
  <1>12. CASE RemoveDeployment
    BY <1>12, DeploymentTypes DEF RemoveDeployment, Goto, TypeOK, Steps
  <1>13. CASE RemoveService
    BY <1>13 DEF RemoveService, Goto, TypeOK, Steps
  <1>14. CASE WriteIronic
    <2>1. PICK requeue \in BOOLEAN : EndReconcile(requeue)
      BY <1>14 DEF WriteIronic
    <2>2. ironic' \in {"none", "plain", "networked"}
      BY <1>14 DEF WriteIronic
    <2> QED
      BY <1>14, <2>1, <2>2, EndReconcileType DEF WriteIronic, TypeOK
  <1> QED
    BY <1>2, <1>3, <1>4, <1>5, <1>6, <1>7, <1>8, <1>9, <1>10, <1>11, <1>12, <1>13, <1>14
    DEF Reconciler

LEMMA FailuresType ==
  ASSUME TypeOK, Failures
  PROVE  TypeOK'
  <1> USE DEF caches, cluster, worker
  <1>1. ASSUME faults < MaxFaults, faults' = faults + 1
        PROVE  faults' \in 0 .. MaxFaults
    BY <1>1, NetworkingBounds DEF NetworkingBounds, TypeOK
  <1>2. CASE TransientError
    <2>1. EndReconcile(TRUE)
      BY <1>2 DEF TransientError
    <2> QED
      BY <1>1, <1>2, <2>1, EndReconcileType DEF TransientError, TypeOK
  <1>3. CASE Restart
    <2>1. EndReconcile(TRUE)
      BY <1>3 DEF Restart
    <2>2. seen' \in [Names -> Secrets]
      BY <1>3, SecretTypes DEF Restart, TypeOK
    <2> QED
      BY <1>1, <1>3, <2>1, <2>2, EndReconcileType DEF Restart, TypeOK
  <1>4. CASE PodDies
    BY <1>1, <1>4, DeploymentTypes DEF PodDies, TypeOK
  <1> QED
    BY <1>2, <1>3, <1>4 DEF Failures

LEMMA UsersType ==
  ASSUME TypeOK, Users
  PROVE  TypeOK'
  <1> USE DEF caches, cluster, worker
  <1>1. Edit => edits' \in 0 .. MaxEdits
    BY NetworkingBounds DEF NetworkingBounds, TypeOK, Edit
  <1>2. CASE EditSpec
    BY <1>1, <1>2 DEF EditSpec, TypeOK
  <1>3. ASSUME NEW n \in Names, NEW s \in Secrets, ChangeSecret(n, s)
        PROVE  TypeOK'
    <2>1. secrets' \in [Names -> Secrets]
      BY <1>3 DEF ChangeSecret, TypeOK
    <2> QED
      BY <1>1, <1>3, <2>1 DEF ChangeSecret, TypeOK
  <1>4. ASSUME NEW n \in Names,
               \/ ProvideSecret(n) \/ ReplaceSecret(n) \/ LabelSecret(n)
               \/ EditSecret(n) \/ RemoveSecret(n)
        PROVE  TypeOK'
    <2>1. 0 \in 0 .. MaxContent
      BY NetworkingBounds DEF NetworkingBounds
    <2>2. secrets[n] \in Secrets
      BY DEF TypeOK
    <2>3. CASE ProvideSecret(n)
      <3>1. PICK env \in BOOLEAN :
              ChangeSecret(n, [maker |-> "user", env |-> env, content |-> 0])
        BY <2>3 DEF ProvideSecret
      <3>2. [maker |-> "user", env |-> env, content |-> 0] \in Secrets
        BY <2>1 DEF Secrets, Makers
      <3> QED
        BY <3>1, <3>2, <1>3
    <2>7. CASE ReplaceSecret(n)
      <3>1. PICK env \in BOOLEAN :
              ChangeSecret(n, [maker |-> "successor", env |-> env, content |-> 0])
        BY <2>7 DEF ReplaceSecret
      <3>2. [maker |-> "successor", env |-> env, content |-> 0] \in Secrets
        BY <2>1 DEF Secrets, Makers
      <3> QED
        BY <3>1, <3>2, <1>3
    <2>4. CASE LabelSecret(n)
      <3>1. [secrets[n] EXCEPT !.env = TRUE] \in Secrets
        BY <2>2 DEF Secrets
      <3> QED
        BY <2>4, <3>1, <1>3 DEF LabelSecret
    <2>5. CASE EditSecret(n)
      <3>1. secrets[n].content + 1 \in 0 .. MaxContent
        BY <2>2, <2>5, NetworkingBounds DEF NetworkingBounds, EditSecret, Secrets
      <3>2. [secrets[n] EXCEPT !.content = @ + 1] \in Secrets
        BY <2>2, <3>1 DEF Secrets
      <3> QED
        BY <2>5, <3>2, <1>3 DEF EditSecret
    <2>6. CASE RemoveSecret(n)
      BY <2>6, <1>3, SecretTypes DEF RemoveSecret
    <2> QED
      BY <1>4, <2>3, <2>4, <2>5, <2>6, <2>7
  <1> QED
    BY <1>2, <1>4 DEF Users

LEMMA KubernetesType ==
  ASSUME TypeOK, Kubernetes
  PROVE  TypeOK'
  <1> USE DEF caches, cluster, worker
  <1>1. CASE SyncSpec
    BY <1>1 DEF SyncSpec, TypeOK
  <1>2. CASE \E n \in Names : SyncSecret(n)
    BY <1>2, SecretTypes DEF SyncSecret, TypeOK
  <1>3. CASE SyncDeployment
    BY <1>3 DEF SyncDeployment, TypeOK
  <1>4. CASE SyncService
    BY <1>4 DEF SyncService, TypeOK
  <1>5. CASE RollOut
    BY <1>5, DeploymentTypes DEF RollOut, TypeOK
  <1> QED
    BY <1>1, <1>2, <1>3, <1>4, <1>5 DEF Kubernetes

LEMMA TypeInvariance ==
  /\ Init => TypeOK
  /\ TypeOK /\ [Next]_vars => TypeOK'
  <1>1. Init => TypeOK
    <2> SUFFICES ASSUME Init PROVE TypeOK
      OBVIOUS
    <2>1. 0 \in 0 .. MaxContent /\ 0 \in 0 .. MaxEdits /\ 0 \in 0 .. MaxFaults
      BY NetworkingBounds DEF NetworkingBounds
    <2>2. secrets \in [Names -> Secrets]
      <3>1. {NoSecret} \cup [maker : {"user"}, env : BOOLEAN, content : {0}] \subseteq Secrets
        BY <2>1, SecretTypes DEF Secrets, Makers
      <3> QED
        BY <3>1 DEF Init
    <2>3. seen \in [Names -> Secrets]
      BY <2>2, SecretTypes DEF Init
    <2>4. held \in [Roles -> Secrets]
      BY SecretTypes DEF Init
    <2> QED
      BY <2>1, <2>2, <2>3, <2>4, RoleTypes, DeploymentTypes DEF Init, TypeOK, Steps
  <1>2. TypeOK /\ [Next]_vars => TypeOK'
    <2>1. TypeOK /\ UNCHANGED vars => TypeOK'
      BY DEF vars, caches, cluster, worker, TypeOK
    <2> QED
      BY <2>1, ReconcilerType, FailuresType, UsersType, KubernetesType DEF Next
  <1> QED
    BY <1>1, <1>2

\* Type correctness: among others, the reconciler never goes on to a secret
\* that is not one of the two.
THEOREM NetworkingTypeCorrect == Spec => []TypeOK
  BY TypeInvariance, PTL DEF Spec

-----------------------------------------------------------------------------
(* Users' secrets. *)

\* The operator's secrets have default names, and nothing it remembers about a
\* name, be it in the cache or in the step it is at, is wrong about a user's
\* secret that has not come after one of its own.
KeptInv ==
  /\ \A n \in Names : n[2] = "custom" =>
       secrets[n].maker # "operator" /\ seen[n].maker # "operator"
  /\ \A n \in Names : secrets[n].maker = "user" => seen[n].maker # "operator"
  /\ pc = "create" => role \notin conf.custom
  /\ pc = "delete" => role \notin conf.custom /\ secrets[Current].maker # "user"

LEMMA CurrentType ==
  ASSUME TypeOK
  PROVE  /\ Current \in Names
         /\ role \notin conf.custom <=> Current[2] = "default"
  BY RoleTypes DEF TypeOK, Current, NameOf

\* Steps that leave the secrets and the cache alone and do not enter the steps
\* "create" and "delete".
LEMMA KeptElsewhere ==
  ASSUME KeptInv, UNCHANGED <<secrets, seen>>,
         \/ pc' \notin {"create", "delete"}
         \/ UNCHANGED <<pc, conf, role>>
  PROVE  KeptInv'
  BY DEF KeptInv, Current

LEMMA KeptByReconciler ==
  ASSUME TypeOK, KeptInv, Reconciler
  PROVE  KeptInv'
  <1> USE DEF caches, cluster
  <1>1. Current \in Names /\ (role \notin conf.custom <=> Current[2] = "default")
    BY CurrentType
  <1>2. CASE StartReconcile
    BY <1>2, KeptElsewhere DEF StartReconcile
  <1>3. CASE EnsureSecret
    BY <1>3 DEF EnsureSecret, Goto, KeptInv, Current
  <1>4. CASE CreateSecret
    <2>1. /\ UNCHANGED <<seen, conf, role>> /\ pc' = "obtain"
          /\ secrets' = [secrets EXCEPT ![Current] = IF @ = NoSecret THEN Placeholder ELSE @]
      BY <1>4 DEF CreateSecret, Goto
    <2>2. Current[2] = "default"
      BY <1>1, <1>4 DEF CreateSecret, KeptInv
    <2>3. \A n \in Names :
            secrets'[n] = secrets[n] \/ (n = Current /\ secrets'[n] = Placeholder)
      BY <2>1 DEF TypeOK
    <2> QED
      BY <2>1, <2>2, <2>3 DEF KeptInv, Placeholder
  <1>5. CASE ObtainSecret
    BY <1>5, KeptElsewhere DEF ObtainSecret, NextRole
  <1>6. CASE RefuseSecret
    BY <1>6, KeptElsewhere DEF RefuseSecret, EndReconcile
  <1>7. CASE WriteDeployment
    BY <1>7, KeptElsewhere DEF WriteDeployment, Goto, EndReconcile
  <1>8. CASE WriteService
    BY <1>8, KeptElsewhere DEF WriteService, Goto, EndReconcile
  <1>9. CASE CheckDeployment
    BY <1>9, KeptElsewhere DEF CheckDeployment, Goto, EndReconcile
  <1>10. CASE DropSecret
    <2>1. CASE seen[Current].maker = "operator"
      <3>1. pc' = "delete" /\ UNCHANGED <<role, conf, secrets, seen>>
        BY <1>10, <2>1 DEF DropSecret
      <3>2. Current[2] = "default" /\ secrets[Current].maker # "user"
        BY <1>1, <2>1 DEF KeptInv, Current, NameOf
      <3>3. Current' = Current
        BY <3>1 DEF Current, NameOf
      <3> QED
        BY <1>1, <3>1, <3>2, <3>3 DEF KeptInv
    <2>2. CASE seen[Current].maker # "operator"
      BY <1>10, <2>2, KeptElsewhere DEF DropSecret, NextRole
    <2> QED
      BY <2>1, <2>2
  <1>11. CASE DeleteSecret
    <2>1. \A n \in Names : secrets'[n] = secrets[n] \/ secrets'[n] = NoSecret
      BY <1>11 DEF DeleteSecret, TypeOK
    <2>2. pc' \notin {"create", "delete"} /\ seen' = seen
      BY <1>11 DEF DeleteSecret, NextRole
    <2> QED
      BY <2>1, <2>2 DEF KeptInv, NoSecret
  <1>12. CASE RemoveDeployment
    BY <1>12, KeptElsewhere DEF RemoveDeployment, Goto
  <1>13. CASE RemoveService
    BY <1>13, KeptElsewhere DEF RemoveService, Goto
  <1>14. CASE WriteIronic
    BY <1>14, KeptElsewhere DEF WriteIronic, EndReconcile
  <1> QED
    BY <1>2, <1>3, <1>4, <1>5, <1>6, <1>7, <1>8, <1>9, <1>10, <1>11, <1>12, <1>13, <1>14
    DEF Reconciler

\* The cache is replaced by what is visible of the secrets, some or all.
LEMMA KeptByLooking ==
  ASSUME TypeOK, KeptInv, secrets' = secrets,
         \A n \in Names : seen'[n] = seen[n] \/ seen'[n] = Visible(secrets[n]),
         \/ pc' \notin {"create", "delete"}
         \/ UNCHANGED <<pc, conf, role>>
  PROVE  KeptInv'
  BY DEF KeptInv, Current, NameOf, Visible, NoSecret

\* A user changes a secret.
LEMMA KeptByUser ==
  ASSUME TypeOK, KeptInv, NEW n \in Names, NEW s \in Secrets, ChangeSecret(n, s),
         s.maker = "operator" => secrets[n].maker = "operator",
         s.maker = "user" => secrets[n].maker = "user" \/ n[2] = "custom"
  PROVE  KeptInv'
  <1>1. /\ UNCHANGED <<seen, pc, conf, role>>
        /\ \A k \in Names : secrets'[k] = IF k = n THEN s ELSE secrets[k]
    BY DEF ChangeSecret, caches, worker, TypeOK
  <1>2. Current' = Current
    BY <1>1 DEF Current, NameOf
  <1>3. Current \in Names /\ (role \notin conf.custom <=> Current[2] = "default")
    BY CurrentType
  <1>4. \A k \in Names : k[2] = "custom" => secrets'[k].maker # "operator"
    BY <1>1 DEF KeptInv
  <1>5. \A k \in Names : secrets'[k].maker = "user" => seen'[k].maker # "operator"
    BY <1>1 DEF KeptInv
  <1>6. pc = "delete" => secrets'[Current].maker # "user"
    BY <1>1, <1>3 DEF KeptInv
  <1> QED
    BY <1>1, <1>2, <1>4, <1>5, <1>6 DEF KeptInv

LEMMA KeptByUsers ==
  ASSUME TypeOK, KeptInv, Users
  PROVE  KeptInv'
  <1>1. CASE EditSpec
    BY <1>1, KeptElsewhere DEF EditSpec, caches, cluster, worker
  <1>2. ASSUME NEW n \in Names,
               \/ ProvideSecret(n) \/ ReplaceSecret(n) \/ LabelSecret(n)
               \/ EditSecret(n) \/ RemoveSecret(n)
        PROVE  KeptInv'
    <2>1. 0 \in 0 .. MaxContent /\ secrets[n] \in Secrets
      BY NetworkingBounds DEF NetworkingBounds, TypeOK
    <2>2. CASE ProvideSecret(n)
      <3>1. PICK env \in BOOLEAN :
              ChangeSecret(n, [maker |-> "user", env |-> env, content |-> 0])
        BY <2>2 DEF ProvideSecret
      <3>2. [maker |-> "user", env |-> env, content |-> 0] \in Secrets
        BY <2>1 DEF Secrets, Makers
      <3>3. n[2] = "custom"
        BY <2>2 DEF ProvideSecret
      <3> QED
        BY <3>1, <3>2, <3>3, KeptByUser
    <2>6. CASE ReplaceSecret(n)
      <3>1. PICK env \in BOOLEAN :
              ChangeSecret(n, [maker |-> "successor", env |-> env, content |-> 0])
        BY <2>6 DEF ReplaceSecret
      <3>2. [maker |-> "successor", env |-> env, content |-> 0] \in Secrets
        BY <2>1 DEF Secrets, Makers
      <3> QED
        BY <3>1, <3>2, KeptByUser
    <2>3. CASE LabelSecret(n)
      <3>1. /\ [secrets[n] EXCEPT !.env = TRUE] \in Secrets
            /\ [secrets[n] EXCEPT !.env = TRUE].maker = secrets[n].maker
        BY <2>1 DEF Secrets
      <3> QED
        BY <2>3, <3>1, KeptByUser DEF LabelSecret
    <2>4. CASE EditSecret(n)
      <3>1. secrets[n].content + 1 \in 0 .. MaxContent
        BY <2>1, <2>4, NetworkingBounds DEF NetworkingBounds, EditSecret, Secrets
      <3>2. /\ [secrets[n] EXCEPT !.content = @ + 1] \in Secrets
            /\ [secrets[n] EXCEPT !.content = @ + 1].maker = secrets[n].maker
        BY <2>1, <3>1 DEF Secrets
      <3> QED
        BY <2>4, <3>2, KeptByUser DEF EditSecret
    <2>5. CASE RemoveSecret(n)
      BY <2>5, SecretTypes, KeptByUser DEF RemoveSecret, NoSecret
    <2> QED
      BY <1>2, <2>2, <2>3, <2>4, <2>5, <2>6
  <1> QED
    BY <1>1, <1>2 DEF Users

LEMMA KeptStep ==
  ASSUME TypeOK, KeptInv, [Next]_vars
  PROVE  KeptInv'
  <1> USE DEF caches, cluster, worker
  <1>1. CASE UNCHANGED vars
    BY <1>1, KeptElsewhere DEF vars
  <1>2. CASE Failures
    <2>1. CASE TransientError
      BY <2>1, KeptElsewhere DEF TransientError, EndReconcile
    <2>2. CASE Restart
      BY <2>2, KeptByLooking DEF Restart, EndReconcile
    <2>3. CASE PodDies
      BY <2>3, KeptElsewhere DEF PodDies
    <2> QED
      BY <1>2, <2>1, <2>2, <2>3 DEF Failures
  <1>3. CASE Kubernetes
    <2>1. CASE SyncSpec
      BY <2>1, KeptElsewhere DEF SyncSpec
    <2>2. CASE \E n \in Names : SyncSecret(n)
      <3>1. PICK n \in Names : SyncSecret(n)
        BY <2>2
      <3>2. \A k \in Names : seen'[k] = seen[k] \/ seen'[k] = Visible(secrets[k])
        BY <3>1 DEF SyncSecret, TypeOK
      <3> QED
        BY <3>1, <3>2, KeptByLooking DEF SyncSecret
    <2>3. CASE SyncDeployment \/ SyncService
      BY <2>3, KeptElsewhere DEF SyncDeployment, SyncService
    <2>4. CASE RollOut
      BY <2>4, KeptElsewhere DEF RollOut
    <2> QED
      BY <1>3, <2>1, <2>2, <2>3, <2>4 DEF Kubernetes
  <1> QED
    BY <1>1, <1>2, <1>3, KeptByReconciler, KeptByUsers DEF Next

LEMMA UsersCount ==
  ASSUME TypeOK, Users
  PROVE  edits' # edits
  BY DEF TypeOK, Users, EditSpec, ProvideSecret, ReplaceSecret, LabelSecret, EditSecret,
         RemoveSecret, ChangeSecret, Edit

\* What a user does leaves a user's secret one, or removes it.
LEMMA UsersLeaveTheirs ==
  ASSUME TypeOK, Users, NEW n \in Names, Theirs(n)
  PROVE  Theirs(n)' \/ secrets'[n] = NoSecret
  <1> USE DEF caches, cluster, worker
  <1>1. OfUser(secrets[n])
    BY DEF Theirs, OfUser
  <1>2. UNCHANGED <<seen, pc, conf, role>>
    BY DEF Users, EditSpec, ProvideSecret, ReplaceSecret, LabelSecret, EditSecret,
           RemoveSecret, ChangeSecret
  <1>3. Recognized(n)' = Recognized(n)
    BY <1>2 DEF Recognized, Current, NameOf
  <1>4. secrets'[n].maker = secrets[n].maker \/ secrets'[n] = NoSecret
    <2>1. CASE EditSpec
      BY <2>1 DEF EditSpec
    <2>2. ASSUME NEW k \in Names, NEW s, ChangeSecret(k, s),
                 k = n => s.maker = secrets[n].maker \/ s = NoSecret
          PROVE  secrets'[n].maker = secrets[n].maker \/ secrets'[n] = NoSecret
      BY <2>2 DEF ChangeSecret, TypeOK
    <2>3. ASSUME NEW k \in Names, ProvideSecret(k) \/ ReplaceSecret(k)
          PROVE  secrets'[n].maker = secrets[n].maker
      <3>1. PICK s : ChangeSecret(k, s)
        BY <2>3 DEF ProvideSecret, ReplaceSecret
      <3>2. k # n
        BY <1>1, <2>3 DEF ProvideSecret, ReplaceSecret, OfUser, NoSecret
      <3> QED
        BY <3>1, <3>2 DEF ChangeSecret, TypeOK
    <2>4. ASSUME NEW k \in Names, LabelSecret(k) \/ EditSecret(k) \/ RemoveSecret(k)
          PROVE  secrets'[n].maker = secrets[n].maker \/ secrets'[n] = NoSecret
      <3>1. secrets[k] \in Secrets
        BY DEF TypeOK
      <3>2. /\ [secrets[k] EXCEPT !.env = TRUE].maker = secrets[k].maker
            /\ [secrets[k] EXCEPT !.content = @ + 1].maker = secrets[k].maker
        BY <3>1 DEF Secrets
      <3> QED
        BY <2>2, <2>4, <3>2 DEF LabelSecret, EditSecret, RemoveSecret
    <2> QED
      BY <2>1, <2>3, <2>4 DEF Users
  <1> QED
    BY <1>3, <1>4 DEF Theirs

\* Steps of others leave it a user's.
LEMMA TheirsElsewhere ==
  ASSUME secrets' = secrets, NEW n \in Names, Theirs(n),
         seen'[n] = seen[n] \/ seen'[n] = Visible(secrets[n]),
         pc' # "delete" \/ UNCHANGED <<pc, conf, role>>
  PROVE  Theirs(n)'
  <1>1. seen'[n].maker = "operator" => seen[n].maker = "operator" \/ secrets[n].maker = "operator"
    BY DEF Visible, NoSecret
  <1>2. pc' = "delete" => pc = "delete" /\ Current' = Current
    BY DEF Current, NameOf
  <1> QED
    BY <1>1, <1>2 DEF Theirs, Recognized

LEMMA TheirsByReconciler ==
  ASSUME TypeOK, KeptInv, Reconciler, NEW n \in Names, Theirs(n)
  PROVE  Theirs(n)'
  <1> USE DEF caches, cluster
  <1>1. CASE CreateSecret
    <2>1. secrets'[n] = secrets[n]
      BY <1>1 DEF CreateSecret, TypeOK, Theirs, NoSecret
    <2> QED
      BY <1>1, <2>1 DEF CreateSecret, Goto, Theirs, Recognized
  <1>2. CASE DropSecret
    <2>1. CASE seen[Current].maker = "operator"
      <3>1. Current' = Current /\ UNCHANGED <<secrets, seen>>
        BY <1>2, <2>1 DEF DropSecret, Current, NameOf
      <3>2. secrets[n].maker = "successor" => Current # n
        BY <2>1 DEF Theirs, Recognized
      <3> QED
        BY <3>1, <3>2 DEF Theirs, Recognized
    <2>2. CASE seen[Current].maker # "operator"
      BY <1>2, <2>2, TheirsElsewhere DEF DropSecret, NextRole
    <2> QED
      BY <2>1, <2>2
  <1>3. CASE DeleteSecret
    <2>1. Current # n
      BY <1>3 DEF DeleteSecret, Theirs, Recognized, KeptInv
    <2>2. secrets'[n] = secrets[n] /\ seen' = seen /\ pc' # "delete"
      BY <1>3, <2>1 DEF DeleteSecret, NextRole, TypeOK
    <2> QED
      BY <2>2 DEF Theirs, Recognized
  <1>4. CASE Reconciler /\ ~CreateSecret /\ ~DropSecret /\ ~DeleteSecret
    <2>1. secrets' = secrets /\ seen' = seen /\ pc' # "delete"
      BY <1>4 DEF Reconciler, StartReconcile, EnsureSecret, ObtainSecret, RefuseSecret,
                  WriteDeployment, WriteService, CheckDeployment, RemoveDeployment,
                  RemoveService, WriteIronic, Goto, EndReconcile, NextRole
    <2> QED
      BY <2>1, TheirsElsewhere
  <1> QED
    BY <1>1, <1>2, <1>3, <1>4

LEMMA TheirsByOthers ==
  ASSUME TypeOK, Failures \/ Kubernetes, NEW n \in Names, Theirs(n)
  PROVE  Theirs(n)'
  <1> USE DEF caches, cluster, worker
  <1>1. CASE Failures
    BY <1>1, TheirsElsewhere DEF Failures, TransientError, Restart, PodDies, EndReconcile
  <1>2. CASE \E k \in Names : SyncSecret(k)
    <2>1. PICK k \in Names : SyncSecret(k)
      BY <1>2
    <2>2. seen'[n] = seen[n] \/ seen'[n] = Visible(secrets[n])
      BY <2>1 DEF SyncSecret, TypeOK
    <2> QED
      BY <2>1, <2>2, TheirsElsewhere DEF SyncSecret
  <1>3. CASE SyncSpec \/ SyncDeployment \/ SyncService \/ RollOut
    BY <1>3, TheirsElsewhere DEF SyncSpec, SyncDeployment, SyncService, RollOut
  <1> QED
    BY <1>1, <1>2, <1>3 DEF Kubernetes

\* Externally-provided secrets are left untouched: EnsureSwitch...SecretDeleted
\* looks at a cached copy and deletes by name, and that is good enough for every
\* secret of a user's except one that has come in the place of the operator's
\* and that the cache does not have yet, or for whose predecessor the delete is
\* already on its way.
THEOREM UserSecretsAlwaysKept == Spec => UserSecretsKept
  <1>1. Init => KeptInv
    <2> SUFFICES ASSUME Init PROVE KeptInv
      OBVIOUS
    <2>1. \A n \in Names :
            secrets[n] \in {NoSecret} \cup [maker : {"user"}, env : BOOLEAN, content : {0}]
      BY DEF Init
    <2>2. \A n \in Names : secrets[n].maker # "operator"
      BY <2>1 DEF NoSecret
    <2>3. \A n \in Names : seen[n] = secrets[n] \/ seen[n] = NoSecret
      BY DEF Init, Visible
    <2> QED
      BY <2>2, <2>3 DEF Init, KeptInv, NoSecret
  <1>2. TypeOK /\ KeptInv /\ [Next]_vars => KeptInv'
    BY KeptStep
  <1>3. TypeOK /\ KeptInv /\ [Next]_vars =>
          [\A n \in Names :
             Theirs(n) => Theirs(n)' \/ (edits' # edits /\ secrets'[n] = NoSecret)]_vars
    <2> SUFFICES ASSUME TypeOK, KeptInv, Next, NEW n \in Names, Theirs(n)
                 PROVE  Theirs(n)' \/ (edits' # edits /\ secrets'[n] = NoSecret)
      OBVIOUS
    <2>1. CASE Users
      BY <2>1, UsersCount, UsersLeaveTheirs
    <2>2. CASE Reconciler
      BY <2>2, TheirsByReconciler
    <2>3. CASE Failures \/ Kubernetes
      BY <2>3, TheirsByOthers
    <2> QED
      BY <2>1, <2>2, <2>3 DEF Next
  <1> QED
    BY <1>1, <1>2, <1>3, TypeInvariance, PTL DEF Spec, UserSecretsKept

-----------------------------------------------------------------------------
(* The networking service before Ironic. *)

\* Where the reconciler is says whether it is to set networking up; past the
\* write of the Deployment that exists, and if the copy in the cache has been
\* up, so has the Deployment.
OrderInv ==
  /\ depFresh => seenDep = dep
  /\ pc \in {"ensure", "create", "obtain", "deployment", "service", "check"} => conf.enabled
  /\ pc \in {"drop", "delete", "removeDeployment", "removeService"} => ~conf.enabled
  /\ pc \in {"service", "check"} =>
       /\ dep.phase # "absent"
       /\ seenDep.phase = "up" => dep.phase \in {"up", "down"}
  /\ pc = "ironic" /\ conf.enabled => dep.phase \in {"up", "down"}

LEMMA OrderByReconciler ==
  ASSUME TypeOK, OrderInv, Reconciler
  PROVE  OrderInv'
  <1> USE DEF caches, cluster
  <1>1. ASSUME UNCHANGED <<dep, seenDep, depFresh>>, pc' = "idle"
        PROVE  OrderInv'
    BY <1>1 DEF OrderInv
  <1>2. CASE StartReconcile
    BY <1>2 DEF StartReconcile, OrderInv
  <1>3. CASE EnsureSecret
    BY <1>3 DEF EnsureSecret, Goto, OrderInv
  <1>4. CASE CreateSecret
    BY <1>4 DEF CreateSecret, Goto, OrderInv
  <1>5. CASE ObtainSecret
    BY <1>5 DEF ObtainSecret, NextRole, OrderInv
  <1>6. CASE RefuseSecret
    BY <1>6, <1>1 DEF RefuseSecret, EndReconcile
  <1>7. CASE WriteDeployment
    <2>1. CASE EndReconcile(TRUE) /\ UNCHANGED <<dep, depFresh>>
      BY <1>7, <2>1, <1>1 DEF WriteDeployment, EndReconcile
    <2>2. CASE /\ depFresh
               /\ dep' = [uses  |-> [r \in Roles |-> <<NameOf(conf, r), held[r].content>>],
                          phase |-> IF dep.phase = "absent" THEN "starting" ELSE dep.phase]
               /\ depFresh' = (dep' = dep)
               /\ Goto("service")
      <3>1. dep.phase \in {"absent", "starting", "up", "down"} /\ seenDep = dep
        BY <2>2 DEF TypeOK, Deployments, OrderInv
      <3>2. /\ dep'.phase # "absent"
            /\ seenDep'.phase = "up" => dep'.phase \in {"up", "down"}
        BY <1>7, <2>2, <3>1 DEF WriteDeployment
      <3>3. pc' = "service" /\ conf' = conf /\ conf.enabled /\ seenDep' = seenDep
        BY <1>7, <2>2 DEF WriteDeployment, Goto, OrderInv
      <3> QED
        BY <2>2, <3>1, <3>2, <3>3 DEF OrderInv
    <2> QED
      BY <1>7, <2>1, <2>2 DEF WriteDeployment
  <1>8. CASE WriteService
    BY <1>8 DEF WriteService, Goto, EndReconcile, OrderInv
  <1>9. CASE CheckDeployment
    BY <1>9 DEF CheckDeployment, Goto, EndReconcile, OrderInv
  <1>10. CASE DropSecret
    BY <1>10 DEF DropSecret, NextRole, OrderInv
  <1>11. CASE DeleteSecret
    BY <1>11 DEF DeleteSecret, NextRole, OrderInv
  <1>12. CASE RemoveDeployment
    BY <1>12 DEF RemoveDeployment, Goto, OrderInv
  <1>13. CASE RemoveService
    BY <1>13 DEF RemoveService, Goto, OrderInv
  <1>14. CASE WriteIronic
    BY <1>14, <1>1 DEF WriteIronic, EndReconcile
  <1> QED
    BY <1>2, <1>3, <1>4, <1>5, <1>6, <1>7, <1>8, <1>9, <1>10, <1>11, <1>12, <1>13, <1>14
    DEF Reconciler

LEMMA OrderStep ==
  ASSUME TypeOK, OrderInv, [Next]_vars
  PROVE  OrderInv'
  <1> USE DEF caches, cluster, worker
  <1>1. ASSUME UNCHANGED <<dep, seenDep, depFresh, pc, conf>>
        PROVE  OrderInv'
    BY <1>1 DEF OrderInv
  <1>2. CASE UNCHANGED vars
    BY <1>1, <1>2 DEF vars
  <1>3. CASE Failures
    <2>1. CASE TransientError
      BY <2>1 DEF TransientError, EndReconcile, OrderInv
    <2>2. CASE Restart
      BY <2>2 DEF Restart, EndReconcile, OrderInv
    <2>3. CASE PodDies
      BY <2>3 DEF PodDies, OrderInv, TypeOK, Deployments
    <2> QED
      BY <1>3, <2>1, <2>2, <2>3 DEF Failures
  <1>4. CASE Users
    BY <1>1, <1>4 DEF Users, EditSpec, ProvideSecret, ReplaceSecret, LabelSecret, EditSecret, RemoveSecret,
                      ChangeSecret
  <1>5. CASE Kubernetes
    <2>1. CASE SyncSpec \/ SyncService \/ \E n \in Names : SyncSecret(n)
      BY <2>1, <1>1 DEF SyncSpec, SyncService, SyncSecret
    <2>2. CASE SyncDeployment
      BY <2>2 DEF SyncDeployment, OrderInv
    <2>3. CASE RollOut
      BY <2>3 DEF RollOut, OrderInv, TypeOK, Deployments
    <2> QED
      BY <1>5, <2>1, <2>2, <2>3 DEF Kubernetes
  <1> QED
    BY <1>2, <1>3, <1>4, <1>5, OrderByReconciler DEF Next

\* Ironic does not start with networking before its networking service has
\* been available, although availability is read from a cache: the reconciler
\* has just written the Deployment it looks at, and only with a current copy.
THEOREM NetworkingAlwaysFirst == Spec => NetworkingFirst
  <1>1. Init => OrderInv
    BY DEF Init, OrderInv
  <1>2. TypeOK /\ OrderInv /\ [Next]_vars => OrderInv'
    BY OrderStep
  <1>3. TypeOK /\ OrderInv /\ [Next]_vars =>
          [ironic # "networked" /\ ironic' = "networked" => dep.phase \in {"up", "down"}]_vars
    <2> SUFFICES ASSUME TypeOK, OrderInv, Next, ironic # "networked", ironic' = "networked"
                 PROVE  dep.phase \in {"up", "down"}
      OBVIOUS
    <2>1. WriteIronic
      BY DEF Next, Reconciler, Failures, Kubernetes, Users, cluster, StartReconcile,
             EnsureSecret, CreateSecret, ObtainSecret, RefuseSecret, WriteDeployment,
             WriteService, CheckDeployment, DropSecret, DeleteSecret, RemoveDeployment,
             RemoveService, TransientError, Restart, PodDies, SyncSpec, SyncSecret,
             SyncDeployment, SyncService, RollOut, EditSpec, ProvideSecret, ReplaceSecret, LabelSecret, EditSecret,
             RemoveSecret, ChangeSecret
    <2> QED
      BY <2>1 DEF WriteIronic, OrderInv
  <1> QED
    BY <1>1, <1>2, <1>3, TypeInvariance, PTL DEF Spec, NetworkingFirst

-----------------------------------------------------------------------------
(* Nothing is left.  What the reconciler did not find in its caches on the    *)
(* way down is not there, or its arrival in the cache starts another round.   *)

\* The operator's secrets carry the label of the cache, a walk works on the spec
\* in the cache unless another one is queued, and starts with the first secret.
LabelledInv ==
  /\ \A n \in Names : secrets[n].maker = "operator" => secrets[n].env
  /\ pc # "idle" => queued \/ conf = seenSpec
  /\ pc = "idle" => role = "config"
  /\ dep.phase = "absent" => dep = NoDeployment

\* The walk has passed the secret on its way down.
Dropped(r) ==
  \/ pc \in {"removeDeployment", "removeService"}
  \/ pc = "ironic" /\ ~conf.enabled
  \/ pc \in {"drop", "delete"} /\ role = "credentials" /\ r = "config"

\* What may be said of a secret and of the Deployment from then on.
Forgotten(n) == queued \/ seen[n].maker # "operator" \/ secrets[n].maker # "operator"
NoPods == queued \/ ~depFresh \/ dep = NoDeployment
NoService == queued \/ seenSvc # svc \/ ~svc

LeftInv ==
  /\ \A r \in Roles : Dropped(r) => Forgotten(NameOf(conf, r))
  /\ pc = "removeService" => NoPods
  /\ pc = "ironic" /\ ~conf.enabled => NoPods /\ NoService
  /\ pc = "idle" /\ ~queued /\ ~seenSpec.enabled =>
       /\ \A r \in Roles : Forgotten(NameOf(seenSpec, r))
       /\ NoPods /\ NoService /\ ironic # "networked"

\* A user's change of a secret makes no secret of the operator.
LEMMA UsersMakeNone ==
  ASSUME TypeOK, Users
  PROVE  /\ UNCHANGED <<caches, dep, depFresh, svc, ironic, worker>>
         /\ \A n \in Names :
              secrets'[n].maker = "operator" =>
                secrets[n].maker = "operator" /\ (secrets[n].env => secrets'[n].env)
  <1> USE DEF caches, cluster, worker
  <1>1. CASE EditSpec
    BY <1>1 DEF EditSpec
  <1>2. ASSUME NEW n \in Names, NEW s, ChangeSecret(n, s),
               s.maker = "operator" =>
                 secrets[n].maker = "operator" /\ (secrets[n].env => s.env)
        PROVE  /\ UNCHANGED <<caches, dep, depFresh, svc, ironic, worker>>
               /\ \A i \in Names :
                    secrets'[i].maker = "operator" =>
                      secrets[i].maker = "operator" /\ (secrets[i].env => secrets'[i].env)
    BY <1>2 DEF ChangeSecret, TypeOK
  <1>3. ASSUME NEW n \in Names,
               \/ ProvideSecret(n) \/ ReplaceSecret(n) \/ LabelSecret(n)
               \/ EditSecret(n) \/ RemoveSecret(n)
        PROVE  \E s : /\ ChangeSecret(n, s)
                      /\ s.maker = "operator" =>
                           secrets[n].maker = "operator" /\ (secrets[n].env => s.env)
    <2>1. secrets[n] \in Secrets
      BY DEF TypeOK
    <2>2. CASE ProvideSecret(n)
      BY <2>2 DEF ProvideSecret
    <2>6. CASE ReplaceSecret(n)
      BY <2>6 DEF ReplaceSecret
    <2>3. CASE LabelSecret(n)
      BY <2>1, <2>3 DEF LabelSecret, Secrets
    <2>4. CASE EditSecret(n)
      <3>1. /\ [secrets[n] EXCEPT !.content = @ + 1].maker = secrets[n].maker
            /\ [secrets[n] EXCEPT !.content = @ + 1].env = secrets[n].env
        BY <2>1 DEF Secrets
      <3> QED
        BY <2>4, <3>1 DEF EditSecret
    <2>5. CASE RemoveSecret(n)
      BY <2>5 DEF RemoveSecret, NoSecret
    <2> QED
      BY <1>3, <2>2, <2>3, <2>4, <2>5, <2>6
  <1> QED
    BY <1>1, <1>2, <1>3 DEF Users

\* LabelledInv survives every step.
LEMMA LabelledStep ==
  ASSUME TypeOK, LabelledInv, [Next]_vars
  PROVE  LabelledInv'
  <1> USE DEF caches, cluster, worker
  <1>1. CASE Users
    BY <1>1, UsersMakeNone DEF LabelledInv
  <1>2. CASE CreateSecret
    <2>1. \A n \in Names : secrets'[n] = secrets[n] \/ secrets'[n] = Placeholder
      BY <1>2 DEF CreateSecret, TypeOK
    <2> QED
      BY <1>2, <2>1 DEF CreateSecret, Goto, LabelledInv, Placeholder
  <1>3. CASE DeleteSecret
    <2>1. \A n \in Names : secrets'[n] = secrets[n] \/ secrets'[n] = NoSecret
      BY <1>3 DEF DeleteSecret, TypeOK
    <2> QED
      BY <1>3, <2>1 DEF DeleteSecret, NextRole, LabelledInv, NoSecret
  <1>4. CASE WriteDeployment
    <2>1. dep' = dep \/ dep'.phase # "absent"
      <3>1. ASSUME NEW uses,
                   dep' = [uses |-> uses, phase |-> IF dep.phase = "absent" THEN "starting" ELSE dep.phase]
            PROVE  dep'.phase # "absent"
        BY <3>1
      <3> QED
        BY <1>4, <3>1 DEF WriteDeployment
    <2> QED
      BY <1>4, <2>1 DEF WriteDeployment, Goto, EndReconcile, LabelledInv
  <1>5. CASE RemoveDeployment
    BY <1>5 DEF RemoveDeployment, Goto, LabelledInv
  <1>6. CASE Reconciler /\ ~CreateSecret /\ ~DeleteSecret /\ ~WriteDeployment /\ ~RemoveDeployment
    BY <1>6 DEF Reconciler, StartReconcile, EnsureSecret, ObtainSecret, RefuseSecret,
                WriteService, CheckDeployment, DropSecret, RemoveService, WriteIronic,
                Goto, EndReconcile, NextRole, LabelledInv
  <1>7. CASE Failures
    BY <1>7 DEF Failures, TransientError, Restart, PodDies, EndReconcile, LabelledInv,
                TypeOK, Deployments
  <1>8. CASE Kubernetes
    BY <1>8 DEF Kubernetes, SyncSpec, SyncSecret, SyncDeployment, SyncService, RollOut,
                LabelledInv,
                TypeOK, Deployments
  <1>9. CASE UNCHANGED vars
    BY <1>9 DEF vars, LabelledInv
  <1> QED
    BY <1>1, <1>2, <1>3, <1>4, <1>5, <1>6, <1>7, <1>8, <1>9 DEF Next

\* A step of others: it wakes the reconciler up, or brings nothing back.
LEMMA LeftByOthers ==
  ASSUME LeftInv, UNCHANGED <<pc, conf, role, ironic>>,
         queued' \/ /\ UNCHANGED <<queued, seenSpec>>
                    /\ \A n \in Names : Forgotten(n) => Forgotten(n)'
                    /\ (NoPods => NoPods') /\ (NoService => NoService'),
         TypeOK
  PROVE  LeftInv'
  <1>1. /\ \A r \in Roles : Dropped(r)' = Dropped(r) /\ NameOf(conf, r)' = NameOf(conf, r)
        /\ \A r \in Roles : NameOf(conf, r) \in Names /\ NameOf(seenSpec, r) \in Names
    BY RoleTypes DEF Dropped, NameOf, TypeOK
  <1>2. CASE queued'
    BY <1>1, <1>2 DEF LeftInv, Forgotten, NoPods, NoService
  <1>3. CASE /\ UNCHANGED <<queued, seenSpec>>
             /\ \A n \in Names : Forgotten(n) => Forgotten(n)'
             /\ (NoPods => NoPods') /\ (NoService => NoService')
    <2>1. \A r \in Roles : NameOf(seenSpec, r)' = NameOf(seenSpec, r)
      BY <1>3 DEF NameOf
    <2> QED
      BY <1>1, <1>3, <2>1 DEF LeftInv
  <1> QED
    BY <1>2, <1>3

\* A walk that ends with a requeue.
LEMMA LeftByEnd ==
  ASSUME EndReconcile(TRUE)
  PROVE  LeftInv'
  BY DEF EndReconcile, LeftInv, Dropped

LEMMA LeftByReconciler ==
  ASSUME TypeOK, OrderInv, LabelledInv, LeftInv, Reconciler
  PROVE  LeftInv'
  <1> USE DEF caches, cluster
  <1>1. CASE StartReconcile
    BY <1>1 DEF StartReconcile, LeftInv, Dropped, LabelledInv
  <1>2. CASE \/ EnsureSecret \/ CreateSecret \/ ObtainSecret
    BY <1>2 DEF EnsureSecret, CreateSecret, ObtainSecret, Goto, NextRole,
                LeftInv, Dropped, OrderInv
  <1>11. CASE WriteService
    BY <1>11, LeftByEnd DEF WriteService, Goto, LeftInv, Dropped, OrderInv
  <1>3. CASE RefuseSecret
    BY <1>3, LeftByEnd DEF RefuseSecret
  <1>4. CASE WriteDeployment
    BY <1>4, LeftByEnd DEF WriteDeployment, Goto, LeftInv, Dropped, OrderInv
  <1>5. CASE CheckDeployment
    BY <1>5, LeftByEnd DEF CheckDeployment, Goto, LeftInv, Dropped, OrderInv
  <1>6. CASE DropSecret
    <2>1. CASE seen[Current].maker = "operator"
      BY <1>6, <2>1 DEF DropSecret, LeftInv, Dropped, Forgotten, NameOf
    <2>2. CASE seen[Current].maker # "operator"
      <3>1. NextRole("drop", "removeDeployment") /\ UNCHANGED <<secrets, seen, queued, conf>>
        BY <1>6, <2>2 DEF DropSecret
      <3>2. ASSUME NEW r \in Roles, Dropped(r)'
            PROVE  Dropped(r) \/ NameOf(conf, r) = Current
        BY <1>6, <3>1, <3>2, RolesAssumption
        DEF RolesAssumption, NextRole, Dropped, DropSecret, Current, TypeOK
      <3>3. \A r \in Roles : Dropped(r)' => Forgotten(NameOf(conf, r))'
        BY <2>2, <3>1, <3>2 DEF LeftInv, Forgotten, NameOf
      <3>4. pc' \in {"drop", "removeDeployment"}
        BY <3>1 DEF NextRole
      <3> QED
        BY <3>3, <3>4 DEF LeftInv
    <2> QED
      BY <2>1, <2>2
  <1>7. CASE DeleteSecret
    <2>1. /\ NextRole("drop", "removeDeployment") /\ UNCHANGED <<seen, queued, conf>>
          /\ \A n \in Names : secrets'[n] = secrets[n] \/ secrets'[n] = NoSecret
          /\ secrets'[Current] = NoSecret
      BY <1>7, CurrentType DEF DeleteSecret, TypeOK
    <2>2. ASSUME NEW r \in Roles, Dropped(r)'
          PROVE  Dropped(r) \/ NameOf(conf, r) = Current
      BY <1>7, <2>1, <2>2, RolesAssumption
      DEF RolesAssumption, NextRole, Dropped, DeleteSecret, Current, TypeOK
    <2>3. \A r \in Roles : NameOf(conf, r) \in Names
      BY RoleTypes DEF TypeOK
    <2>4. \A r \in Roles : Dropped(r)' => Forgotten(NameOf(conf, r))'
      BY <2>1, <2>2, <2>3 DEF LeftInv, Forgotten, NameOf, NoSecret
    <2>5. pc' \in {"drop", "removeDeployment"}
      BY <2>1 DEF NextRole
    <2> QED
      BY <2>4, <2>5 DEF LeftInv
  <1>8. CASE RemoveDeployment
    <2>1. NoPods'
      BY <1>8 DEF RemoveDeployment, NoPods, OrderInv, LabelledInv
    <2>2. pc' = "removeService" /\ pc = "removeDeployment"
          /\ UNCHANGED <<secrets, seen, queued, conf>>
      BY <1>8 DEF RemoveDeployment, Goto
    <2>3. \A r \in Roles : Dropped(r)' => Forgotten(NameOf(conf, r))'
      BY <2>2 DEF LeftInv, Dropped, Forgotten, NameOf
    <2> QED
      BY <2>1, <2>2, <2>3 DEF LeftInv
  <1>9. CASE RemoveService
    <2>1. pc' = "ironic" /\ pc = "removeService" /\ ~conf.enabled /\ NoService'
          /\ UNCHANGED <<secrets, seen, dep, depFresh, queued, conf>>
      BY <1>9 DEF RemoveService, Goto, OrderInv, NoService, TypeOK
    <2>2. \A r \in Roles : Dropped(r)' => Forgotten(NameOf(conf, r))'
      BY <2>1 DEF LeftInv, Dropped, Forgotten, NameOf
    <2> QED
      BY <2>1, <2>2 DEF LeftInv, NoPods
  <1>10. CASE WriteIronic
    <2>1. /\ pc = "ironic" /\ pc' = "idle" /\ UNCHANGED <<seenSpec, secrets, seen, dep, depFresh, svc, seenSvc>>
          /\ queued' = (queued \/ ironic' # ironic)
          /\ ironic' = IF conf.enabled THEN "networked" ELSE "plain"
      BY <1>10 DEF WriteIronic, EndReconcile
    <2>2. ASSUME ~queued', ~seenSpec.enabled
          PROVE  /\ \A r \in Roles : Forgotten(NameOf(seenSpec, r))'
                 /\ NoPods' /\ NoService' /\ ironic' # "networked"
      <3>1. conf = seenSpec /\ ~queued /\ ~conf.enabled
        BY <2>1, <2>2 DEF LabelledInv
      <3>2. \A r \in Roles : Forgotten(NameOf(seenSpec, r))
        BY <2>1, <3>1 DEF LeftInv, Dropped
      <3>3. \A r \in Roles : Forgotten(NameOf(seenSpec, r))'
        BY <2>1, <2>2, <3>1, <3>2 DEF Forgotten, NameOf
      <3> QED
        BY <2>1, <2>2, <3>1, <3>3 DEF LeftInv, NoPods, NoService
    <2> QED
      BY <2>1, <2>2 DEF LeftInv, Dropped
  <1> QED
    BY <1>1, <1>2, <1>3, <1>4, <1>5, <1>6, <1>7, <1>8, <1>9, <1>10, <1>11 DEF Reconciler

LEMMA LeftStep ==
  ASSUME TypeOK, OrderInv, LabelledInv, LeftInv, [Next]_vars
  PROVE  LeftInv'
  <1> USE DEF caches, cluster, worker
  <1>1. CASE Users
    BY <1>1, UsersMakeNone, LeftByOthers DEF Forgotten, NoPods, NoService
  <1>2. CASE TransientError \/ Restart
    BY <1>2, LeftByEnd DEF TransientError, Restart
  <1>3. CASE PodDies \/ RollOut
    BY <1>3, LeftByOthers DEF PodDies, RollOut, Forgotten, NoPods, NoService
  <1>4. CASE SyncSpec \/ SyncDeployment \/ SyncService
    BY <1>4, LeftByOthers DEF SyncSpec, SyncDeployment, SyncService
  <1>5. ASSUME NEW n \in Names, SyncSecret(n)
        PROVE  LeftInv'
    <2>1. CASE queued'
      BY <1>5, <2>1, LeftByOthers DEF SyncSecret
    <2>2. CASE ~queued'
      <3>1. /\ secrets[n].maker # "operator"
            /\ \A i \in Names : seen'[i] = seen[i] \/ i = n
            /\ queued' = queued
        BY <1>5, <2>2 DEF SyncSecret, TypeOK
      <3> QED
        BY <1>5, <2>2, <3>1, LeftByOthers DEF SyncSecret, Forgotten, NoPods, NoService
    <2> QED
      BY <2>1, <2>2
  <1>6. CASE UNCHANGED vars
    BY <1>6, LeftByOthers DEF vars, Forgotten, NoPods, NoService
  <1> QED
    BY <1>1, <1>2, <1>3, <1>4, <1>5, <1>6, LeftByReconciler DEF Next, Failures, Kubernetes

LEMMA LeftInductive == Spec => [](LabelledInv /\ LeftInv)
  <1>1. Init => OrderInv /\ LabelledInv /\ LeftInv
    <2> SUFFICES ASSUME Init PROVE OrderInv /\ LabelledInv /\ LeftInv
      OBVIOUS
    <2>1. \A n \in Names :
            secrets[n] \in {NoSecret} \cup [maker : {"user"}, env : BOOLEAN, content : {0}]
      BY DEF Init
    <2>2. \A n \in Names : secrets[n].maker # "operator"
      BY <2>1 DEF NoSecret
    <2> QED
      BY <2>2 DEF Init, OrderInv, LabelledInv, LeftInv, Dropped
  <1>2. TypeOK /\ OrderInv /\ LabelledInv /\ LeftInv /\ [Next]_vars
          => OrderInv' /\ LabelledInv' /\ LeftInv'
    BY OrderStep, LabelledStep, LeftStep
  <1> QED
    BY <1>1, <1>2, TypeInvariance, PTL DEF Spec

\* EnsureNetworkingSwitchSecrets and removeNetworkingResources decide by caches
\* what there is to delete, and still, once all is quiet and networking is
\* disabled, nothing of the operator's is left under the names of the spec.
THEOREM NothingEverLeft == Spec => []NothingLeft
  <1>1. LabelledInv /\ LeftInv /\ TypeOK => NothingLeft
    <2> SUFFICES ASSUME LabelledInv, LeftInv, TypeOK, Quiescent, ~spec.enabled
                 PROVE  /\ \A r \in Roles : secrets[NameOf(spec, r)].maker # "operator"
                        /\ dep = NoDeployment /\ ~svc /\ ironic # "networked"
      BY DEF NothingLeft
    <2>1. /\ \A r \in Roles : Forgotten(NameOf(spec, r))
          /\ NoPods /\ ~svc /\ ironic # "networked"
      BY DEF Quiescent, LeftInv, NoService
    <2>2. ASSUME NEW r \in Roles
          PROVE  secrets[NameOf(spec, r)].maker # "operator"
      <3>1. NameOf(spec, r) \in Names
        BY RoleTypes DEF TypeOK
      <3> QED
        BY <2>1, <3>1 DEF Quiescent, Forgotten, LabelledInv, Visible
    <2> QED
      BY <2>1, <2>2 DEF NoPods, Quiescent
  <1> QED
    BY <1>1, LeftInductive, TypeInvariance, PTL DEF Spec

-----------------------------------------------------------------------------
(* The pods are current.  The hash in the template is taken of a copy that    *)
(* may be outdated, and stays right because the secrets that change under a   *)
(* walk are the operator's, and those wake the reconciler up.                 *)

\* Users' secrets have the content they were given at first, so a copy with
\* another content is of a secret of the operator's, and in its place there can
\* only be a successor.
Takeable(n, content) == content # 0 => n[2] = "default" /\ secrets[n].maker # "user"

ContentInv ==
  /\ \A n \in Names : secrets[n].maker # "operator" => secrets[n].content = 0
  /\ \A n \in Names : seen[n].maker # "operator" => seen[n].content = 0
  /\ \A n \in Names : secrets[n].maker = "nobody" => secrets[n] = NoSecret
  /\ \A r \in Roles : Takeable(NameOf(conf, r), held[r].content)
  /\ \A r \in Roles : Takeable(dep.uses[r][1], dep.uses[r][2])
  /\ pc = "idle" => held = [r \in Roles |-> NoSecret]

\* A content that was taken of a secret is that of its cached copy, if there is
\* one and it is no successor, or another walk is on its way.
Follows(n, content) ==
  queued \/ seen[n] = NoSecret \/ seen[n].content = content \/ seen[n].maker = "successor"

\* The walk has written the Deployment.
Walked == pc \in {"service", "check"} \/ (pc = "ironic" /\ conf.enabled)

PodsInv ==
  /\ \A r \in Roles : held[r] # NoSecret => Follows(NameOf(conf, r), held[r].content)
  /\ pc = "deployment" \/ Walked => \A r \in Roles : held[r] # NoSecret
  /\ pc \in {"ensure", "create", "obtain"} /\ role = "credentials" => held["config"] # NoSecret
  /\ Walked => \A r \in Roles : dep.uses[r] = <<NameOf(conf, r), held[r].content>>
  /\ pc = "idle" /\ ~queued /\ seenSpec.enabled =>
       \A r \in Roles : /\ dep.uses[r][1] = NameOf(seenSpec, r)
                        /\ Follows(NameOf(seenSpec, r), dep.uses[r][2])

LEMMA MakerOf ==
  /\ NoSecret.maker = "nobody" /\ NoSecret.content = 0
  /\ Placeholder.maker = "operator"
  BY DEF NoSecret, Placeholder

\* What users do to the secrets while their own keep their content.
LEMMA UsersKeepContent ==
  ASSUME ~OwnContent, TypeOK, ContentInv, Users
  PROVE  /\ UNCHANGED <<caches, dep, depFresh, svc, ironic, worker>>
         /\ \A n \in Names :
              /\ secrets'[n].maker # "operator" => secrets'[n].content = 0
              /\ secrets'[n].maker = "nobody" => secrets'[n] = NoSecret
              /\ secrets'[n].maker = "user" => secrets[n].maker = "user" \/ n[2] = "custom"
  <1> USE DEF caches, cluster, worker
  <1>1. CASE EditSpec
    BY <1>1 DEF EditSpec, ContentInv
  <1>2. ASSUME NEW n \in Names, NEW s, ChangeSecret(n, s),
               s.maker # "operator" => s.content = 0,
               s.maker = "nobody" => s = NoSecret,
               s.maker = "user" => secrets[n].maker = "user" \/ n[2] = "custom"
        PROVE  /\ UNCHANGED <<caches, dep, depFresh, svc, ironic, worker>>
               /\ \A i \in Names :
                    /\ secrets'[i].maker # "operator" => secrets'[i].content = 0
                    /\ secrets'[i].maker = "nobody" => secrets'[i] = NoSecret
                    /\ secrets'[i].maker = "user" => secrets[i].maker = "user" \/ i[2] = "custom"
    BY <1>2 DEF ChangeSecret, TypeOK, ContentInv
  <1>3. ASSUME NEW n \in Names,
               \/ ProvideSecret(n) \/ ReplaceSecret(n) \/ LabelSecret(n)
               \/ EditSecret(n) \/ RemoveSecret(n)
        PROVE  \E s : /\ ChangeSecret(n, s)
                      /\ s.maker # "operator" => s.content = 0
                      /\ s.maker = "nobody" => s = NoSecret
                      /\ s.maker = "user" => secrets[n].maker = "user" \/ n[2] = "custom"
    <2>1. secrets[n] \in Secrets
      BY DEF TypeOK
    <2>2. CASE ProvideSecret(n)
      BY <2>2 DEF ProvideSecret
    <2>6. CASE ReplaceSecret(n)
      BY <2>6 DEF ReplaceSecret
    <2>3. CASE LabelSecret(n)
      <3>1. /\ [secrets[n] EXCEPT !.env = TRUE].maker = secrets[n].maker
            /\ [secrets[n] EXCEPT !.env = TRUE].content = secrets[n].content
        BY <2>1 DEF Secrets
      <3> QED
        BY <2>3, <3>1 DEF LabelSecret, OfUser, ContentInv
    <2>4. CASE EditSecret(n)
      <3>1. [secrets[n] EXCEPT !.content = @ + 1].maker = secrets[n].maker
        BY <2>1 DEF Secrets
      <3> QED
        BY <2>4, <3>1 DEF EditSecret
    <2>5. CASE RemoveSecret(n)
      BY <2>5 DEF RemoveSecret, NoSecret
    <2> QED
      BY <1>3, <2>2, <2>3, <2>4, <2>5, <2>6
  <1> QED
    BY <1>1, <1>2, <1>3 DEF Users

\* Steps that leave the secrets, the templates and what is held alone.
LEMMA ContentElsewhere ==
  ASSUME ContentInv, UNCHANGED <<secrets, seen, dep.uses>>,
         \/ pc' # "idle" /\ UNCHANGED <<conf, held>>
         \/ UNCHANGED <<pc, conf, held>>
         \/ held' = [r \in Roles |-> NoSecret]
  PROVE  ContentInv'
  BY DEF ContentInv, Takeable, NameOf, NoSecret

\* Content, and no user's secret, is found only where the operator's secrets are.
LEMMA FoundContent ==
  ASSUME TypeOK, KeptInv, ContentInv
  PROVE  Takeable(Current, Found(Current).content)
  <1>1. Current \in Names /\ (Current[2] = "default" \/ Current[2] = "custom")
    BY RoleTypes DEF TypeOK, Current, NameOf
  <1> QED
    BY <1>1 DEF Takeable, Found, KeptInv, ContentInv

LEMMA ContentByReconciler ==
  ASSUME TypeOK, KeptInv, ContentInv, Reconciler
  PROVE  ContentInv'
  <1> USE DEF caches, cluster
  <1>1. Current \in Names
    BY CurrentType
  <1>2. \A r \in Roles : NameOf(conf, r) \in Names /\ dep.uses[r][1] \in Names
    BY RoleTypes DEF TypeOK, Deployments, Templates
  <1>3. CASE StartReconcile
    BY <1>3, ContentElsewhere DEF StartReconcile, ContentInv
  <1>4. CASE EnsureSecret \/ WriteService
    BY <1>4, ContentElsewhere DEF EnsureSecret, WriteService, Goto, EndReconcile
  <1>5. CASE DropSecret
    BY <1>5, ContentElsewhere DEF DropSecret, NextRole
  <1>6. CASE RemoveService
    BY <1>6, ContentElsewhere DEF RemoveService, Goto
  <1>7. CASE RefuseSecret \/ CheckDeployment \/ WriteIronic
    BY <1>7, ContentElsewhere DEF RefuseSecret, CheckDeployment, WriteIronic, Goto, EndReconcile
  <1>8. CASE CreateSecret \/ DeleteSecret
    <2>1. \A n \in Names : secrets'[n] \in {secrets[n], Placeholder, NoSecret}
      BY <1>8 DEF CreateSecret, DeleteSecret, TypeOK
    <2>2. pc' # "idle" /\ UNCHANGED <<seen, dep, conf, held>>
      BY <1>8 DEF CreateSecret, DeleteSecret, Goto, NextRole
    <2>3. \A n \in Names : \A c : Takeable(n, c) => Takeable(n, c)'
      BY <2>1 DEF Takeable, Placeholder, NoSecret
    <2>4. \A r \in Roles : NameOf(conf, r)' = NameOf(conf, r)
      BY <2>2 DEF NameOf
    <2>5. \A n \in Names : /\ secrets'[n].maker # "operator" => secrets'[n].content = 0
                           /\ secrets'[n].maker = "nobody" => secrets'[n] = NoSecret
      BY <2>1, MakerOf DEF ContentInv
    <2>6. \A r \in Roles : Takeable(NameOf(conf, r), held[r].content)'
      BY <1>2, <2>2, <2>3, <2>4 DEF ContentInv, Takeable
    <2>7. \A r \in Roles : Takeable(dep.uses[r][1], dep.uses[r][2])'
      BY <1>2, <2>2, <2>3 DEF ContentInv, Takeable
    <2> QED
      BY <2>2, <2>5, <2>6, <2>7 DEF ContentInv
  <1>9. CASE ObtainSecret
    <2>1. /\ held' = [held EXCEPT ![role] = Found(Current)]
          /\ pc' # "idle" /\ UNCHANGED <<secrets, seen, dep, conf>>
      BY <1>9 DEF ObtainSecret, NextRole
    <2>2. \A r \in Roles : Takeable(NameOf(conf, r), held'[r].content)
      BY <2>1, FoundContent DEF TypeOK, ContentInv, Current
    <2> QED
      BY <2>1, <2>2 DEF ContentInv, Takeable, NameOf
  <1>10. CASE WriteDeployment
    <2>1. CASE EndReconcile(TRUE) /\ dep' = dep
      BY <1>10, <2>1, ContentElsewhere DEF WriteDeployment, EndReconcile
    <2>2. CASE /\ dep'.uses = [r \in Roles |-> <<NameOf(conf, r), held[r].content>>]
               /\ Goto("service")
      BY <1>10, <2>2 DEF WriteDeployment, Goto, ContentInv, Takeable, NameOf
    <2>3. ASSUME NEW uses, NEW phase, dep' = [uses |-> uses, phase |-> phase]
          PROVE  dep'.uses = uses
      BY <2>3
    <2> QED
      BY <1>10, <2>1, <2>2, <2>3 DEF WriteDeployment
  <1>11. CASE RemoveDeployment
    <2>1. dep'.uses = dep.uses \/ dep'.uses = NoTemplate
      BY <1>11 DEF RemoveDeployment, NoDeployment
    <2>2. pc' # "idle" /\ UNCHANGED <<secrets, seen, conf, held>>
      BY <1>11 DEF RemoveDeployment, Goto
    <2>3. \A r \in Roles : Takeable(dep'.uses[r][1], dep'.uses[r][2])
      BY <2>1 DEF NoTemplate, Takeable, ContentInv
    <2> QED
      BY <2>2, <2>3 DEF ContentInv, Takeable, NameOf
  <1> QED
    BY <1>3, <1>4, <1>5, <1>6, <1>7, <1>8, <1>9, <1>10, <1>11 DEF Reconciler

LEMMA ContentStep ==
  ASSUME ~OwnContent, TypeOK, KeptInv, ContentInv, [Next]_vars
  PROVE  ContentInv'
  <1> USE DEF caches, cluster, worker
  <1>1. \A r \in Roles : NameOf(conf, r) \in Names /\ dep.uses[r][1] \in Names
    BY RoleTypes DEF TypeOK, Deployments, Templates
  <1>2. CASE Users
    <2>1. /\ UNCHANGED <<caches, dep, depFresh, svc, ironic, worker>>
          /\ \A n \in Names :
               /\ secrets'[n].maker # "operator" => secrets'[n].content = 0
               /\ secrets'[n].maker = "nobody" => secrets'[n] = NoSecret
               /\ secrets'[n].maker = "user" => secrets[n].maker = "user" \/ n[2] = "custom"
      BY <1>2, UsersKeepContent
    <2>2. \A n \in Names : \A c : Takeable(n, c) => Takeable(n, c)'
      BY <2>1 DEF Takeable
    <2>3. \A r \in Roles : Takeable(NameOf(conf, r), held[r].content)'
      BY <1>1, <2>1, <2>2 DEF ContentInv, NameOf, Takeable
    <2>4. \A r \in Roles : Takeable(dep.uses[r][1], dep.uses[r][2])'
      BY <1>1, <2>1, <2>2 DEF ContentInv, Takeable
    <2> QED
      BY <2>1, <2>3, <2>4 DEF ContentInv
  <1>3. ASSUME UNCHANGED <<secrets, dep.uses>>,
               \A n \in Names : seen'[n] = seen[n] \/ seen'[n] = Visible(secrets[n]),
               UNCHANGED <<pc, conf, held>> \/ held' = [r \in Roles |-> NoSecret]
        PROVE  ContentInv'
    <2>1. \A n \in Names : seen'[n].maker # "operator" => seen'[n].content = 0
      BY <1>3 DEF ContentInv, Visible, NoSecret
    <2>2. \A r \in Roles : Takeable(NameOf(conf, r), held[r].content)'
      BY <1>3 DEF ContentInv, Takeable, NameOf, NoSecret
    <2> QED
      BY <1>3, <2>1, <2>2 DEF ContentInv, Takeable
  <1>4. CASE TransientError \/ Restart
    BY <1>3, <1>4 DEF TransientError, Restart, EndReconcile
  <1>5. CASE PodDies \/ RollOut
    <2>1. dep'.uses = dep.uses
      BY <1>5 DEF PodDies, RollOut, TypeOK, Deployments
    <2> QED
      BY <1>3, <1>5, <2>1 DEF PodDies, RollOut
  <1>6. CASE SyncSpec \/ SyncDeployment \/ SyncService \/ UNCHANGED vars
    BY <1>3, <1>6 DEF SyncSpec, SyncDeployment, SyncService, vars
  <1>7. CASE \E n \in Names : SyncSecret(n)
    BY <1>3, <1>7 DEF SyncSecret, TypeOK
  <1> QED
    BY <1>2, <1>4, <1>5, <1>6, <1>7, ContentByReconciler DEF Next, Failures, Kubernetes

\* A step of others: it wakes the reconciler up, or leaves the pods' template
\* and the copies of the secrets that were taken.
LEMMA PodsByOthers ==
  ASSUME TypeOK, PodsInv, UNCHANGED <<pc, conf, role, held, dep.uses>>,
         queued' \/ /\ UNCHANGED <<queued, seenSpec>>
                    /\ \A n \in Names, c \in 0 .. MaxContent :
                         Takeable(n, c) /\ Follows(n, c) => Follows(n, c)',
         ContentInv
  PROVE  PodsInv'
  <1>1. /\ \A r \in Roles : NameOf(conf, r)' = NameOf(conf, r)
        /\ \A r \in Roles : NameOf(conf, r) \in Names /\ NameOf(seenSpec, r) \in Names
        /\ \A r \in Roles : held[r].content \in 0 .. MaxContent
        /\ \A r \in Roles : dep.uses[r][2] \in 0 .. MaxContent
    BY RoleTypes DEF NameOf, TypeOK, Secrets, Deployments, Templates
  <1>2. CASE queued'
    BY <1>1, <1>2 DEF PodsInv, Follows, Walked
  <1>3. CASE /\ UNCHANGED <<queued, seenSpec>>
             /\ \A n \in Names, c \in 0 .. MaxContent :
                  Takeable(n, c) /\ Follows(n, c) => Follows(n, c)'
    <2>1. \A r \in Roles : NameOf(seenSpec, r)' = NameOf(seenSpec, r)
      BY <1>3 DEF NameOf
    <2>2. \A r \in Roles : held'[r] # NoSecret => Follows(NameOf(conf, r), held[r].content)'
      BY <1>1, <1>3 DEF PodsInv, ContentInv
    <2>3. pc' = "idle" /\ ~queued' /\ seenSpec'.enabled =>
            \A r \in Roles : /\ dep.uses[r][1] = NameOf(seenSpec, r)
                             /\ Follows(NameOf(seenSpec, r), dep.uses[r][2])'
      BY <1>1, <1>3 DEF PodsInv, ContentInv
    <2> QED
      BY <1>1, <1>3, <2>1, <2>2, <2>3 DEF PodsInv, Walked, Follows
  <1> QED
    BY <1>2, <1>3

\* A walk that ends with a requeue.
LEMMA PodsByEnd ==
  ASSUME EndReconcile(TRUE)
  PROVE  PodsInv'
  BY DEF EndReconcile, PodsInv, Walked

\* A step of the walk that takes nothing and writes no Deployment.
LEMMA PodsByWalk ==
  ASSUME PodsInv, UNCHANGED <<seen, queued, conf, held, dep.uses>>, pc' # "idle",
         pc' = "deployment" \/ Walked' => pc = "deployment" \/ Walked,
         Walked' => Walked,
         pc' \in {"ensure", "create", "obtain"} /\ role' = "credentials" =>
           pc \in {"ensure", "create", "obtain"} /\ role = "credentials"
  PROVE  PodsInv'
  BY DEF PodsInv, Follows, NameOf

LEMMA PodsByReconciler ==
  ASSUME TypeOK, OrderInv, LabelledInv, ContentInv, PodsInv, Reconciler
  PROVE  PodsInv'
  <1> USE DEF caches, cluster
  <1>1. CASE StartReconcile
    BY <1>1 DEF StartReconcile, PodsInv, Walked, ContentInv, LabelledInv
  <1>2. CASE EnsureSecret \/ CreateSecret
    BY <1>2, PodsByWalk DEF EnsureSecret, CreateSecret, Goto, Walked
  <1>3. CASE ObtainSecret
    <2>1. /\ Found(Current).env /\ NextRole("ensure", "deployment")
          /\ held' = [held EXCEPT ![role] = Found(Current)]
          /\ UNCHANGED <<seen, queued, conf, dep>>
      BY <1>3 DEF ObtainSecret
    <2>2. Found(Current) # NoSecret /\ Follows(Current, Found(Current).content)
      BY <2>1 DEF NoSecret, Found, Follows
    <2>3. \A r \in Roles : held'[r] = IF r = role THEN Found(Current) ELSE held[r]
      BY <2>1 DEF TypeOK
    <2>4. \A r \in Roles : held'[r] # NoSecret => Follows(NameOf(conf, r), held'[r].content)
      BY <2>2, <2>3 DEF PodsInv, Current
    <2>5. pc' = "ensure" => held'["config"] # NoSecret
      BY <2>1, <2>2, <2>3, RoleTypes DEF NextRole
    <2>6. pc' = "deployment" => \A r \in Roles : held'[r] # NoSecret
      BY <1>3, <2>1, <2>2, <2>3, RolesAssumption
      DEF RolesAssumption, NextRole, PodsInv, ObtainSecret, TypeOK
    <2>7. pc' \in {"ensure", "deployment"}
      BY <2>1 DEF NextRole
    <2> QED
      BY <2>1, <2>4, <2>5, <2>6, <2>7 DEF PodsInv, Walked, Follows, NameOf
  <1>4. CASE RefuseSecret
    BY <1>4, PodsByEnd DEF RefuseSecret
  <1>5. CASE WriteDeployment
    <2>1. ASSUME NEW uses, NEW phase, dep' = [uses |-> uses, phase |-> phase]
          PROVE  dep'.uses = uses
      BY <2>1
    <2>2. CASE EndReconcile(TRUE)
      BY <2>2, PodsByEnd
    <2>3. CASE /\ dep'.uses = [r \in Roles |-> <<NameOf(conf, r), held[r].content>>]
               /\ Goto("service")
      <3>1. \A r \in Roles : dep'.uses[r] = <<NameOf(conf, r), held[r].content>>
        BY <2>3
      <3> QED
        BY <1>5, <2>3, <3>1 DEF WriteDeployment, Goto, PodsInv, Walked, Follows, NameOf
    <2> QED
      BY <1>5, <2>1, <2>2, <2>3 DEF WriteDeployment
  <1>6. CASE WriteService
    BY <1>6, PodsByEnd, PodsByWalk DEF WriteService, Goto, Walked
  <1>7. CASE CheckDeployment
    BY <1>7, PodsByEnd, PodsByWalk DEF CheckDeployment, Goto, Walked
  <1>8. CASE DropSecret \/ DeleteSecret
    BY <1>8, PodsByWalk DEF DropSecret, DeleteSecret, NextRole, Walked
  <1>9. CASE RemoveDeployment \/ RemoveService
    <2>1. pc' \in {"removeService", "ironic"} /\ ~conf.enabled
          /\ UNCHANGED <<seen, queued, conf, held>>
      BY <1>9 DEF RemoveDeployment, RemoveService, Goto, OrderInv
    <2> QED
      BY <2>1 DEF PodsInv, Walked, Follows, NameOf
  <1>10. CASE WriteIronic
    <2>1. /\ pc = "ironic" /\ UNCHANGED <<seenSpec, seen, dep>>
          /\ pc' = "idle" /\ held' = [r \in Roles |-> NoSecret]
          /\ queued => queued'
      BY <1>10 DEF WriteIronic, EndReconcile
    <2>2. ASSUME ~queued', seenSpec.enabled, NEW r \in Roles
          PROVE  /\ dep.uses[r][1] = NameOf(seenSpec, r)
                 /\ Follows(NameOf(seenSpec, r), dep.uses[r][2])'
      <3>1. conf = seenSpec /\ ~queued
        BY <2>1, <2>2 DEF LabelledInv
      <3>2. /\ dep.uses[r] = <<NameOf(conf, r), held[r].content>>
            /\ Follows(NameOf(conf, r), held[r].content)
        BY <2>1, <2>2, <3>1 DEF PodsInv, Walked
      <3> QED
        BY <2>1, <2>2, <3>1, <3>2 DEF Follows, NameOf
    <2> QED
      BY <2>1, <2>2 DEF PodsInv, Walked, Follows, NameOf
  <1> QED
    BY <1>1, <1>2, <1>3, <1>4, <1>5, <1>6, <1>7, <1>8, <1>9, <1>10 DEF Reconciler

LEMMA PodsStep ==
  ASSUME ~OwnContent, TypeOK, OrderInv, LabelledInv, ContentInv, PodsInv, [Next]_vars
  PROVE  PodsInv'
  <1> USE DEF caches, cluster, worker
  <1>1. CASE Users
    BY <1>1, UsersKeepContent, PodsByOthers DEF Follows
  <1>2. CASE TransientError \/ Restart
    BY <1>2, PodsByEnd DEF TransientError, Restart
  <1>3. CASE PodDies \/ RollOut
    <2>1. dep'.uses = dep.uses
      BY <1>3 DEF PodDies, RollOut, TypeOK, Deployments
    <2> QED
      BY <1>3, <2>1, PodsByOthers DEF PodDies, RollOut, Follows
  <1>4. CASE SyncSpec \/ SyncDeployment \/ SyncService
    BY <1>4, PodsByOthers DEF SyncSpec, SyncDeployment, SyncService
  <1>5. ASSUME NEW n \in Names, SyncSecret(n)
        PROVE  PodsInv'
    <2>1. CASE queued'
      BY <1>5, <2>1, PodsByOthers DEF SyncSecret
    <2>2. CASE ~queued'
      <3>1. /\ secrets[n].maker # "operator"
            /\ secrets[n].content = 0
            /\ \A i \in Names : seen'[i] = IF i = n THEN Visible(secrets[n]) ELSE seen[i]
            /\ queued' = queued
        BY <1>5, <2>2 DEF SyncSecret, TypeOK, ContentInv
      <3>2. secrets[n].maker \in {"user", "successor"} \/ secrets[n] = NoSecret
        BY <3>1 DEF TypeOK, Secrets, Makers, ContentInv
      <3>3. \A i \in Names, c \in 0 .. MaxContent :
              Takeable(i, c) /\ Follows(i, c) => Follows(i, c)'
        BY <3>1, <3>2 DEF Takeable, Follows, Visible, NoSecret
      <3> QED
        BY <1>5, <3>1, <3>3, PodsByOthers DEF SyncSecret
    <2> QED
      BY <2>1, <2>2
  <1>6. CASE UNCHANGED vars
    BY <1>6, PodsByOthers DEF vars, Follows
  <1> QED
    BY <1>1, <1>2, <1>3, <1>4, <1>5, <1>6, PodsByReconciler DEF Next, Failures, Kubernetes

\* The template of the networking Deployment carries the content of the secrets,
\* taken of copies that lag behind; once all is quiet, it is the content they
\* have.  Users may rename, provide, replace, label and remove secrets at any time,
\* but not change the content of their own, which goes unnoticed because only the
\* operator's secrets are watched; for the same reason nothing is said of a secret
\* of theirs that has come in the place of the operator's.
THEOREM PodsAlwaysCurrent ==
  ASSUME ~OwnContent
  PROVE  Spec => []PodsAreCurrent
  <1>1. Init => KeptInv /\ OrderInv /\ LabelledInv /\ ContentInv /\ PodsInv
    <2> SUFFICES ASSUME Init
                 PROVE  KeptInv /\ OrderInv /\ LabelledInv /\ ContentInv /\ PodsInv
      OBVIOUS
    <2>1. \A n \in Names :
            secrets[n] \in {NoSecret} \cup [maker : {"user"}, env : BOOLEAN, content : {0}]
      BY DEF Init
    <2>2. \A n \in Names : /\ secrets[n].maker # "operator" /\ secrets[n].content = 0
                           /\ secrets[n].maker = "nobody" => secrets[n] = NoSecret
      <3>1. ASSUME NEW s \in [maker : {"user"}, env : BOOLEAN, content : {0}]
            PROVE  s.maker = "user" /\ s.content = 0
        BY <3>1
      <3> QED
        BY <2>1, <3>1, MakerOf
    <2>3. \A n \in Names : seen[n] = secrets[n] \/ seen[n] = NoSecret
      BY DEF Init, Visible
    <2>4. KeptInv
      BY <2>2, <2>3 DEF Init, KeptInv, NoSecret
    <2>5. OrderInv /\ LabelledInv
      BY <2>2 DEF Init, OrderInv, LabelledInv
    <2>6. ContentInv
      BY <2>2, <2>3 DEF Init, ContentInv, Takeable, NoSecret, NoDeployment, NoTemplate
    <2> QED
      BY <2>4, <2>5, <2>6 DEF Init, PodsInv, Walked
  <1>2. TypeOK /\ KeptInv /\ OrderInv /\ LabelledInv /\ ContentInv /\ PodsInv /\ [Next]_vars
          => KeptInv' /\ OrderInv' /\ LabelledInv' /\ ContentInv' /\ PodsInv'
    BY KeptStep, OrderStep, LabelledStep, ContentStep, PodsStep
  <1>3. TypeOK /\ LabelledInv /\ ContentInv /\ PodsInv => PodsAreCurrent
    <2> SUFFICES ASSUME TypeOK, LabelledInv, ContentInv, PodsInv, Quiescent, spec.enabled,
                        NEW r \in Roles,
                        secrets[NameOf(spec, r)].maker \in {"operator", "user"}
                 PROVE  dep.uses[r] = <<NameOf(spec, r), secrets[NameOf(spec, r)].content>>
      BY DEF PodsAreCurrent
    <2>1. NameOf(spec, r) \in Names /\ dep.uses[r] = <<dep.uses[r][1], dep.uses[r][2]>>
      BY RoleTypes DEF TypeOK, Deployments, Templates
    <2>2. dep.uses[r][1] = NameOf(spec, r) /\ Follows(NameOf(spec, r), dep.uses[r][2])
      BY DEF Quiescent, PodsInv
    <2>3. Takeable(NameOf(spec, r), dep.uses[r][2])
      BY <2>2 DEF ContentInv
    <2>4. secrets[NameOf(spec, r)] \in Secrets
      BY <2>1 DEF TypeOK
    <2>5. secrets[NameOf(spec, r)].content = dep.uses[r][2]
      <3> DEFINE s == secrets[NameOf(spec, r)]
      <3>1. s.maker \in {"operator", "user"}
        OBVIOUS
      <3>2. seen[NameOf(spec, r)] = (IF s.env THEN s ELSE NoSecret) /\ ~queued
        BY <2>1 DEF Quiescent, Visible
      <3>3. CASE s.env
        BY <2>2, <2>4, <3>1, <3>2, <3>3 DEF Follows, NoSecret
      <3>4. CASE ~s.env
        BY <2>1, <2>3, <3>1, <3>4 DEF Takeable, ContentInv, LabelledInv
      <3> QED
        BY <2>4, <3>3, <3>4 DEF Secrets
    <2> QED
      BY <2>1, <2>2, <2>5
  <1> QED
    BY <1>1, <1>2, <1>3, TypeInvariance, PTL DEF Spec

=============================================================================
