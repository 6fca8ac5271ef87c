--------------------------- MODULE DatabaseUpgrade ---------------------------
(***************************************************************************)
(* What the operator promises to the external database of an Ironic: the   *)
(* upgrade protocol of pkg/ironic/upgrades.go, EnsureIronic and            *)
(* updateIronicStatus, without the reconciler that carries it out.  A      *)
(* release is deployed only on a schema it has upgraded, its data is       *)
(* migrated only after that, and it is reported as installed only after    *)
(* both; nothing ever goes back to an older release, except from "latest",  *)
(* after which a job of an earlier round may stand for the one due.         *)
(***************************************************************************)
EXTENDS Releases

CONSTANTS Versions, None

VARIABLES
  schema,     \* the releases whose database-upgrade has run
  migrated,   \* the releases whose online-data-migrations has run
  running,    \* the release of the workload object, None without one
  installed   \* status.installedVersion

vars == <<schema, migrated, running, installed>>

Init ==
  /\ schema = {}
  /\ migrated = {}
  /\ running = None
  /\ installed = None

UpgradeSchema(v) ==
  /\ schema' = schema \cup {v}
  /\ UNCHANGED <<migrated, running, installed>>

\* After "latest" the order of releases says nothing.
Deploy(v) ==
  /\ v \in schema
  /\ Latest \in schema \/ \A w \in schema : ~Less(v, w)
  /\ running' = v
  /\ UNCHANGED <<schema, migrated, installed>>

\* A workload of the other kind takes its place.
Withdraw ==
  /\ running' = None
  /\ UNCHANGED <<schema, migrated, installed>>

\* An older release, which only "latest" lets in, writes records of its own.
WriteOldRecords ==
  /\ Latest \in schema
  /\ running # None
  /\ migrated' = {w \in migrated : ~Less(running, w)}
  /\ UNCHANGED <<schema, running, installed>>

MigrateData(v) ==
  /\ v \in schema
  /\ migrated' = migrated \cup {v}
  /\ UNCHANGED <<schema, running, installed>>

Install(v) ==
  /\ v \in schema
  /\ v \in migrated \/ Latest \in schema
  /\ installed = None \/ ~Less(v, installed)
  /\ installed' = v
  /\ UNCHANGED <<schema, migrated, running>>

Next ==
  \/ Withdraw
  \/ WriteOldRecords
  \/ \E v \in Versions :
       UpgradeSchema(v) \/ Deploy(v) \/ MigrateData(v) \/ Install(v)

Spec == Init /\ [][Next]_vars
=============================================================================
