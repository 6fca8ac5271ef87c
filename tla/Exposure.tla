------------------------------- MODULE Exposure -------------------------------
(***************************************************************************)
(* How Ironic is made reachable: the second half of EnsureIronic, where    *)
(* the workload, its Service, the Ingress and the ServiceMonitor follow    *)
(* one spec, one after the other (pkg/ironic/ironic.go, ingress.go,        *)
(* servicemonitor.go).  Each of them names ports or files of another one.  *)
(* Users edit the spec and the linked objects meanwhile, others delete     *)
(* what was made, and not all of that is watched                           *)
(* (SetupWithManager in internal/controller/ironic_controller.go).         *)
(*                                                                         *)
(* The upgrade jobs between these steps, the deletion of the other         *)
(* workload and the lag of the caches are the subject of IronicReconcile.  *)
(***************************************************************************)
EXTENDS Wiring, FiniteSetsExt

CONSTANTS
  Initial,      \* specs that objects are created with
  MaxEvents     \* bound on what users and others do, and on failures

ASSUME ExposureBounds ==
  /\ \A s \in Initial : s \in Specs /\ ValidateIronic(s, s) /\ KeyOfReference(s)
  /\ MaxEvents \in Nat

VARIABLES
  spec,      \* the spec of the Ironic object
  linked,    \* the keys of the linked objects
  mem,       \* what the walk has read of both, NoWalk between walks
  memFresh,  \* the copy of the object is still the current one
  pc,        \* where in EnsureIronic the walk is
  outcome,   \* the status computed so far
  workload,  \* the Deployment or DaemonSet
  up,        \* it is rolled out
  service,   \* the ports of the Service, empty if there is none
  ingress,   \* the backends of the Ingress, empty if there is none
  monitor,   \* there is a ServiceMonitor
  crd,       \* the cluster knows ServiceMonitors
  watching,  \* it did when the operator started
  ready,     \* the Ready condition is True for the current generation
  queued,    \* the work queue holds the object
  unseen,    \* changes since the last walk started that nobody was told about
  events     \* edits and failures so far

objects == <<workload, up, service, ingress, monitor>>
cluster == <<crd, watching>>
vars == <<spec, linked, mem, memFresh, pc, outcome, objects, cluster, ready, queued, unseen, events>>

NoWalk == [spec |-> Plain, linked |-> <<>>]
NoWorkload == [kind |-> "none", pod |-> [containers |-> <<>>, volumes |-> <<>>, hostNetwork |-> TRUE]]

ServicePort(name, port) == [name |-> name, port |-> port]
Backend(path, port) == [path |-> path, port |-> port]

Labels == {"idle", "workload", "service", "ingress", "monitor", "report"}

TypeOK ==
  /\ spec \in Specs
  /\ linked \in [Linkable -> SUBSET Keys]
  /\ mem = NoWalk \/ (mem.spec \in Specs /\ mem.linked \in [Linkable -> SUBSET Keys])
  /\ memFresh \in BOOLEAN
  /\ pc \in Labels
  /\ outcome \in {"none", "updated", "progress", "ready", "failed"}
  /\ workload = NoWorkload \/ workload.kind \in {"Deployment", "DaemonSet"}
  /\ service \subseteq [name : {"ironic-api", "image-svc", "image-svc-tls", "metrics"},
                        port : {"http", "https", "images-port", "images-tls-port", "metrics-port"}]
  /\ ingress \subseteq [path : {"/", "/redfish", "/images"},
                        port : {"ironic-api", "image-svc", "image-svc-tls"}]
  /\ {up, monitor, crd, watching, ready, queued} \subseteq BOOLEAN
  /\ unseen \subseteq {"linked", "ingress", "monitor"}
  /\ events \in 0 .. MaxEvents

-----------------------------------------------------------------------------
(* Faulty variants of definitions below, one plausible slip each.  Nothing    *)
(* uses them; put in place of the definition they are named after, each one   *)
(* breaks a property.                                                         *)

\* ServicePorts that always names the images' port in plain text.
ServicePortsPlain(s) ==
  {ServicePort("ironic-api", IF s.tls THEN "https" ELSE "http"),
   ServicePort("image-svc", "images-port")}

\* RemoveMonitor that leaves a ServiceMonitor alone that is not wanted.
RemoveMonitorNever ==
  /\ pc = "monitor"
  /\ ~MonitorWanted(mem.spec)
  /\ pc' = "report"
  /\ UNCHANGED <<spec, linked, mem, memFresh, outcome, objects, cluster, ready, queued, unseen, events>>

\* Report that does not come back after an update.
ReportForgetful ==
  /\ pc = "report"
  /\ pc' = "idle"
  /\ mem' = NoWalk
  /\ memFresh' = TRUE
  /\ outcome' = "none"
  /\ ready' = IF memFresh THEN outcome = "ready" ELSE ready
  /\ UNCHANGED <<spec, linked, objects, cluster, queued, unseen, events>>

-----------------------------------------------------------------------------
(* What is asked for. *)

Kind(s) == IF s.ha THEN "DaemonSet" ELSE "Deployment"
Workload(s, l) == [kind |-> Kind(s), pod |-> newIronicPodTemplate(s, l)]

ImagesPortName(s) == IF s.tls THEN "image-svc-tls" ELSE "image-svc"

ServicePorts(s) ==
  {ServicePort("ironic-api", IF s.tls THEN "https" ELSE "http")}
  \cup When(~s.ha,
         {ServicePort(ImagesPortName(s), IF s.tls THEN "images-tls-port" ELSE "images-port")})
  \cup When(s.exporter.enabled, {ServicePort("metrics", "metrics-port")})

IngressBackends(s) ==
  {Backend("/", "ironic-api"), Backend("/redfish", ImagesPortName(s)),
   Backend("/images", ImagesPortName(s))}

-----------------------------------------------------------------------------
(* The walk. *)

Init ==
  /\ spec \in Initial
  /\ linked = [o \in Linkable |-> Keys]
  /\ mem = NoWalk
  /\ memFresh = TRUE
  /\ pc = "idle"
  /\ outcome = "none"
  /\ workload = NoWorkload
  /\ up = FALSE
  /\ service = {}
  /\ ingress = {}
  /\ monitor = FALSE
  /\ crd \in BOOLEAN
  /\ watching = crd
  /\ ready = FALSE
  /\ queued = TRUE
  /\ unseen = {}
  /\ events = 0

StartReconcile ==
  /\ pc = "idle"
  /\ queued
  /\ mem' = [spec |-> spec, linked |-> linked]
  /\ memFresh' = TRUE
  /\ pc' = "workload"
  /\ queued' = FALSE
  /\ unseen' = {}
  /\ UNCHANGED <<spec, linked, outcome, objects, cluster, ready, events>>

Goto(label) ==
  /\ pc' = label
  /\ UNCHANGED <<spec, linked, mem, memFresh, cluster, ready, unseen, events>>

\* The end of a walk.
EndReconcile(requeue) ==
  /\ pc' = "idle"
  /\ mem' = NoWalk
  /\ memFresh' = TRUE
  /\ outcome' = "none"
  /\ queued' = (queued \/ requeue)
  /\ UNCHANGED <<spec, linked, objects, cluster, unseen>>

RefuseResources ==
  /\ pc = "workload"
  /\ ~Validate(mem.spec, mem.linked)
  /\ outcome' = "failed"
  /\ Goto("report")
  /\ UNCHANGED <<objects, queued>>

\* Writing the workload does not end the walk: the Service is created while
\* Ironic is being deployed.
WriteWorkload ==
  /\ pc = "workload"
  /\ Validate(mem.spec, mem.linked)
  /\ workload # Workload(mem.spec, mem.linked)
  /\ workload' = Workload(mem.spec, mem.linked)
  /\ up' = FALSE
  /\ outcome' = "updated"
  /\ queued' = TRUE
  /\ Goto("service")
  /\ UNCHANGED <<service, ingress, monitor>>

CheckWorkload ==
  /\ pc = "workload"
  /\ Validate(mem.spec, mem.linked)
  /\ workload = Workload(mem.spec, mem.linked)
  /\ outcome' = IF up THEN "ready" ELSE "progress"
  /\ Goto("service")
  /\ UNCHANGED <<objects, queued>>

\* After a write of one of the other objects there is nothing more to do in
\* this walk.
WriteService ==
  /\ pc = "service"
  /\ service # ServicePorts(mem.spec)
  /\ service' = ServicePorts(mem.spec)
  /\ outcome' = "updated"
  /\ queued' = TRUE
  /\ Goto("report")
  /\ UNCHANGED <<workload, up, ingress, monitor>>

\* A Service that is in place has its addresses: the API server assigns them as
\* it creates it, so the step never waits for them.
KeepService ==
  /\ pc = "service"
  /\ service = ServicePorts(mem.spec)
  /\ Goto(IF mem.spec.ingress THEN "ingress" ELSE "monitor")
  /\ UNCHANGED <<outcome, objects, queued>>

WriteIngress ==
  /\ pc = "ingress"
  /\ ingress # IngressBackends(mem.spec)
  /\ ingress' = IngressBackends(mem.spec)
  /\ outcome' = "updated"
  /\ Goto("report")
  /\ UNCHANGED <<workload, up, service, monitor, queued>>

KeepIngress ==
  /\ pc = "ingress"
  /\ ingress = IngressBackends(mem.spec)
  /\ Goto("monitor")
  /\ UNCHANGED <<outcome, objects, queued>>

CreateMonitor ==
  /\ pc = "monitor"
  /\ MonitorWanted(mem.spec)
  /\ crd
  /\ ~monitor
  /\ monitor' = TRUE
  /\ outcome' = "updated"
  /\ queued' = (queued \/ watching)
  /\ Goto("report")
  /\ UNCHANGED <<workload, up, service, ingress>>

KeepMonitor ==
  /\ pc = "monitor"
  /\ MonitorWanted(mem.spec)
  /\ monitor
  /\ Goto("report")
  /\ UNCHANGED <<outcome, objects, queued>>

\* A ServiceMonitor that is wanted and unknown to the cluster is an error like
\* any other one, and tried again; the status is left as it is.
MissMonitor ==
  /\ pc = "monitor"
  /\ MonitorWanted(mem.spec)
  /\ ~crd
  /\ EndReconcile(TRUE)
  /\ UNCHANGED <<ready, events>>

\* One that is not there, or not known, needs not be removed.
RemoveMonitor ==
  /\ pc = "monitor"
  /\ ~MonitorWanted(mem.spec)
  /\ monitor' = FALSE
  /\ queued' = (queued \/ (monitor /\ watching))
  /\ Goto("report")
  /\ UNCHANGED <<outcome, workload, up, service, ingress>>

\* The status of a copy that is outdated cannot be written; the walk is tried
\* again.  A status that was written wakes the reconciler up.
Report ==
  /\ pc = "report"
  /\ ready' = IF memFresh THEN outcome = "ready" ELSE ready
  /\ EndReconcile(outcome = "updated" \/ ready' # ready \/ ~memFresh)
  /\ UNCHANGED events

Event ==
  /\ events < MaxEvents
  /\ events' = events + 1

TransientError ==
  /\ Event
  /\ pc # "idle"
  /\ EndReconcile(TRUE)
  /\ UNCHANGED ready

\* After a restart every object is queued, and the kinds to watch are decided
\* upon again.
Restart ==
  /\ Event
  /\ pc' = "idle"
  /\ mem' = NoWalk
  /\ memFresh' = TRUE
  /\ outcome' = "none"
  /\ queued' = TRUE
  /\ watching' = crd
  /\ UNCHANGED <<spec, linked, objects, crd, ready, unseen>>

-----------------------------------------------------------------------------
(* Kubernetes, users and others. *)

RollOut ==
  /\ workload # NoWorkload
  /\ ~up
  /\ up' = TRUE
  /\ queued' = TRUE
  /\ UNCHANGED <<spec, linked, mem, memFresh, pc, outcome, workload, service, ingress, monitor,
                 cluster, ready, unseen, events>>

Edit ==
  /\ Event
  /\ UNCHANGED <<mem, pc, outcome, workload, up>>

\* The specs one field away, or one pair of fields that only make sense together.
Flags == {"ha", "service", "downloader", "tls", "plainMedia", "disableHostNetwork", "bind", "dhcp",
          "ipAddressManager", "externalIP", "ingress", "callbackURL", "imageURL"}

Edited(s) ==
  {[s EXCEPT ![f] = ~@] : f \in Flags}
  \cup {[s EXCEPT !.callbackURL = ~@, !.imageURL = ~@]}
  \cup {[s EXCEPT !.database = d] : d \in {"none", "plain", "tls"}}
  \cup {[s EXCEPT !.insecureRPC = i] : i \in {"unset", "no", "yes"}}
  \cup {[s EXCEPT !.bmcCA = o] : o \in Linkable \cup {Nothing}}
  \cup {[s EXCEPT !.trustedCA = Nothing, !.key = ""]}
  \cup (UNION {{[s EXCEPT !.trustedCA = o, !.key = k] : k \in Keys \cup {""}} : o \in Linkable})
  \cup {[s EXCEPT !.bmcCAName = n] : n \in {"", "ca"}}
  \cup {[s EXCEPT !.trustedCAName = n] : n \in {"", "ca"}}
  \cup {[s EXCEPT !.addresses = a] : a \in SUBSET {"ipAddress", "interface", "macAddresses"}}
  \cup {[s EXCEPT !.keepalived = k] : k \in {"unset", "disabled", "enabled"}}
  \cup {[s EXCEPT !.exporter = e] : e \in Exporters}

EditSpec ==
  /\ Edit
  /\ \E s \in Edited(spec) \ {spec} : ValidateIronic(s, spec) /\ spec' = s
  /\ memFresh' = FALSE
  /\ ready' = FALSE
  /\ queued' = TRUE
  /\ UNCHANGED <<linked, service, ingress, monitor, cluster, unseen>>

\* The object is the owner of the secrets it uses, which are watched for that;
\* of config maps nobody is told.
ChangeLinked ==
  /\ Edit
  /\ \E o \in Linkable, k \in Keys :
       /\ o = Certificate => k = "ca.crt"
       /\ linked' = [linked EXCEPT ![o] = IF k \in @ THEN @ \ {k} ELSE @ \cup {k}]
       /\ IF o.kind = "Secret"
            THEN /\ queued' = (queued \/ o \in {TLSSecret(spec), GetBMCCA(spec), GetTrustedCA(spec)})
                 /\ unseen' = unseen
            ELSE queued' = queued /\ unseen' = unseen \cup {"linked"}
  /\ UNCHANGED <<spec, memFresh, service, ingress, monitor, cluster, ready>>

DeleteService ==
  /\ Edit
  /\ service # {}
  /\ service' = {}
  /\ queued' = TRUE
  /\ UNCHANGED <<spec, linked, memFresh, ingress, monitor, cluster, ready, unseen>>

DeleteIngress ==
  /\ Edit
  /\ ingress # {}
  /\ ingress' = {}
  /\ unseen' = unseen \cup {"ingress"}
  /\ UNCHANGED <<spec, linked, memFresh, service, monitor, cluster, ready, queued>>

DeleteMonitor ==
  /\ Edit
  /\ monitor
  /\ monitor' = FALSE
  /\ IF watching THEN queued' = TRUE /\ unseen' = unseen
     ELSE queued' = queued /\ unseen' = unseen \cup {"monitor"}
  /\ UNCHANGED <<spec, linked, memFresh, service, ingress, cluster, ready>>

InstallMonitoring ==
  /\ Edit
  /\ ~crd
  /\ crd' = TRUE
  /\ UNCHANGED <<spec, linked, memFresh, service, ingress, monitor, watching, ready, queued, unseen>>

Walk ==
  \/ RefuseResources
  \/ WriteWorkload \/ CheckWorkload
  \/ WriteService \/ KeepService
  \/ WriteIngress \/ KeepIngress
  \/ CreateMonitor \/ KeepMonitor \/ MissMonitor \/ RemoveMonitor
  \/ Report

Next ==
  \/ StartReconcile
  \/ Walk
  \/ TransientError
  \/ Restart
  \/ RollOut
  \/ EditSpec
  \/ ChangeLinked
  \/ DeleteService
  \/ DeleteIngress
  \/ DeleteMonitor
  \/ InstallMonitoring

Spec == Init /\ [][Next]_vars

\* The queue is served, a walk goes on or ends in some way, and Kubernetes rolls
\* out what it is given.
Starts == pc = "idle" /\ queued /\ pc' = "workload"
Continues == pc # "idle" /\ pc' \in Labels \ {pc}
RollsOut == workload # NoWorkload /\ ~up /\ up' = TRUE

FairSpec == Spec /\ WF_pc(Starts) /\ WF_pc(Continues) /\ WF_up(RollsOut)

-----------------------------------------------------------------------------
(* Properties. *)

Published(pod, name) ==
  {i \in DOMAIN pod.containers : \E p \in pod.containers[i].ports : p.name = name}
Has(container, variable) == variable \in container.env
Variables(container) == {v.name : v \in container.env}
Distinct(list, f(_)) == Cardinality({f(x) : x \in Range(list)}) = Len(list)

\* The workload's pod, and those of the upgrade jobs and of the networking
\* service, which the walk has ensured before it comes here.
Pods ==
  {workload.pod}
  \cup When(pc # "idle" /\ IsNetworkingServiceEnabled(mem.spec),
         {buildNetworkingDeployment(mem.spec)})
  \cup When(pc # "idle" /\ Validate(mem.spec, mem.linked) /\ mem.spec.database # "none",
         {newMigrationTemplate(mem.spec)})

\* The volumes of a pod are chosen by other conditions than the mounts of its
\* containers (buildIronicVolumesAndMounts).  All the same, every mount names a
\* volume of the pod, no volume comes twice, and no two mounts share a path;
\* otherwise the API server would refuse the pod for ever.
MountsBacked ==
  \A pod \in Pods :
    /\ Distinct(pod.volumes, LAMBDA v : v.name)
    /\ \A c \in Range(pod.containers) :
         /\ Distinct(c.mounts, LAMBDA m : m.path)
         /\ \A m \in Range(c.mounts) : \E v \in Range(pod.volumes) : v.name = m.name

\* What the environment makes a container look for in the file system.
Needed(c) ==
  {v.value : v \in {e \in c.env : e.from = "file"}}
  \cup When(Has(c, Value("IRONIC_EXPOSE_JSON_RPC", "true"))
            \/ Has(c, Value("IRONIC_NETWORKING_ENABLED", "true")), {"/auth/ironic-rpc"})
  \cup When(Has(c, Value("IRONIC_USE_MARIADB", "true")), {"/auth/mariadb"})
  \cup When(ApiPort \in c.ports /\ Has(c, Value("IRONIC_REVERSE_PROXY_SETUP", "true")),
         {"/certs/ironic"})
  \cup When(\E p \in c.ports : p.name = "image-svc-tls", {"/certs/vmedia"})

\* "HA requires it for inter-conductor RPC; networking service requires it for
\* authenticated JSON-RPC" (isAuthVolumeRequired), and the like: a container
\* that is told to use credentials or certificates has them mounted.
FilesMounted ==
  \A pod \in Pods : \A c \in Range(pod.containers) :
    Needed(c) \subseteq {m.path : m \in Range(c.mounts)}

\* "When TLS is used, httpd is responsible for authentication. When JSON RPC is
\* enabled, the password is required for it as well."  Exactly one container
\* publishes the API, it asks for a password, and so does one that exposes RPC.
ApiAuthenticated ==
  workload # NoWorkload =>
    /\ Cardinality(Published(workload.pod, "ironic-api")) = 1
    /\ \A c \in Range(workload.pod.containers) :
         ApiPort \in c.ports \/ Has(c, Value("IRONIC_EXPOSE_JSON_RPC", "true")) => Has(c, Htpasswd)

\* A DaemonSet runs on several hosts.  No pod of it claims an address for
\* itself or serves DHCP; keepalived always has an address and an interface to
\* serve, the address Ironic uses, and the network of the host to do it in;
\* the IP of the host is only used by pods in its network.
OneAddress ==
  LET Named(n) == {c \in Range(workload.pod.containers) : c.name = n}
  IN  /\ workload.kind = "DaemonSet" =>
           /\ Named("dnsmasq") = {} /\ Named("keepalived") = {}
           /\ \A c \in Named("ironic") : "ipAddress" \notin {v.value : v \in c.env}
      /\ \A k \in Named("keepalived"), i \in Named("ironic") :
           /\ workload.pod.hostNetwork
           /\ Has(i, Value("PROVISIONING_IP", "ipAddress"))
           /\ {"ipAddress", "interface"} =
                {v.value : v \in k.env}
                \cup {v.key : v \in {e \in k.env : e.name = "KEEPALIVED_VIRTUAL_IPS"}}
      /\ \A c \in Range(workload.pod.containers) :
           Has(c, Field("PROVISIONING_IP", "hostIP")) => workload.pod.hostNetwork

\* Nothing is left to do, and users are told so.
Served == pc = "idle" /\ ~queued /\ ready

\* A file that Ironic is given the path of is in the object mounted there, also
\* after its owner has taken keys away, except that of config maps nobody is told.
FilesResolve ==
  Served =>
    \A c \in Range(workload.pod.containers) : \A e \in c.env : e.from = "file" =>
      \E m \in Range(c.mounts), v \in Range(workload.pod.volumes) :
        /\ m.path = e.value /\ v.name = m.name
        /\ e.key \in linked[v.source] \/ (v.source.kind = "ConfigMap" /\ "linked" \in unseen)

\* Without TLS for virtual media the port the Service names for images with
\* TLS is published by nobody, and a DaemonSet has no Service for images.
PlainMedia == spec.tls /\ spec.plainMedia

\* Service, Ingress and ServiceMonitor are given names, not numbers: each port
\* of the Service is published by one container, as HTTPS if and only if that
\* container has TLS set up, and the backends of an Ingress that is asked for
\* and the endpoint of the ServiceMonitor are ports of the Service.
RoutesResolve ==
  Served =>
    /\ \A p \in service :
         /\ Cardinality(Published(workload.pod, p.name)) = 1 \/ (p.name = "image-svc-tls" /\ PlainMedia)
         /\ p.name = "ironic-api" => \A i \in Published(workload.pod, p.name) :
              p.port = "https" <=> "IRONIC_REVERSE_PROXY_SETUP" \in Variables(workload.pod.containers[i])
    /\ spec.ingress =>
         /\ ingress # {} \/ "ingress" \in unseen
         /\ \A b \in ingress : (\E p \in service : p.name = b.port) \/ (spec.ha /\ b.path # "/")
    /\ monitor => \E p \in service : p.name = "metrics"

\* "Ensure ServiceMonitor is created or removed based on PrometheusExporter
\* configuration": with everything ready there is one if and only if it is
\* asked for, and what it names can be reached, unless it was deleted unseen.
MonitorFollows ==
  Served =>
    /\ monitor => MonitorWanted(spec)
    /\ MonitorWanted(spec) => monitor \/ "monitor" \in unseen
    /\ monitor => \A c \in Range(workload.pod.containers) :
                    ~Has(c, Value("FLASK_RUN_HOST", "loopback"))

\* After the last edit the Ironic gets ready, unless a key it asks for is
\* missing, or was put back unseen, or monitoring is wanted and not installed.
Settles ==
  <>[](\/ ready
       \/ ~Validate(spec, linked)
       \/ "linked" \in unseen
       \/ MonitorWanted(spec) /\ ~crd)
=============================================================================
