-------------------------------- MODULE Wiring --------------------------------
(***************************************************************************)
(* What the operator's pods are made of: the environment, mounts, volumes  *)
(* and ports that pkg/ironic/containers.go, upgrades.go and                *)
(* networking_deployment.go derive from the spec and the linked objects,   *)
(* and the specs that validation.go lets through.                          *)
(*                                                                         *)
(* The builders are spread over many functions, each with conditions of    *)
(* its own; what one of them mounts, publishes or passes on, another one,  *)
(* a script in the container, the Service or the Ingress relies upon.      *)
(* Free text is left out: ports, addresses and keys stand for themselves.  *)
(* The ranges of DHCP are the subject of Dhcp, overrides of PodTemplate.   *)
(***************************************************************************)
EXTENDS Naturals, SequencesExt

-----------------------------------------------------------------------------
(* The spec and what it refers to. *)

Object(kind, name) == [kind |-> kind, name |-> name]
Nothing == Object("none", "")
Secret(name) == Object("Secret", name)
ConfigMap(name) == Object("ConfigMap", name)

\* The linked objects whose keys matter; users own them.  The certificate of
\* Ironic may well be its trusted CA, too.
Certificate == Secret("tls")
Linkable == {Certificate, Secret("ca"), ConfigMap("ca")}
Keys == {"ca.crt", "tls.crt"}

\* spec.prometheusExporter, with noMonitor for disableServiceMonitor and
\* loopback for a bindAddress of the loopback interface.
Exporters ==
  {e \in [set : BOOLEAN, enabled : BOOLEAN, noMonitor : BOOLEAN, loopback : BOOLEAN] :
     e.set \/ ~(e.enabled \/ e.noMonitor \/ e.loopback)}
NoExporter == [set |-> FALSE, enabled |-> FALSE, noMonitor |-> FALSE, loopback |-> FALSE]

Specs == [
  ha : BOOLEAN, database : {"none", "plain", "tls"}, service : BOOLEAN, downloader : BOOLEAN,
  tls : BOOLEAN, plainMedia : BOOLEAN, insecureRPC : {"unset", "no", "yes"},
  bmcCA : Linkable \cup {Nothing}, bmcCAName : {"", "ca"},
  trustedCA : Linkable \cup {Nothing}, key : Keys \cup {""}, trustedCAName : {"", "ca"},
  disableHostNetwork : BOOLEAN, bind : BOOLEAN, dhcp : BOOLEAN,
  addresses : SUBSET {"ipAddress", "interface", "macAddresses"},
  ipAddressManager : BOOLEAN, keepalived : {"unset", "disabled", "enabled"},
  externalIP : BOOLEAN, ingress : BOOLEAN, callbackURL : BOOLEAN, imageURL : BOOLEAN,
  exporter : Exporters]

\* The spec of a new object with nothing set.
Plain == [
  ha |-> FALSE, database |-> "none", service |-> FALSE, downloader |-> TRUE,
  tls |-> FALSE, plainMedia |-> FALSE, insecureRPC |-> "unset",
  bmcCA |-> Nothing, bmcCAName |-> "", trustedCA |-> Nothing, key |-> "", trustedCAName |-> "",
  disableHostNetwork |-> FALSE, bind |-> FALSE, dhcp |-> FALSE, addresses |-> {},
  ipAddressManager |-> FALSE, keepalived |-> "unset",
  externalIP |-> FALSE, ingress |-> FALSE, callbackURL |-> FALSE, imageURL |-> FALSE,
  exporter |-> NoExporter]

\* A key is part of a reference.
KeyOfReference(s) == s.trustedCA = Nothing => s.key = ""

\* The new fields come before the deprecated ones.
GetBMCCA(s) ==
  IF s.bmcCA # Nothing THEN s.bmcCA
  ELSE IF s.bmcCAName # "" THEN Secret(s.bmcCAName) ELSE Nothing

GetTrustedCA(s) ==
  IF s.trustedCA # Nothing THEN s.trustedCA
  ELSE IF s.trustedCAName # "" THEN ConfigMap(s.trustedCAName) ELSE Nothing

TLSSecret(s) == IF s.tls THEN Certificate ELSE Nothing
IsNetworkingServiceEnabled(s) == s.service
UsesKeepalived(s) == s.ipAddressManager \/ s.keepalived = "enabled"
MonitorWanted(s) == s.exporter.enabled /\ ~s.exporter.noMonitor

-----------------------------------------------------------------------------
(* Faulty variants of definitions below, one plausible slip each.  Nothing    *)
(* uses them; put in place of the definition they are named after, each one   *)
(* breaks a property.                                                         *)

\* The rules on keepalived without the one on high availability.
ValidKeepalivedAnywhere(s) ==
  /\ UsesKeepalived(s) => {"ipAddress", "interface"} \subseteq s.addresses \/ s.ha
  /\ ~(s.ipAddressManager /\ s.keepalived = "enabled")

-----------------------------------------------------------------------------
(* Validation. *)

validateCASettings(s) ==
  /\ s.bmcCA # Nothing /\ s.bmcCAName # "" => s.bmcCA = Secret(s.bmcCAName)
  /\ s.trustedCA # Nothing /\ s.trustedCAName # "" => s.trustedCA = ConfigMap(s.trustedCAName)

ValidDatabase(s, old) ==
  /\ s.ha => s.database # "none"
  /\ old.database # "none" => s.database \in {"none", old.database}

ValidAddresses(s) ==
  /\ s.disableHostNetwork => ~s.bind /\ ~s.dhcp /\ s.addresses = {} /\ s.keepalived = "unset"
  /\ s.externalIP => ~s.ingress /\ ~s.callbackURL /\ ~s.imageURL
  /\ ~s.ingress => (s.imageURL <=> s.callbackURL)
  /\ s.ha => "ipAddress" \notin s.addresses

ValidKeepalived(s) ==
  /\ UsesKeepalived(s) => ~s.ha /\ {"ipAddress", "interface"} \subseteq s.addresses
  /\ ~(s.ipAddressManager /\ s.keepalived = "enabled")

\* An exporter that is set but not enabled counts as one with a monitor here.
ValidExporter(s) ==
  /\ s.ha /\ s.exporter.set => s.exporter.noMonitor
  /\ MonitorWanted(s) => ~s.exporter.loopback

\* Dnsmasq needs to know which network it serves.
ValidateDHCP(s) == s.dhcp => ~s.ha /\ s.addresses # {}

\* The feature gate of high availability is open.
ValidateIronic(s, old) ==
  /\ ValidDatabase(s, old)
  /\ ValidAddresses(s)
  /\ ValidateDHCP(s)
  /\ ValidKeepalived(s)
  /\ ValidExporter(s)
  /\ ~s.ha => s.insecureRPC = "unset"
  /\ validateCASettings(s)

\* Resources.Validate: linked maps the linked objects to their keys.
Validate(s, linked) ==
  /\ ValidateIronic(s, s)
  /\ s.trustedCA # Nothing /\ s.key # "" => s.key \in linked[s.trustedCA]

-----------------------------------------------------------------------------
(* Environment variables: a value, a field of the pod, a key of a secret, or *)
(* the path of a file, as its directory and its name.                        *)

EnvVar(name, from, value, key) == [name |-> name, from |-> from, value |-> value, key |-> key]
Value(name, value) == EnvVar(name, "value", value, "")
Field(name, path) == EnvVar(name, "field", path, "")
SecretKey(name, secret, key) == EnvVar(name, "secret", secret, key)
File(name, directory, key) == EnvVar(name, "file", directory, key)
Htpasswd == SecretKey("IRONIC_HTPASSWD", "api", "htpasswd")

Text(b) == IF b THEN "true" ELSE "false"
When(condition, items) == IF condition THEN items ELSE {}

ProvisioningVar == [ipAddress |-> "PROVISIONING_IP", interface |-> "PROVISIONING_INTERFACE",
                    macAddresses |-> "PROVISIONING_MACS"]

buildCommonEnvVars(s) ==
  {Value("IRONIC_LISTEN_PORT", "api-port"), Value("IRONIC_ACCESS_PORT", "api-port"),
   Value("HTTP_PORT", "images-port"), Value("LISTEN_ALL_INTERFACES", Text(~s.bind))}
  \cup {Value(ProvisioningVar[a], a) : a \in s.addresses}
  \cup When(s.addresses = {},
         {Field("PROVISIONING_IP", IF s.disableHostNetwork THEN "podIP" ELSE "hostIP")})
  \cup When(s.tls,
         {Value("IRONIC_PRIVATE_PORT", "unix"), Value("IRONIC_REVERSE_PROXY_SETUP", "true")}
         \cup When(~s.plainMedia, {Value("VMEDIA_TLS_PORT", "images-tls-port")}))

databaseClientEnvVars == {Value("MARIADB_HOST", "host"), Value("MARIADB_DATABASE", "name")}

\* The first key in the order of names stands in when none is asked for.
FirstKey(keys) == IF "ca.crt" \in keys THEN "ca.crt" ELSE "tls.crt"

\* buildTrustedCAEnvVars that asks for the key in whatever the CA is by now
\* (a faulty variant).
buildTrustedCAEnvVarsFixed(s, linked) ==
  When(GetTrustedCA(s) # Nothing, {File("WEBSERVER_CACERT_FILE", "/certs/ca/trusted", "ca.crt")})

buildTrustedCAEnvVars(s, linked) ==
  LET ca == GetTrustedCA(s)
  IN  IF ca = Nothing \/ linked[ca] = {} THEN {}
      ELSE {File("WEBSERVER_CACERT_FILE", "/certs/ca/trusted",
                 IF s.key # "" THEN s.key ELSE FirstKey(linked[ca]))}

\* IRONIC_CACERT_FILE: the CA of the certificate, if it comes with one, or else
\* the trusted CA.
RPCCertificateEnvVars(s, linked) ==
  CASE ~s.tls -> {}
    [] s.tls /\ "ca.crt" \in linked[Certificate] ->
         {File("IRONIC_CACERT_FILE", "/certs/ironic", "ca.crt")}
    [] OTHER -> {[v EXCEPT !.name = "IRONIC_CACERT_FILE"] : v \in buildTrustedCAEnvVars(s, linked)}

\* Without an Ingress both of the users' URLs are needed; with one, each of
\* them comes before the host of the Ingress.
ExternalEnvVars(s) ==
  When(s.externalIP, {Value("IRONIC_EXTERNAL_IP", "externalIP")})
  \cup When(s.ingress \/ (s.callbackURL /\ s.imageURL),
         {Value("IRONIC_EXTERNAL_CALLBACK_URL", IF s.callbackURL THEN "user" ELSE "ingress"),
          Value("IRONIC_EXTERNAL_HTTP_URL", IF s.imageURL THEN "user" ELSE "ingress")})

\* buildIronicEnvVars that leaves authentication to httpd in any case (a faulty
\* variant).
buildIronicEnvVarsNoPassword(s, linked) ==
  buildCommonEnvVars(s) \cup {Value("IRONIC_EXPOSE_JSON_RPC", Text(s.ha))}

buildIronicEnvVars(s, linked) ==
  buildCommonEnvVars(s)
  \cup {Value("IRONIC_USE_MARIADB", Text(s.database # "none")),
        Value("IRONIC_EXPOSE_JSON_RPC", Text(s.ha)), Value("IRONIC_JSON_RPC_PORT", "rpc-port")}
  \cup When(s.database # "none",
         databaseClientEnvVars \cup {Value("IRONIC_SKIP_DBSYNC", "true")})
  \cup When(s.ha,
         {Value("IRONIC_DEPLOYMENT", "Conductor")}
         \cup When(s.insecureRPC = "yes", {Value("OS_JSON_RPC__INSECURE", "true")}))
  \cup When(TLSSecret(s) = Nothing \/ s.ha, {Htpasswd})
  \cup When(IsNetworkingServiceEnabled(s),
         {Value("IRONIC_NETWORKING_ENABLED", "true"), Value("IRONIC_FORCE_DHCP", "true"),
          Value("IRONIC_NETWORKING_JSON_RPC_HOST", "networking-service"),
          Value("IRONIC_NETWORKING_JSON_RPC_PORT", "networking-port"),
          Value("IRONIC_DEFAULT_NETWORK_INTERFACE", "ironic-networking")})
  \cup buildTrustedCAEnvVars(s, linked) \cup RPCCertificateEnvVars(s, linked)
  \cup ExternalEnvVars(s)
  \cup When(s.exporter.enabled, {Value("SEND_SENSOR_DATA", "true")})

buildHttpdEnvVars(s) == buildCommonEnvVars(s) \cup When(TLSSecret(s) # Nothing, {Htpasswd})

-----------------------------------------------------------------------------
(* Volumes and mounts, as the lists they are in a pod and its containers. *)

Volume(name, source) == [name |-> name, source |-> source]
Mount(name, path) == [name |-> name, path |-> path]
EmptyDir == Object("EmptyDir", "")

\* One volume, mounted or not at each of some paths.
Mounted(name, source, paths) ==
  [volumes |-> <<Volume(name, source)>>, mounts |-> [i \in DOMAIN paths |-> Mount(name, paths[i])]]
NoMounts == [volumes |-> <<>>, mounts |-> <<>>]
a ++ b == [volumes |-> a.volumes \o b.volumes, mounts |-> a.mounts \o b.mounts]

volumeForSecretOrConfigMap(name, object, path) ==
  IF object = Nothing THEN NoMounts ELSE Mounted(name, object, <<path>>)

databaseClientMounts(s) ==
  IF s.database = "none" THEN NoMounts
  ELSE Mounted("auth-mariadb", Secret("db"), <<"/auth/mariadb">>)
       ++ IF s.database = "tls"
            THEN Mounted("cert-mariadb", Secret("db-tls"), <<"/certs/ca/mariadb">>) ELSE NoMounts

\* isAuthVolumeRequired from before there was networking (a faulty variant).
isAuthVolumeRequiredHA(s) == s.ha

isAuthVolumeRequired(s) == s.ha \/ IsNetworkingServiceEnabled(s)

\* buildIronicVolumesAndMounts with a mount too many when TLS is off (a faulty
\* variant).
buildIronicVolumesAndMountsMedia(s) ==
  Mounted("ironic-shared", EmptyDir, <<"/shared">>)
  ++ volumeForSecretOrConfigMap("cert-ironic", TLSSecret(s), "/certs/ironic")
  ++ [volumes |-> <<>>,
      mounts |-> IF s.plainMedia THEN <<>> ELSE <<Mount("cert-ironic", "/certs/vmedia")>>]

buildIronicVolumesAndMounts(s) ==
  Mounted("ironic-shared", EmptyDir, <<"/shared">>)
  ++ Mounted("ironic-auth", Secret("api"),
             IF isAuthVolumeRequired(s) THEN <<"/auth/ironic-rpc">> ELSE <<>>)
  ++ (IF TLSSecret(s) = Nothing THEN NoMounts
      ELSE Mounted("cert-ironic", TLSSecret(s),
                   IF s.plainMedia THEN <<"/certs/ironic">>
                   ELSE <<"/certs/ironic", "/certs/vmedia">>))
  ++ volumeForSecretOrConfigMap("cert-bmc", GetBMCCA(s), "/certs/ca/bmc")
  ++ volumeForSecretOrConfigMap("trusted-ca", GetTrustedCA(s), "/certs/ca/trusted")
  ++ databaseClientMounts(s)

-----------------------------------------------------------------------------
(* Containers and pods. *)

Port(name, number) == [name |-> name, number |-> number]
ApiPort == Port("ironic-api", "api-port")
MetricsPort == Port("metrics", "metrics-port")

\* With TLS it is httpd that listens to the port of the API.
buildIronicHttpdPorts(s) ==
  [ironic |-> When(~s.tls, {ApiPort}),
   httpd |-> {Port("image-svc", "images-port")}
             \cup When(s.tls, {ApiPort})
             \cup When(s.tls /\ ~s.plainMedia, {Port("image-svc-tls", "images-tls-port")})]

Container(name, env, mounts, ports) ==
  [name |-> name, env |-> env, mounts |-> mounts, ports |-> ports]

newDnsmasqContainer(s) == Container("dnsmasq", buildCommonEnvVars(s), <<>>, {})

Address(s, a) == IF a \in s.addresses THEN a ELSE ""

\* One entry for the main address, or the variables of the deprecated mode.
newKeepalivedContainer(s) ==
  Container("keepalived",
    IF s.keepalived = "enabled"
      THEN {EnvVar("KEEPALIVED_VIRTUAL_IPS", "value", Address(s, "ipAddress"), Address(s, "interface"))}
      ELSE {Value("PROVISIONING_IP", Address(s, "ipAddress")),
            Value("PROVISIONING_INTERFACE", Address(s, "interface"))},
    <<>>, {})

newPrometheusExporterContainer(s, mount) ==
  Container("ironic-prometheus-exporter",
    {Value("FLASK_RUN_HOST", IF s.exporter.loopback THEN "loopback" ELSE "reachable"),
     Value("FLASK_RUN_PORT", "metrics-port")},
    <<mount>>, {MetricsPort})

\* The first of the mounts is the shared volume.
newIronicPodTemplate(s, linked) ==
  LET all == buildIronicVolumesAndMounts(s)
      shared == Head(all.mounts)
      ports == buildIronicHttpdPorts(s)
      If(condition, container) == IF condition THEN <<container>> ELSE <<>>
  IN  [containers |->
         If(s.downloader, Container("ramdisk-downloader", {}, <<shared>>, {}))
         \o <<Container("ironic", buildIronicEnvVars(s, linked), all.mounts, ports.ironic),
              Container("httpd", buildHttpdEnvVars(s), all.mounts, ports.httpd),
              Container("ramdisk-logs", {}, <<shared>>, {})>>
         \o If(s.dhcp /\ ~s.ha, newDnsmasqContainer(s))
         \o If(UsesKeepalived(s), newKeepalivedContainer(s))
         \o If(s.exporter.enabled, newPrometheusExporterContainer(s, shared)),
       volumes |-> all.volumes,
       hostNetwork |-> ~s.disableHostNetwork]

addDataVolumes(pod) ==
  LET more(c) == [c EXCEPT !.mounts = @ \o <<Mount("ironic-data", "/data"),
                                             Mount("ironic-data", "/conf"),
                                             Mount("ironic-tmp", "/tmp")>>]
  IN  [pod EXCEPT
         !.volumes = @ \o <<Volume("ironic-data", EmptyDir), Volume("ironic-tmp", EmptyDir)>>,
         !.containers = [i \in DOMAIN @ |-> more(@[i])]]

\* The pods of both upgrade jobs, which differ in the script.
newMigrationTemplate(s) ==
  LET all == databaseClientMounts(s) ++ Mounted("ironic-shared", EmptyDir, <<"/shared">>)
  IN  addDataVolumes(
        [containers |->
           <<Container("database-upgrade",
               databaseClientEnvVars \cup {Value("IRONIC_USE_MARIADB", "true"),
                                           Field("PROVISIONING_IP", "podIP")},
               all.mounts, {})>>,
         volumes |-> all.volumes,
         hostNetwork |-> FALSE])

buildNetworkingContainerEnv(s) ==
  {Value("IRONIC_NETWORKING_ENABLED", "true"), Field("IRONIC_NETWORKING_JSON_RPC_HOST", "podIP"),
   Value("IRONIC_NETWORKING_JSON_RPC_PORT", "networking-port"),
   File("IRONIC_NETWORKING_SWITCH_CONFIGS", "/etc/ironic/networking/configs", "switch-configs.conf"),
   Value("IRONIC_NETWORKING_ENABLED_SWITCH_DRIVERS", "generic-switch"), Htpasswd}
  \cup When("ipAddress" \in s.addresses, {Value("IRONIC_IP", "ipAddress")})
  \cup When(TLSSecret(s) # Nothing /\ s.insecureRPC = "yes", {Value("IRONIC_INSECURE", "true")})

buildNetworkingVolumesAndMounts(s) ==
  Mounted("ironic-auth", Secret("api"), <<"/auth/ironic-rpc">>)
  ++ Mounted("switch-config", Secret("switch-config"), <<"/etc/ironic/networking/configs">>)
  ++ Mounted("switch-credentials", Secret("switch-credentials"),
             <<"/etc/ironic/networking/credentials">>)
  ++ volumeForSecretOrConfigMap("cert-ironic", TLSSecret(s), "/certs/ironic")
  ++ volumeForSecretOrConfigMap("trusted-ca", GetTrustedCA(s), "/certs/ca/trusted")

buildNetworkingContainer(s, mounts) ==
  Container("ironic-networking", buildNetworkingContainerEnv(s), mounts,
            {Port("networking-rpc", "networking-port")})

buildNetworkingDeployment(s) ==
  LET all == buildNetworkingVolumesAndMounts(s)
  IN  addDataVolumes([containers |-> <<buildNetworkingContainer(s, all.mounts)>>,
                      volumes |-> all.volumes,
                      hostNetwork |-> FALSE])
=============================================================================
