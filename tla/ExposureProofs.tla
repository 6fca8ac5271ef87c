--------------------------- MODULE ExposureProofs ---------------------------
(* Proofs about Exposure, for any specs to start from and any events. *)
EXTENDS Exposure, FiniteSetTheorems, TLAPS

-----------------------------------------------------------------------------
(* The containers of the pod. *)

Ironic(s, l) ==
  Container("ironic", buildIronicEnvVars(s, l), buildIronicVolumesAndMounts(s).mounts,
            buildIronicHttpdPorts(s).ironic)
Httpd(s) ==
  Container("httpd", buildHttpdEnvVars(s), buildIronicVolumesAndMounts(s).mounts,
            buildIronicHttpdPorts(s).httpd)
Downloader(s) ==
  Container("ramdisk-downloader", {}, <<Head(buildIronicVolumesAndMounts(s).mounts)>>, {})
Logs(s) == Container("ramdisk-logs", {}, <<Head(buildIronicVolumesAndMounts(s).mounts)>>, {})
Exporter(s) == newPrometheusExporterContainer(s, Head(buildIronicVolumesAndMounts(s).mounts))

Optionally(condition, container) == IF condition THEN <<container>> ELSE <<>>

LEMMA OptionallyList ==
  ASSUME NEW S, NEW x \in S, NEW p
  PROVE  /\ Optionally(p, x) \in Seq(S)
         /\ \A i \in DOMAIN Optionally(p, x) : Optionally(p, x)[i] = x /\ p
         /\ Len(Optionally(p, x)) = IF p THEN 1 ELSE 0
<1>1. CASE p
  BY <1>1 DEF Optionally
<1>2. CASE ~p
  BY <1>2 DEF Optionally
<1> QED
  BY <1>1, <1>2

\* Two lists after each other.
LEMMA Appended ==
  ASSUME NEW S, NEW a \in Seq(S), NEW b \in Seq(S)
  PROVE  /\ a \o b \in Seq(S)
         /\ DOMAIN (a \o b) = 1 .. Len(a) + Len(b)
         /\ \A i \in DOMAIN (a \o b) :
              \/ i \in DOMAIN a /\ (a \o b)[i] = a[i]
              \/ i > Len(a) /\ i - Len(a) \in DOMAIN b /\ (a \o b)[i] = b[i - Len(a)]
         /\ \A i \in DOMAIN a : i \in DOMAIN (a \o b) /\ (a \o b)[i] = a[i]
         /\ Len(a \o b) = Len(a) + Len(b)
OBVIOUS

LEMMA ContainerFields ==
  ASSUME NEW name, NEW env, NEW mounts, NEW ports
  PROVE  LET c == Container(name, env, mounts, ports)
         IN  c.name = name /\ c.env = env /\ c.mounts = mounts /\ c.ports = ports
BY DEF Container

\* The template has one container of Ironic and one of httpd; every other one is
\* there under a condition of its own, and at most one exports metrics.
LEMMA PodContainers ==
  ASSUME NEW s, NEW l
  PROVE  LET cs == newIronicPodTemplate(s, l).containers
         IN  /\ \E k \in {1, 2} :
                  /\ {k, k + 1} \subseteq DOMAIN cs
                  /\ cs[k] = Ironic(s, l) /\ cs[k + 1] = Httpd(s)
                  /\ \A i \in DOMAIN cs \ {k, k + 1} :
                       \/ cs[i] = Downloader(s)
                       \/ cs[i] = Logs(s)
                       \/ cs[i] = newDnsmasqContainer(s) /\ s.dhcp /\ ~s.ha
                       \/ cs[i] = newKeepalivedContainer(s) /\ UsesKeepalived(s)
                       \/ cs[i] = Exporter(s) /\ s.exporter.enabled
             /\ s.exporter.enabled =>
                  \E e \in DOMAIN cs :
                    /\ cs[e] = Exporter(s)
                    /\ \A i \in DOMAIN cs \ {e} : cs[i].name # "ironic-prometheus-exporter"
<1> DEFINE first == Optionally(s.downloader, Downloader(s))
           middle == <<Ironic(s, l), Httpd(s), Logs(s)>>
           dnsmasq == Optionally(s.dhcp /\ ~s.ha, newDnsmasqContainer(s))
           keepalived == Optionally(UsesKeepalived(s), newKeepalivedContainer(s))
           exporter == Optionally(s.exporter.enabled, Exporter(s))
           cs == newIronicPodTemplate(s, l).containers
           S == {Downloader(s), Ironic(s, l), Httpd(s), Logs(s), newDnsmasqContainer(s),
                 newKeepalivedContainer(s), Exporter(s)}
           two == first \o middle
           three == two \o dnsmasq
           four == three \o keepalived
<1>1. cs = four \o exporter
  BY DEF newIronicPodTemplate, Optionally, Downloader, Ironic, Httpd, Logs, Exporter
<1>2. /\ Downloader(s) \in S /\ Ironic(s, l) \in S /\ Httpd(s) \in S /\ Logs(s) \in S
      /\ newDnsmasqContainer(s) \in S /\ newKeepalivedContainer(s) \in S /\ Exporter(s) \in S
  OBVIOUS
<1> HIDE DEF S
<1>3. /\ middle \in Seq(S) /\ Len(middle) = 3 /\ DOMAIN middle = 1 .. 3
      /\ middle[1] = Ironic(s, l) /\ middle[2] = Httpd(s) /\ middle[3] = Logs(s)
  BY <1>2
<1>a. first \in Seq(S) /\ Len(first) \in {0, 1} /\ \A i \in DOMAIN first : first[i] = Downloader(s)
  BY <1>2, OptionallyList
<1>b. dnsmasq \in Seq(S) /\ \A i \in DOMAIN dnsmasq : dnsmasq[i] = newDnsmasqContainer(s) /\ s.dhcp /\ ~s.ha
  BY <1>2, OptionallyList
<1>c. /\ keepalived \in Seq(S)
      /\ \A i \in DOMAIN keepalived : keepalived[i] = newKeepalivedContainer(s) /\ UsesKeepalived(s)
  BY <1>2, OptionallyList
<1>d. exporter \in Seq(S) /\ \A i \in DOMAIN exporter : exporter[i] = Exporter(s) /\ s.exporter.enabled
  BY <1>2, OptionallyList
<1> HIDE DEF first, middle, dnsmasq, keepalived, exporter, cs
<1>4. /\ two \in Seq(S) /\ Len(two) = Len(first) + 3 /\ DOMAIN two = 1 .. Len(first) + 3
      /\ \A i \in DOMAIN two : \/ i \in DOMAIN first /\ two[i] = first[i]
                               \/ i > Len(first) /\ i - Len(first) \in 1 .. 3 /\ two[i] = middle[i - Len(first)]
  <2>1. /\ two \in Seq(S) /\ DOMAIN two = 1 .. Len(first) + Len(middle) /\ Len(two) = Len(first) + Len(middle)
        /\ \A i \in DOMAIN two : \/ i \in DOMAIN first /\ two[i] = first[i]
                                 \/ i > Len(first) /\ i - Len(first) \in DOMAIN middle /\ two[i] = middle[i - Len(first)]
    BY <1>3, <1>a, Appended
  <2> QED
    BY <1>3, <2>1
<1> HIDE DEF two
<1>5. /\ three \in Seq(S)
      /\ \A i \in DOMAIN three : \/ i \in DOMAIN two /\ three[i] = two[i]
                                 \/ i > Len(two) /\ \E j \in DOMAIN dnsmasq : three[i] = dnsmasq[j]
      /\ \A i \in DOMAIN two : i \in DOMAIN three /\ three[i] = two[i]
  BY <1>b, <1>4, Appended
<1>6. Len(three) >= Len(two)
  BY <1>b, <1>4, Appended
<1> HIDE DEF three
<1>7. /\ four \in Seq(S)
      /\ \A i \in DOMAIN four : \/ i \in DOMAIN three /\ four[i] = three[i]
                                \/ \E j \in DOMAIN keepalived : four[i] = keepalived[j]
      /\ \A i \in DOMAIN three : i \in DOMAIN four /\ four[i] = three[i]
  BY <1>c, <1>5, Appended
<1> HIDE DEF four
<1>8. /\ \A i \in DOMAIN cs : \/ i \in DOMAIN four /\ cs[i] = four[i]
                              \/ \E j \in DOMAIN exporter : cs[i] = exporter[j]
      /\ \A i \in DOMAIN four : i \in DOMAIN cs /\ cs[i] = four[i]
  BY <1>1, <1>d, <1>7, Appended
<1> DEFINE k == Len(first) + 1
<1>9. k \in {1, 2} /\ DOMAIN first = 1 .. Len(first) /\ Len(first) \in Nat
  BY <1>a
<1>10. two[k] = Ironic(s, l) /\ two[k + 1] = Httpd(s) /\ {k, k + 1} \subseteq DOMAIN two
  <2>1. k \in DOMAIN two /\ k + 1 \in DOMAIN two /\ k \notin DOMAIN first /\ k + 1 \notin DOMAIN first
    BY <1>4, <1>9
  <2>2. k - Len(first) = 1 /\ (k + 1) - Len(first) = 2
    BY <1>9
  <2>3. two[k] = middle[1] /\ two[k + 1] = middle[2]
    BY <1>4, <2>1, <2>2
  <2> QED
    BY <1>3, <2>1, <2>3
<1>11. /\ {k, k + 1} \subseteq DOMAIN cs
       /\ cs[k] = Ironic(s, l) /\ cs[k + 1] = Httpd(s)
  BY <1>5, <1>7, <1>8, <1>10
<1>12. ASSUME NEW i \in DOMAIN cs \ {k, k + 1}
       PROVE  \/ cs[i] = Downloader(s)
              \/ cs[i] = Logs(s)
              \/ cs[i] = newDnsmasqContainer(s) /\ s.dhcp /\ ~s.ha
              \/ cs[i] = newKeepalivedContainer(s) /\ UsesKeepalived(s)
              \/ cs[i] = Exporter(s) /\ s.exporter.enabled
  <2>1. CASE i \in DOMAIN two /\ cs[i] = two[i]
    <3>1. two[i] = Downloader(s) \/ two[i] = Logs(s)
      <4>1. CASE i \in DOMAIN first /\ two[i] = first[i]
        BY <1>a, <4>1
      <4>2. CASE i > Len(first) /\ i - Len(first) \in 1 .. 3 /\ two[i] = middle[i - Len(first)]
        <5>1. i \in Nat /\ i # Len(first) + 1 /\ i # Len(first) + 2
          BY <1>4, <1>9, <2>1
        <5>2. i - Len(first) = 3
          BY <1>9, <4>2, <5>1
        <5> QED
          BY <1>3, <4>2, <5>2
      <4> QED
        BY <1>4, <2>1, <4>1, <4>2
    <3> QED
      BY <2>1, <3>1
  <2>2. CASE \E j \in DOMAIN dnsmasq : cs[i] = dnsmasq[j]
    BY <1>b, <2>2
  <2>3. CASE \E j \in DOMAIN keepalived : cs[i] = keepalived[j]
    BY <1>c, <2>3
  <2>4. CASE \E j \in DOMAIN exporter : cs[i] = exporter[j]
    BY <1>d, <2>4
  <2> QED
    BY <1>5, <1>7, <1>8, <2>1, <2>2, <2>3, <2>4
<1>13. ASSUME s.exporter.enabled
       PROVE  \E e \in DOMAIN cs :
                /\ cs[e] = Exporter(s)
                /\ \A i \in DOMAIN cs \ {e} : cs[i].name # "ironic-prometheus-exporter"
  <2>1. exporter = <<Exporter(s)>>
    BY <1>13 DEF exporter, Optionally
  <2>2. /\ DOMAIN cs = 1 .. Len(four) + 1 /\ cs[Len(four) + 1] = Exporter(s)
        /\ \A i \in 1 .. Len(four) : i \in DOMAIN four /\ cs[i] = four[i]
    BY <1>1, <1>2, <1>7, <2>1
  <2>3. ASSUME NEW i \in DOMAIN four
        PROVE  \/ four[i] \in {Downloader(s), Ironic(s, l), Httpd(s), Logs(s)}
               \/ four[i] = newDnsmasqContainer(s)
               \/ four[i] = newKeepalivedContainer(s)
    <3>1. \A j \in DOMAIN two : two[j] \in {Downloader(s), Ironic(s, l), Httpd(s), Logs(s)}
      BY <1>a, <1>3, <1>4
    <3> QED
      BY <1>b, <1>c, <1>5, <1>7, <3>1
  <2>4. \A i \in DOMAIN four : four[i].name # "ironic-prometheus-exporter"
    BY <2>3, ContainerFields
       DEF Downloader, Ironic, Httpd, Logs, newDnsmasqContainer, newKeepalivedContainer
  <2>5. Len(four) \in Nat
    BY <1>7
  <2> QED
    BY <2>2, <2>4, <2>5
<1> QED
  BY <1>9, <1>11, <1>12, <1>13 DEF cs

-----------------------------------------------------------------------------
(* Their environment and ports. *)

LEMMA Fields ==
  ASSUME NEW name, NEW x
  PROVE  /\ Value(name, x).name = name /\ Value(name, x).value = x
         /\ Value(name, x).from = "value"
         /\ Field(name, x).name = name /\ Field(name, x).value = x /\ Field(name, x).from = "field"
BY DEF Value, Field, EnvVar

LEMMA KeyFields ==
  ASSUME NEW name, NEW x, NEW y
  PROVE  /\ SecretKey(name, x, y).name = name /\ SecretKey(name, x, y).value = x
         /\ SecretKey(name, x, y).from = "secret"
         /\ File(name, x, y).name = name /\ File(name, x, y).value = x
         /\ File(name, x, y).from = "file" /\ File(name, x, y).key = y
BY DEF SecretKey, File, EnvVar

\* Variables that tell a container to serve or look for something.
Telling == {"IRONIC_EXPOSE_JSON_RPC", "IRONIC_NETWORKING_ENABLED", "IRONIC_USE_MARIADB",
            "FLASK_RUN_HOST"}

LEMMA CommonEnvironment ==
  ASSUME NEW s \in Specs, NEW v \in buildCommonEnvVars(s)
  PROVE  /\ v.value = "ipAddress" => "ipAddress" \in s.addresses
         /\ v.name \notin Telling
         /\ v.name = "IRONIC_REVERSE_PROXY_SETUP" => s.tls
         /\ v.from # "file"
         /\ v.from = "field" /\ v.value = "hostIP" => ~s.disableHostNetwork
<1>1. CASE v \in {Value("IRONIC_LISTEN_PORT", "api-port"), Value("IRONIC_ACCESS_PORT", "api-port"),
                  Value("HTTP_PORT", "images-port"), Value("LISTEN_ALL_INTERFACES", Text(~s.bind))}
  BY <1>1, Fields DEF Text, Telling
<1>2. CASE v \in {Value(ProvisioningVar[a], a) : a \in s.addresses}
  <2>1. PICK a \in s.addresses : v = Value(ProvisioningVar[a], a)
    BY <1>2
  <2>2. a \in {"ipAddress", "interface", "macAddresses"}
    BY DEF Specs
  <2>3. ProvisioningVar[a] \in {"PROVISIONING_IP", "PROVISIONING_INTERFACE", "PROVISIONING_MACS"}
    BY <2>2 DEF ProvisioningVar
  <2> QED
    BY <2>1, <2>3, Fields DEF Telling
<1>3. CASE /\ s.addresses = {}
           /\ v = Field("PROVISIONING_IP", IF s.disableHostNetwork THEN "podIP" ELSE "hostIP")
  BY <1>3, Fields DEF Telling
<1>4. CASE /\ s.tls
           /\ v \in {Value("IRONIC_PRIVATE_PORT", "unix"), Value("IRONIC_REVERSE_PROXY_SETUP", "true"),
                     Value("VMEDIA_TLS_PORT", "images-tls-port")}
  BY <1>4, Fields DEF Telling
<1> QED
  BY <1>1, <1>2, <1>3, <1>4 DEF buildCommonEnvVars, When

LEMMA TrustedCAEnvironment ==
  ASSUME NEW s, NEW l, NEW v \in buildTrustedCAEnvVars(s, l)
  PROVE  /\ GetTrustedCA(s) # Nothing
         /\ \E key : v = File("WEBSERVER_CACERT_FILE", "/certs/ca/trusted", key)
BY DEF buildTrustedCAEnvVars

LEMMA CertificateEnvironment ==
  ASSUME NEW s, NEW l, NEW v \in RPCCertificateEnvVars(s, l)
  PROVE  \E path \in {"/certs/ironic", "/certs/ca/trusted"} : \E key :
           /\ v = File("IRONIC_CACERT_FILE", path, key)
           /\ path = "/certs/ironic" => s.tls
           /\ path = "/certs/ca/trusted" => GetTrustedCA(s) # Nothing
<1>1. CASE ~s.tls
  BY <1>1 DEF RPCCertificateEnvVars
<1>2. CASE s.tls /\ "ca.crt" \in l[Certificate]
  BY <1>2 DEF RPCCertificateEnvVars
<1>3. CASE s.tls /\ ~("ca.crt" \in l[Certificate])
  <2>1. PICK w \in buildTrustedCAEnvVars(s, l) : v = [w EXCEPT !.name = "IRONIC_CACERT_FILE"]
    BY <1>3 DEF RPCCertificateEnvVars
  <2>2. PICK key : w = File("WEBSERVER_CACERT_FILE", "/certs/ca/trusted", key)
    BY TrustedCAEnvironment
  <2>3. v = File("IRONIC_CACERT_FILE", "/certs/ca/trusted", key)
    BY <2>1, <2>2 DEF File, EnvVar
  <2>4. GetTrustedCA(s) # Nothing
    BY <2>1, TrustedCAEnvironment
  <2> QED
    BY <2>3, <2>4
<1> QED
  BY <1>1, <1>2, <1>3

\* Ironic gets no address of its own unless the spec has one, exposes RPC only
\* when highly available, uses the host's address only in its network, and looks
\* for networking, a database and certificates only if they are configured.
LEMMA IronicEnvironment ==
  ASSUME NEW s \in Specs, NEW l, NEW v \in buildIronicEnvVars(s, l)
  PROVE  /\ v.value = "ipAddress" => "ipAddress" \in s.addresses
         /\ v.name = "IRONIC_EXPOSE_JSON_RPC" /\ v.value = "true" => s.ha
         /\ v.name = "IRONIC_NETWORKING_ENABLED" => s.service
         /\ v.name = "IRONIC_USE_MARIADB" /\ v.value = "true" => s.database # "none"
         /\ v.name = "IRONIC_REVERSE_PROXY_SETUP" => s.tls
         /\ v.name # "FLASK_RUN_HOST"
         /\ v.from = "field" /\ v.value = "hostIP" => ~s.disableHostNetwork
         /\ v.from = "file" => \/ (v.value = "/certs/ironic" /\ s.tls)
                               \/ (v.value = "/certs/ca/trusted" /\ GetTrustedCA(s) # Nothing)
         /\ v.from = "file" => v \in buildTrustedCAEnvVars(s, l) \cup RPCCertificateEnvVars(s, l)
<1>1. CASE v \in buildCommonEnvVars(s)
  BY <1>1, CommonEnvironment DEF Telling
<1>2. CASE v \in {Value("IRONIC_USE_MARIADB", Text(s.database # "none")),
                  Value("IRONIC_EXPOSE_JSON_RPC", Text(s.ha)),
                  Value("IRONIC_JSON_RPC_PORT", "rpc-port")}
  BY <1>2, Fields DEF Text
<1>3. CASE v \in databaseClientEnvVars \cup {Value("IRONIC_SKIP_DBSYNC", "true")}
  BY <1>3, Fields DEF databaseClientEnvVars
<1>4. CASE v \in {Value("IRONIC_DEPLOYMENT", "Conductor"), Value("OS_JSON_RPC__INSECURE", "true")}
  BY <1>4, Fields
<1>5. CASE v = Htpasswd
  BY <1>5, KeyFields DEF Htpasswd
<1>6. CASE /\ s.service
           /\ v \in {Value("IRONIC_NETWORKING_ENABLED", "true"), Value("IRONIC_FORCE_DHCP", "true"),
                     Value("IRONIC_NETWORKING_JSON_RPC_HOST", "networking-service"),
                     Value("IRONIC_NETWORKING_JSON_RPC_PORT", "networking-port"),
                     Value("IRONIC_DEFAULT_NETWORK_INTERFACE", "ironic-networking")}
  BY <1>6, Fields
<1>7. CASE v \in buildTrustedCAEnvVars(s, l) \cup RPCCertificateEnvVars(s, l)
  <2>1. CASE v \in buildTrustedCAEnvVars(s, l)
    <3>1. PICK key : v = File("WEBSERVER_CACERT_FILE", "/certs/ca/trusted", key)
      BY <2>1, TrustedCAEnvironment
    <3>2. GetTrustedCA(s) # Nothing
      BY <2>1, TrustedCAEnvironment
    <3> QED
      BY <2>1, <3>1, <3>2, KeyFields
  <2>2. CASE v \in RPCCertificateEnvVars(s, l)
    <3>1. PICK path \in {"/certs/ironic", "/certs/ca/trusted"} : \E key :
            /\ v = File("IRONIC_CACERT_FILE", path, key)
            /\ path = "/certs/ironic" => s.tls
            /\ path = "/certs/ca/trusted" => GetTrustedCA(s) # Nothing
      BY <2>2, CertificateEnvironment
    <3> QED
      BY <2>2, <3>1, KeyFields
  <2> QED
    BY <1>7, <2>1, <2>2
<1>8. CASE v \in ExternalEnvVars(s)
  BY <1>8, Fields DEF ExternalEnvVars, When
<1>9. CASE v = Value("SEND_SENSOR_DATA", "true")
  BY <1>9, Fields
<1> QED
  BY <1>1, <1>2, <1>3, <1>4, <1>5, <1>6, <1>7, <1>8, <1>9
     DEF buildIronicEnvVars, When, IsNetworkingServiceEnabled

\* Containers other than those of Ironic and httpd, which serve nobody's API.
LEMMA Helpers ==
  ASSUME NEW s \in Specs, ValidateIronic(s, s), NEW c,
         \/ c = Downloader(s)
         \/ c = Logs(s)
         \/ c = newDnsmasqContainer(s) /\ s.dhcp /\ ~s.ha
         \/ c = newKeepalivedContainer(s) /\ UsesKeepalived(s)
         \/ c = Exporter(s) /\ s.exporter.enabled
  PROVE  /\ c.name \notin {"ironic", "httpd"}
         /\ c.ports \subseteq {MetricsPort}
         /\ \A v \in c.env :
              /\ v.name \notin Telling \ {"FLASK_RUN_HOST"}
              /\ v.name = "FLASK_RUN_HOST" /\ v.value = "loopback" => s.exporter.loopback
              /\ v.from # "file"
              /\ v.from = "field" /\ v.value = "hostIP" => ~s.disableHostNetwork
         /\ c.name = "ironic-prometheus-exporter" <=> MetricsPort \in c.ports
         /\ c.mounts \in {<<>>, <<Head(buildIronicVolumesAndMounts(s).mounts)>>}
         /\ c.name = "dnsmasq" => ~s.ha
         /\ c.name = "keepalived" =>
              /\ UsesKeepalived(s)
              /\ c = newKeepalivedContainer(s)
<1>1. CASE c = Downloader(s)
  BY <1>1, ContainerFields DEF Downloader
<1>2. CASE c = Logs(s)
  BY <1>2, ContainerFields DEF Logs
<1>3. CASE c = newDnsmasqContainer(s) /\ s.dhcp /\ ~s.ha
  BY <1>3, ContainerFields, CommonEnvironment DEF newDnsmasqContainer, Telling
<1>4. CASE c = newKeepalivedContainer(s) /\ UsesKeepalived(s)
  <2> DEFINE entry == EnvVar("KEEPALIVED_VIRTUAL_IPS", "value", Address(s, "ipAddress"),
                             Address(s, "interface"))
  <2>1. entry.name = "KEEPALIVED_VIRTUAL_IPS" /\ entry.from = "value"
    BY DEF EnvVar
  <2>2. /\ c.name = "keepalived" /\ c.ports = {} /\ c.mounts = <<>>
        /\ c.env = IF s.keepalived = "enabled" THEN {entry}
                   ELSE {Value("PROVISIONING_IP", Address(s, "ipAddress")),
                         Value("PROVISIONING_INTERFACE", Address(s, "interface"))}
    BY <1>4, ContainerFields DEF newKeepalivedContainer
  <2> HIDE DEF entry
  <2> QED
    BY <1>4, <2>1, <2>2, Fields DEF Telling
<1>5. CASE c = Exporter(s) /\ s.exporter.enabled
  <2>1. /\ c.name = "ironic-prometheus-exporter" /\ c.ports = {MetricsPort}
        /\ c.mounts = <<Head(buildIronicVolumesAndMounts(s).mounts)>>
        /\ c.env = {Value("FLASK_RUN_HOST", IF s.exporter.loopback THEN "loopback" ELSE "reachable"),
                    Value("FLASK_RUN_PORT", "metrics-port")}
    BY <1>5, ContainerFields DEF Exporter, newPrometheusExporterContainer
  <2> QED
    BY <2>1, Fields DEF Telling
<1> QED
  BY <1>1, <1>2, <1>3, <1>4, <1>5

-----------------------------------------------------------------------------
(* A pod built from a spec that validation lets through. *)

LEMMA Serving ==
  ASSUME NEW s \in Specs, NEW l
  PROVE  /\ Ironic(s, l).name = "ironic" /\ Httpd(s).name = "httpd"
         /\ Ironic(s, l).env = buildIronicEnvVars(s, l) /\ Httpd(s).env = buildHttpdEnvVars(s)
         /\ Ironic(s, l).ports = IF s.tls THEN {} ELSE {ApiPort}
         /\ ApiPort \in Httpd(s).ports <=> s.tls
         /\ \A p \in Httpd(s).ports : /\ p.name = "ironic-api" <=> p = ApiPort
                                      /\ p.name = "image-svc-tls" => s.tls /\ ~s.plainMedia
<1>1. buildIronicHttpdPorts(s).ironic = IF s.tls THEN {} ELSE {ApiPort}
  BY DEF buildIronicHttpdPorts, When
<1>2. buildIronicHttpdPorts(s).httpd =
        {Port("image-svc", "images-port")} \cup (IF s.tls THEN {ApiPort} ELSE {})
          \cup IF s.tls /\ ~s.plainMedia THEN {Port("image-svc-tls", "images-tls-port")} ELSE {}
  BY DEF buildIronicHttpdPorts, When
<1>3. /\ ApiPort.name = "ironic-api"
      /\ Port("image-svc", "images-port").name = "image-svc"
      /\ Port("image-svc-tls", "images-tls-port").name = "image-svc-tls"
  BY DEF ApiPort, Port
<1> QED
  BY <1>1, <1>2, <1>3, ContainerFields DEF Ironic, Httpd

LEMMA HttpdEnvironment ==
  ASSUME NEW s \in Specs
  PROVE  /\ s.tls => Htpasswd \in buildHttpdEnvVars(s)
         /\ \A v \in buildHttpdEnvVars(s) :
              /\ v.name \notin Telling
              /\ v.from # "file"
              /\ v.from = "field" /\ v.value = "hostIP" => ~s.disableHostNetwork
<1>1. s.tls => TLSSecret(s) # Nothing
  BY DEF TLSSecret, Certificate, Secret, Nothing, Object
<1>2. Htpasswd.name = "IRONIC_HTPASSWD" /\ Htpasswd.from = "secret"
  BY KeyFields DEF Htpasswd
<1> QED
  BY <1>1, <1>2, CommonEnvironment DEF buildHttpdEnvVars, When, Telling

LEMMA IronicPassword ==
  ASSUME NEW s \in Specs, NEW l, ~s.tls \/ s.ha
  PROVE  Htpasswd \in buildIronicEnvVars(s, l)
<1>1. ~s.tls => TLSSecret(s) = Nothing
  BY DEF TLSSecret
<1> QED
  BY <1>1 DEF buildIronicEnvVars, When

LEMMA BuiltOneAddress ==
  ASSUME NEW s \in Specs, NEW l, ValidateIronic(s, s), workload = Workload(s, l)
  PROVE  OneAddress
<1> DEFINE cs == workload.pod.containers
<1>1. /\ workload.kind = IF s.ha THEN "DaemonSet" ELSE "Deployment"
      /\ workload.pod = newIronicPodTemplate(s, l)
  BY DEF Workload, Kind
<1>2. workload.pod.hostNetwork = ~s.disableHostNetwork
  BY <1>1 DEF newIronicPodTemplate
<1>3. \A c \in Range(cs) :
        \/ c = Ironic(s, l)
        \/ c = Httpd(s)
        \/ /\ c.name \notin {"ironic", "httpd"}
           /\ \A v \in c.env : v.from = "field" /\ v.value = "hostIP" => ~s.disableHostNetwork
           /\ c.name = "dnsmasq" => ~s.ha
           /\ c.name = "keepalived" => UsesKeepalived(s) /\ c = newKeepalivedContainer(s)
  BY <1>1, PodContainers, Helpers DEF Range
<1> HIDE DEF cs
<1>4. UsesKeepalived(s) =>
        ~s.ha /\ {"ipAddress", "interface"} \subseteq s.addresses /\ ~s.disableHostNetwork
  BY DEF ValidateIronic, ValidKeepalived, ValidAddresses
<1>5. s.ha => "ipAddress" \notin s.addresses
  BY DEF ValidateIronic, ValidAddresses
<1>6. \A v \in Ironic(s, l).env :
        /\ v.value = "ipAddress" => "ipAddress" \in s.addresses
        /\ v.from = "field" /\ v.value = "hostIP" => ~s.disableHostNetwork
  BY Serving, IronicEnvironment
<1>7. ASSUME NEW c \in Range(cs), c.name = "keepalived"
      PROVE  {"ipAddress", "interface"} =
               {v.value : v \in c.env}
               \cup {v.key : v \in {e \in c.env : e.name = "KEEPALIVED_VIRTUAL_IPS"}}
  <2>1. UsesKeepalived(s) /\ c = newKeepalivedContainer(s)
    BY <1>3, <1>7, Serving
  <2>2. Address(s, "ipAddress") = "ipAddress" /\ Address(s, "interface") = "interface"
    BY <1>4, <2>1, Zenon DEF Address
  <2> DEFINE entry == EnvVar("KEEPALIVED_VIRTUAL_IPS", "value", "ipAddress", "interface")
  <2>3. /\ entry.name = "KEEPALIVED_VIRTUAL_IPS"
        /\ entry.value = "ipAddress" /\ entry.key = "interface"
    BY DEF EnvVar
  <2>4. c.env = IF s.keepalived = "enabled" THEN {entry}
                ELSE {Value("PROVISIONING_IP", "ipAddress"), Value("PROVISIONING_INTERFACE", "interface")}
    <3>1. c.env = IF s.keepalived = "enabled"
                  THEN {EnvVar("KEEPALIVED_VIRTUAL_IPS", "value", Address(s, "ipAddress"),
                               Address(s, "interface"))}
                  ELSE {Value("PROVISIONING_IP", Address(s, "ipAddress")),
                        Value("PROVISIONING_INTERFACE", Address(s, "interface"))}
      BY <2>1, ContainerFields DEF newKeepalivedContainer
    <3> HIDE DEF entry
    <3>2. entry = EnvVar("KEEPALIVED_VIRTUAL_IPS", "value", Address(s, "ipAddress"),
                         Address(s, "interface"))
      BY <2>2 DEF entry
    <3> QED
      BY <2>2, <3>1, <3>2
  <2> HIDE DEF entry
  <2>5. CASE s.keepalived = "enabled"
    <3>1. c.env = {entry}
      BY <2>4, <2>5
    <3>2. {v.value : v \in c.env} = {"ipAddress"} /\ {e \in c.env : e.name = "KEEPALIVED_VIRTUAL_IPS"} = {entry}
      BY <2>3, <3>1
    <3>3. {v.key : v \in {entry}} = {"interface"}
      BY <2>3
    <3> QED
      BY <3>2, <3>3
  <2>6. CASE s.keepalived # "enabled"
    <3>1. {v.value : v \in c.env} = {"ipAddress", "interface"}
      BY <2>4, <2>6, Fields
    <3>2. {e \in c.env : e.name = "KEEPALIVED_VIRTUAL_IPS"} = {}
      BY <2>4, <2>6, Fields
    <3> QED
      BY <3>1, <3>2
  <2> QED
    BY <2>5, <2>6
<1>8. "ipAddress" \in s.addresses => Value("PROVISIONING_IP", "ipAddress") \in Ironic(s, l).env
  <2>1. ProvisioningVar["ipAddress"] = "PROVISIONING_IP"
    BY DEF ProvisioningVar
  <2>2. "ipAddress" \in s.addresses =>
          Value(ProvisioningVar["ipAddress"], "ipAddress") \in buildCommonEnvVars(s)
    BY DEF buildCommonEnvVars
  <2>3. buildCommonEnvVars(s) \subseteq Ironic(s, l).env
    <3>1. buildCommonEnvVars(s) \subseteq buildIronicEnvVars(s, l)
      BY DEF buildIronicEnvVars
    <3> QED
      BY <3>1, Serving
  <2> QED
    BY <2>1, <2>2, <2>3
<1>9. ASSUME NEW c \in Range(cs), Has(c, Field("PROVISIONING_IP", "hostIP"))
      PROVE  ~s.disableHostNetwork
  <2>1. /\ Field("PROVISIONING_IP", "hostIP") \in c.env
        /\ Field("PROVISIONING_IP", "hostIP").from = "field"
        /\ Field("PROVISIONING_IP", "hostIP").value = "hostIP"
    BY <1>9, Fields DEF Has
  <2> QED
    BY <1>3, <1>6, <2>1, Serving, HttpdEnvironment
<1> DEFINE Named(n) == {c \in Range(cs) : c.name = n}
<1>10. workload.kind = "DaemonSet" =>
         /\ Named("dnsmasq") = {} /\ Named("keepalived") = {}
         /\ \A c \in Named("ironic") : "ipAddress" \notin {v.value : v \in c.env}
  <2>1. workload.kind = "DaemonSet" => s.ha
    BY <1>1
  <2> QED
    BY <1>3, <1>4, <1>5, <1>6, <2>1, Serving
<1>11. \A k \in Named("keepalived"), i \in Named("ironic") :
         workload.pod.hostNetwork /\ Has(i, Value("PROVISIONING_IP", "ipAddress"))
  BY <1>2, <1>3, <1>4, <1>8, Serving DEF Has
<1> QED
  BY <1>2, <1>7, <1>9, <1>10, <1>11 DEF OneAddress, cs

LEMMA BuiltAuthenticated ==
  ASSUME NEW s \in Specs, NEW l, ValidateIronic(s, s), workload = Workload(s, l)
  PROVE  ApiAuthenticated
<1> DEFINE cs == workload.pod.containers
<1>1. cs = newIronicPodTemplate(s, l).containers
  BY DEF Workload
<1>2. PICK k \in {1, 2} :
        /\ {k, k + 1} \subseteq DOMAIN cs
        /\ cs[k] = Ironic(s, l) /\ cs[k + 1] = Httpd(s)
        /\ \A i \in DOMAIN cs \ {k, k + 1} :
             /\ cs[i].ports \subseteq {MetricsPort}
             /\ \A v \in cs[i].env : v.name # "IRONIC_EXPOSE_JSON_RPC"
  BY <1>1, PodContainers, Helpers DEF Telling
<1> HIDE DEF cs
<1>3. ApiPort.name = "ironic-api" /\ MetricsPort.name = "metrics"
  BY DEF ApiPort, MetricsPort, Port
<1>4. Published(workload.pod, "ironic-api") =
        {i \in DOMAIN cs : \E p \in cs[i].ports : p.name = "ironic-api"}
  BY DEF Published, cs
<1>5. Published(workload.pod, "ironic-api") = IF s.tls THEN {k + 1} ELSE {k}
  <2>1. \A i \in DOMAIN cs \ {k, k + 1} : \A p \in cs[i].ports : p.name # "ironic-api"
    BY <1>2, <1>3
  <2>2. (\E p \in cs[k].ports : p.name = "ironic-api") <=> ~s.tls
    BY <1>2, <1>3, Serving
  <2>3. (\E p \in cs[k + 1].ports : p.name = "ironic-api") <=> s.tls
    BY <1>2, <1>3, Serving
  <2> QED
    BY <1>2, <1>4, <2>1, <2>2, <2>3
<1>6. Cardinality(Published(workload.pod, "ironic-api")) = 1
  BY <1>5, FS_Singleton
<1>7. ASSUME NEW c \in Range(cs),
             ApiPort \in c.ports \/ Has(c, Value("IRONIC_EXPOSE_JSON_RPC", "true"))
      PROVE  Has(c, Htpasswd)
  <2>1. PICK i \in DOMAIN cs : c = cs[i]
    BY DEF Range
  <2> DEFINE rpc == Value("IRONIC_EXPOSE_JSON_RPC", "true")
  <2>2. rpc.name = "IRONIC_EXPOSE_JSON_RPC" /\ rpc.value = "true"
    BY Fields
  <2> HIDE DEF rpc
  <2>3. ApiPort \in c.ports \/ rpc \in c.env
    BY <1>7 DEF Has, rpc
  <2>4. CASE i = k
    <3>1. c.env = buildIronicEnvVars(s, l) /\ (ApiPort \in c.ports => ~s.tls)
      BY <1>2, <2>1, <2>4, Serving
    <3>2. ~s.tls \/ s.ha
      BY <2>2, <2>3, <3>1, IronicEnvironment
    <3> QED
      BY <3>1, <3>2, IronicPassword DEF Has
  <2>5. CASE i = k + 1
    <3>1. c.env = buildHttpdEnvVars(s) /\ (ApiPort \in c.ports => s.tls)
      BY <1>2, <2>1, <2>5, Serving
    <3> QED
      BY <2>2, <2>3, <3>1, HttpdEnvironment DEF Has, Telling
  <2>6. CASE i \notin {k, k + 1}
    <3>1. ApiPort # MetricsPort
      BY <1>3
    <3> QED
      BY <1>2, <2>1, <2>2, <2>3, <2>6, <3>1
  <2> QED
    BY <2>4, <2>5, <2>6
<1> QED
  BY <1>6, <1>7 DEF ApiAuthenticated, cs

-----------------------------------------------------------------------------
(* No workload yet. *)

LEMMA NothingBuilt ==
  ASSUME workload = NoWorkload
  PROVE  OneAddress /\ ApiAuthenticated
<1>1. workload.kind = "none" /\ Range(workload.pod.containers) = {}
  BY DEF NoWorkload, Range
<1> QED
  BY <1>1 DEF OneAddress, ApiAuthenticated

-----------------------------------------------------------------------------
(* The specs one edit away. *)

\* The fields that are there or not.
LEMMA ToggledTyped ==
  ASSUME NEW s \in Specs, NEW f \in Flags
  PROVE  [s EXCEPT ![f] = ~@] \in Specs
<1> DEFINE b == ~s[f]
<1>0. b \in BOOLEAN /\ [s EXCEPT ![f] = ~@] = [s EXCEPT ![f] = b]
  OBVIOUS
<1> HIDE DEF b
<1>1. [s EXCEPT !.ha = b] \in Specs
  BY <1>0, Zenon DEF Specs
<1>2. [s EXCEPT !.service = b] \in Specs
  BY <1>0, Zenon DEF Specs
<1>3. [s EXCEPT !.downloader = b] \in Specs
  BY <1>0, Zenon DEF Specs
<1>4. [s EXCEPT !.tls = b] \in Specs
  BY <1>0, Zenon DEF Specs
<1>5. [s EXCEPT !.plainMedia = b] \in Specs
  BY <1>0, Zenon DEF Specs
<1>6. [s EXCEPT !.disableHostNetwork = b] \in Specs
  BY <1>0, Zenon DEF Specs
<1>7. [s EXCEPT !.bind = b] \in Specs
  BY <1>0, Zenon DEF Specs
<1>8. [s EXCEPT !.dhcp = b] \in Specs
  BY <1>0, Zenon DEF Specs
<1>9. [s EXCEPT !.ipAddressManager = b] \in Specs
  BY <1>0, Zenon DEF Specs
<1>10. [s EXCEPT !.externalIP = b] \in Specs
  BY <1>0, Zenon DEF Specs
<1>11. [s EXCEPT !.ingress = b] \in Specs
  BY <1>0, Zenon DEF Specs
<1>12. [s EXCEPT !.callbackURL = b] \in Specs
  BY <1>0, Zenon DEF Specs
<1>13. [s EXCEPT !.imageURL = b] \in Specs
  BY <1>0, Zenon DEF Specs
<1> QED
  BY <1>0, <1>1, <1>2, <1>3, <1>4, <1>5, <1>6, <1>7, <1>8, <1>9, <1>10, <1>11, <1>12, <1>13 DEF Flags

LEMMA URLsTyped ==
  ASSUME NEW s \in Specs
  PROVE  [s EXCEPT !.callbackURL = ~@, !.imageURL = ~@] \in Specs
<1>0. \A b : (~b) \in BOOLEAN
  OBVIOUS
<1>1. ASSUME NEW x \in BOOLEAN, NEW y \in BOOLEAN
      PROVE  [s EXCEPT !.callbackURL = x, !.imageURL = y] \in Specs
  BY Zenon DEF Specs
<1>2. [s EXCEPT !.callbackURL = ~@, !.imageURL = ~@] =
        [s EXCEPT !.callbackURL = ~s.callbackURL, !.imageURL = ~s.imageURL]
  OBVIOUS
<1> QED
  BY <1>0, <1>1, <1>2, Zenon

LEMMA EditedTyped ==
  ASSUME NEW s \in Specs, NEW e \in Edited(s)
  PROVE  e \in Specs
<1> DEFINE Toggled == {[s EXCEPT ![f] = ~@] : f \in Flags}
           URLs == {[s EXCEPT !.callbackURL = ~@, !.imageURL = ~@]}
           Databases == {[s EXCEPT !.database = d] : d \in {"none", "plain", "tls"}}
           Insecure == {[s EXCEPT !.insecureRPC = i] : i \in {"unset", "no", "yes"}}
           BMC == {[s EXCEPT !.bmcCA = o] : o \in Linkable \cup {Nothing}}
           NoCA == {[s EXCEPT !.trustedCA = Nothing, !.key = ""]}
           Trusting(o) == {[s EXCEPT !.trustedCA = o, !.key = k] : k \in Keys \cup {""}}
           Trusted == UNION {Trusting(o) : o \in Linkable}
           BMCName == {[s EXCEPT !.bmcCAName = n] : n \in {"", "ca"}}
           CAName == {[s EXCEPT !.trustedCAName = n] : n \in {"", "ca"}}
           Addressed == {[s EXCEPT !.addresses = a] : a \in SUBSET {"ipAddress", "interface", "macAddresses"}}
           Keepalived == {[s EXCEPT !.keepalived = k] : k \in {"unset", "disabled", "enabled"}}
           Exporting == {[s EXCEPT !.exporter = x] : x \in Exporters}
<1>0. e \in Toggled \cup URLs \cup Databases \cup Insecure \cup BMC \cup NoCA \cup Trusted
            \cup BMCName \cup CAName \cup Addressed \cup Keepalived \cup Exporting
  BY Zenon DEF Edited
<1>1. Toggled \subseteq Specs
  BY ToggledTyped, Zenon
<1>u. URLs \subseteq Specs
  BY URLsTyped, Zenon
<1>2. Databases \subseteq Specs
  <2>1. [s EXCEPT !.database = "none"] \in Specs
    BY Zenon DEF Specs
  <2>2. [s EXCEPT !.database = "plain"] \in Specs
    BY Zenon DEF Specs
  <2>3. [s EXCEPT !.database = "tls"] \in Specs
    BY Zenon DEF Specs
  <2> QED
    BY <2>1, <2>2, <2>3
<1>3. Insecure \subseteq Specs
  <2>1. [s EXCEPT !.insecureRPC = "unset"] \in Specs
    BY Zenon DEF Specs
  <2>2. [s EXCEPT !.insecureRPC = "no"] \in Specs
    BY Zenon DEF Specs
  <2>3. [s EXCEPT !.insecureRPC = "yes"] \in Specs
    BY Zenon DEF Specs
  <2> QED
    BY <2>1, <2>2, <2>3
<1>4. Keepalived \subseteq Specs
  <2>1. [s EXCEPT !.keepalived = "unset"] \in Specs
    BY Zenon DEF Specs
  <2>2. [s EXCEPT !.keepalived = "disabled"] \in Specs
    BY Zenon DEF Specs
  <2>3. [s EXCEPT !.keepalived = "enabled"] \in Specs
    BY Zenon DEF Specs
  <2> QED
    BY <2>1, <2>2, <2>3
<1>5. BMCName \subseteq Specs
  <2>1. \A n \in {"", "ca"} : [s EXCEPT !.bmcCAName = n] \in Specs
    BY Zenon DEF Specs
  <2> QED
    BY <2>1, Zenon
<1>6. CAName \subseteq Specs
  <2>1. \A n \in {"", "ca"} : [s EXCEPT !.trustedCAName = n] \in Specs
    BY Zenon DEF Specs
  <2> QED
    BY <2>1, Zenon
<1>7. BMC \subseteq Specs
  <2>1. \A o \in Linkable \cup {Nothing} : [s EXCEPT !.bmcCA = o] \in Specs
    BY Zenon DEF Specs
  <2> QED
    BY <2>1
<1>8. Addressed \subseteq Specs
  <2>1. \A a \in SUBSET {"ipAddress", "interface", "macAddresses"} : [s EXCEPT !.addresses = a] \in Specs
    BY Zenon DEF Specs
  <2> QED
    BY <2>1
<1>9. Exporting \subseteq Specs
  <2>1. \A x \in Exporters : [s EXCEPT !.exporter = x] \in Specs
    BY Zenon DEF Specs
  <2> QED
    BY <2>1
<1>10. NoCA \subseteq Specs
  <2>1. [s EXCEPT !.trustedCA = Nothing, !.key = ""] \in Specs
    BY Zenon DEF Specs
  <2> QED
    BY <2>1, Zenon
<1>11. Trusted \subseteq Specs
  <2>1. ASSUME NEW o \in Linkable, NEW k \in Keys \cup {""}
        PROVE  [s EXCEPT !.trustedCA = o, !.key = k] \in Specs
    BY Zenon DEF Specs
  <2>2. ASSUME NEW o \in Linkable
        PROVE  Trusting(o) \subseteq Specs
    BY <2>1, Zenon
  <2> HIDE DEF Trusting
  <2> QED
    BY <2>2
<1> HIDE DEF Toggled, URLs, Databases, Insecure, BMC, NoCA, Trusted, BMCName, CAName, Addressed,
             Keepalived, Exporting
<1> QED
  BY <1>0, <1>1, <1>u, <1>2, <1>3, <1>4, <1>5, <1>6, <1>7, <1>8, <1>9, <1>10, <1>11

LEMMA PlainTyped == Plain \in Specs
<1>1. NoExporter \in Exporters
  BY DEF NoExporter, Exporters
<1>2. Nothing \in Linkable \cup {Nothing} /\ "" \in Keys \cup {""} /\ {} \in SUBSET {"ipAddress", "interface", "macAddresses"}
  OBVIOUS
<1> QED
  BY <1>1, <1>2, Zenon DEF Plain, Specs

-----------------------------------------------------------------------------
(* The invariant: whatever the workload is, it was built from a spec that      *)
(* validation had let through, though not always the present one.              *)

Built(w) == \E s \in Specs : \E l : ValidateIronic(s, s) /\ w = Workload(s, l)

ExposureInv ==
  /\ TypeOK
  /\ workload = NoWorkload \/ Built(workload)

\* What the walk reads and writes has its type.
LEMMA WrittenTyped ==
  ASSUME NEW s \in Specs
  PROVE  /\ ServicePorts(s) \subseteq
              [name : {"ironic-api", "image-svc", "image-svc-tls", "metrics"},
               port : {"http", "https", "images-port", "images-tls-port", "metrics-port"}]
         /\ IngressBackends(s) \subseteq
              [path : {"/", "/redfish", "/images"}, port : {"ironic-api", "image-svc", "image-svc-tls"}]
         /\ \A l : Workload(s, l).kind \in {"Deployment", "DaemonSet"}
<1>1. ServicePorts(s) \subseteq
        [name : {"ironic-api", "image-svc", "image-svc-tls", "metrics"},
         port : {"http", "https", "images-port", "images-tls-port", "metrics-port"}]
  BY DEF ServicePorts, ServicePort, ImagesPortName, When
<1>2. IngressBackends(s) \subseteq
        [path : {"/", "/redfish", "/images"}, port : {"ironic-api", "image-svc", "image-svc-tls"}]
  BY DEF IngressBackends, Backend, ImagesPortName
<1>3. \A l : Workload(s, l).kind \in {"Deployment", "DaemonSet"}
  BY DEF Workload, Kind
<1> QED
  BY <1>1, <1>2, <1>3

LEMMA InvInit == Init => ExposureInv
<1> SUFFICES ASSUME Init PROVE ExposureInv
  OBVIOUS
<1>1. spec \in Specs /\ mem = NoWalk /\ workload = NoWorkload
  BY ExposureBounds DEF Init
<1>2. linked \in [Linkable -> SUBSET Keys] /\ service = {} /\ ingress = {} /\ unseen = {}
  BY DEF Init
<1>3. {up, monitor, crd, watching, ready, queued} \subseteq BOOLEAN /\ memFresh \in BOOLEAN
  BY DEF Init
<1>4. pc \in Labels /\ outcome = "none" /\ events \in 0 .. MaxEvents
  BY ExposureBounds DEF Init, Labels
<1> QED
  BY <1>1, <1>2, <1>3, <1>4 DEF TypeOK, ExposureInv

LEMMA MemTyped ==
  ASSUME TypeOK
  PROVE  mem.spec \in Specs
<1>1. NoWalk.spec = Plain
  BY DEF NoWalk
<1> QED
  BY <1>1, PlainTyped DEF TypeOK

LEMMA InvStep == ExposureInv /\ [Next]_vars => ExposureInv'
<1> SUFFICES ASSUME ExposureInv, [Next]_vars PROVE ExposureInv'
  OBVIOUS
<1> USE ExposureBounds
<1>0. TypeOK
  BY DEF ExposureInv
<1>1. CASE StartReconcile
  BY <1>1, <1>0, MemTyped DEF StartReconcile, TypeOK, ExposureInv, Labels, objects, cluster
<1>2. CASE RefuseResources
  BY <1>2, <1>0, MemTyped DEF RefuseResources, Goto, TypeOK, ExposureInv, Labels, objects, cluster
<1>3. CASE CheckWorkload
  BY <1>3, <1>0, MemTyped DEF CheckWorkload, Goto, TypeOK, ExposureInv, Labels, objects, cluster
<1>4. CASE WriteService
  BY <1>4, <1>0, WrittenTyped, MemTyped DEF WriteService, Goto, TypeOK, ExposureInv, Labels, objects, cluster
<1>5. CASE KeepService
  BY <1>5, <1>0, MemTyped DEF KeepService, Goto, TypeOK, ExposureInv, Labels, objects, cluster
<1>6. CASE WriteIngress
  BY <1>6, <1>0, WrittenTyped, MemTyped DEF WriteIngress, Goto, TypeOK, ExposureInv, Labels, objects, cluster
<1>7. CASE KeepIngress
  BY <1>7, <1>0, MemTyped DEF KeepIngress, Goto, TypeOK, ExposureInv, Labels, objects, cluster
<1>8. CASE CreateMonitor
  BY <1>8, <1>0, MemTyped DEF CreateMonitor, Goto, TypeOK, ExposureInv, Labels, objects, cluster
<1>9. CASE KeepMonitor
  BY <1>9, <1>0, MemTyped DEF KeepMonitor, Goto, TypeOK, ExposureInv, Labels, objects, cluster
<1>10. CASE MissMonitor
  BY <1>10, <1>0, MemTyped DEF MissMonitor, EndReconcile, TypeOK, ExposureInv, Labels, objects, cluster
<1>11. CASE RemoveMonitor
  BY <1>11, <1>0, MemTyped DEF RemoveMonitor, Goto, TypeOK, ExposureInv, Labels, objects, cluster
<1>12. CASE Report
  BY <1>12, <1>0, MemTyped DEF Report, EndReconcile, TypeOK, ExposureInv, Labels, objects, cluster
<1>13. CASE TransientError
  BY <1>13, <1>0, MemTyped DEF TransientError, EndReconcile, Event, TypeOK, ExposureInv, Labels, objects, cluster
<1>14. CASE Restart
  BY <1>14, <1>0, MemTyped DEF Restart, Event, TypeOK, ExposureInv, Labels, objects, cluster
<1>15. CASE RollOut
  BY <1>15, <1>0, MemTyped DEF RollOut, TypeOK, ExposureInv, Labels, objects, cluster
<1>16. CASE ChangeLinked
  <2>1. events' \in 0 .. MaxEvents /\ UNCHANGED <<mem, pc, outcome, workload, up>>
    BY <1>0, <1>16 DEF ChangeLinked, Edit, Event, TypeOK
  <2>2. UNCHANGED <<spec, memFresh, service, ingress, monitor, crd, watching, ready>>
    BY <1>16 DEF ChangeLinked, cluster
  <2>3. PICK o \in Linkable, k \in Keys :
          /\ linked' = [linked EXCEPT ![o] = IF k \in @ THEN @ \ {k} ELSE @ \cup {k}]
          /\ queued' \in BOOLEAN
          /\ unseen' \subseteq unseen \cup {"linked"}
    <3>1. queued \in BOOLEAN
      BY <1>0 DEF TypeOK
    <3> QED
      BY <1>16, <3>1 DEF ChangeLinked
  <2>4. linked' \in [Linkable -> SUBSET Keys]
    BY <1>0, <2>3 DEF TypeOK
  <2>5. unseen' \subseteq {"linked", "ingress", "monitor"}
    BY <1>0, <2>3 DEF TypeOK
  <2>6. TypeOK'
    BY <1>0, <2>1, <2>2, <2>3, <2>4, <2>5 DEF TypeOK
  <2> QED
    BY <2>1, <2>6 DEF ExposureInv
<1>17. CASE DeleteService
  BY <1>17, <1>0, MemTyped DEF DeleteService, Edit, Event, TypeOK, ExposureInv, Labels, objects, cluster
<1>18. CASE DeleteIngress
  BY <1>18, <1>0, MemTyped DEF DeleteIngress, Edit, Event, TypeOK, ExposureInv, Labels, objects, cluster
<1>19. CASE DeleteMonitor
  <2>1. events' \in 0 .. MaxEvents /\ UNCHANGED <<mem, pc, outcome, workload, up>>
    BY <1>0, <1>19 DEF DeleteMonitor, Edit, Event, TypeOK
  <2>2. UNCHANGED <<spec, linked, memFresh, service, ingress, crd, watching, ready>> /\ monitor' = FALSE
    BY <1>19 DEF DeleteMonitor, cluster
  <2>3. queued' \in BOOLEAN /\ unseen' \subseteq {"linked", "ingress", "monitor"}
    BY <1>0, <1>19 DEF DeleteMonitor, TypeOK
  <2>4. TypeOK'
    BY <1>0, <2>1, <2>2, <2>3 DEF TypeOK
  <2> QED
    BY <2>1, <2>4 DEF ExposureInv
<1>20. CASE InstallMonitoring
  BY <1>20, <1>0, MemTyped DEF InstallMonitoring, Edit, Event, TypeOK, ExposureInv, Labels, objects, cluster
<1>21. CASE WriteWorkload
  <2>1. ValidateIronic(mem.spec, mem.spec) /\ mem.spec \in Specs
    BY <1>0, <1>21, MemTyped DEF WriteWorkload, Validate
  <2>2. workload' = Workload(mem.spec, mem.linked)
    BY <1>21 DEF WriteWorkload
  <2>3. Built(workload')
    BY <2>1, <2>2 DEF Built
  <2>4. workload'.kind \in {"Deployment", "DaemonSet"}
    BY <2>1, <2>2, WrittenTyped
  <2>5. TypeOK'
    BY <1>0, <1>21, <2>4 DEF WriteWorkload, Goto, TypeOK, Labels, cluster
  <2> QED
    BY <2>3, <2>5 DEF ExposureInv
<1>22. CASE EditSpec
  <2>1. spec' \in Specs
    BY <1>0, <1>22, EditedTyped DEF EditSpec, TypeOK
  <2>2. events' \in 0 .. MaxEvents /\ UNCHANGED <<mem, pc, outcome, workload, up>>
    BY <1>0, <1>22 DEF EditSpec, Edit, Event, TypeOK
  <2>3. /\ UNCHANGED <<linked, service, ingress, monitor, crd, watching, unseen>>
        /\ memFresh' = FALSE /\ ready' = FALSE /\ queued' = TRUE
    BY <1>22 DEF EditSpec, cluster
  <2>4. TypeOK'
    BY <1>0, <2>1, <2>2, <2>3 DEF TypeOK
  <2> QED
    BY <2>2, <2>4 DEF ExposureInv
<1>23. CASE UNCHANGED vars
  BY <1>23 DEF vars, TypeOK, ExposureInv, Labels, objects, cluster
<1> QED
  BY <1>1, <1>2, <1>3, <1>4, <1>5, <1>6, <1>7, <1>8, <1>9, <1>10, <1>11, <1>12, <1>13, <1>14, <1>15,
     <1>16, <1>17, <1>18, <1>19, <1>20, <1>21, <1>22, <1>23 DEF Next, Walk

LEMMA InvAlways == Spec => []ExposureInv
<1> QED
  BY InvInit, InvStep, PTL DEF Spec

-----------------------------------------------------------------------------
(* All is quiet.  What the last walk has found or left of the four objects is *)
(* what the spec asks for, unless something has woken the reconciler up, or   *)
(* has changed without anybody being told.                                    *)

\* The linked objects a pod is built from, and what has been read of them.
Used(s) == {TLSSecret(s), GetBMCCA(s), GetTrustedCA(s)}

Known(s, l) ==
  /\ KeyOfReference(s)
  /\ \A o \in Used(s) \cap Linkable :
       l[o] = linked[o] \/ (o.kind = "ConfigMap" /\ "linked" \in unseen)

IngressStands(s) == s.ingress => ingress = IngressBackends(s) \/ (ingress = {} /\ "ingress" \in unseen)

MonitorStands(s) ==
  IF MonitorWanted(s) THEN monitor \/ "monitor" \in unseen ELSE ~monitor

\* A walk that nothing has been queued behind works on what is there, and what it
\* has found ready and passed still stands.
WalkInv ==
  /\ pc \in {"idle", "workload"} => outcome = "none"
  /\ pc # "idle" => mem.spec \in Specs /\ mem.linked \in [Linkable -> SUBSET Keys]
  /\ pc # "idle" /\ ~queued => mem.spec = spec /\ memFresh /\ Known(mem.spec, mem.linked)

FoundInv ==
  pc # "idle" /\ ~queued /\ outcome = "ready" =>
    /\ Validate(mem.spec, mem.linked)
    /\ workload = Workload(mem.spec, mem.linked)
    /\ pc # "service" => service = ServicePorts(mem.spec)
    /\ pc \in {"monitor", "report"} => IngressStands(mem.spec)
    /\ pc = "report" => MonitorStands(mem.spec)

\* What such a walk leaves behind.
Stands(l) ==
  /\ Validate(spec, l)
  /\ Known(spec, l)
  /\ workload = Workload(spec, l)
  /\ service = ServicePorts(spec)
  /\ IngressStands(spec)
  /\ MonitorStands(spec)

ServedInv == Served => \E l \in [Linkable -> SUBSET Keys] : Stands(l)

QuietInv == KeyOfReference(spec) /\ WalkInv /\ FoundInv /\ ServedInv

\* A step that only makes the reconciler walk again.
LEMMA Woken ==
  ASSUME KeyOfReference(spec'), queued',
         pc' = "idle" => outcome' = "none",
         pc' # "idle" => UNCHANGED <<pc, mem, outcome>> /\ WalkInv
  PROVE  QuietInv'
  BY DEF QuietInv, WalkInv, FoundInv, ServedInv, Served

\* A step of a walk that goes on.
LEMMA Onward ==
  ASSUME QuietInv, pc # "idle", pc' \in {"service", "ingress", "monitor", "report"},
         UNCHANGED <<spec, linked, mem, memFresh, cluster, ready, unseen>>,
         ~queued' => ~queued /\ FoundInv'
  PROVE  QuietInv'
<1>1. WalkInv'
  BY DEF QuietInv, WalkInv, Known
<1>2. ServedInv' /\ FoundInv'
  BY DEF ServedInv, Served, FoundInv
<1> QED
  BY <1>1, <1>2 DEF QuietInv

\* What is there still stands when nothing it depends on has changed.
LEMMA StillStands ==
  ASSUME QuietInv, UNCHANGED <<spec, mem, memFresh, pc, outcome, workload, service, ready>>,
         ~queued' => /\ ~queued
                     /\ \A s \in Specs, l \in [Linkable -> SUBSET Keys] :
                          s = spec /\ Known(s, l) => Known(s, l)'
                     /\ \A s \in Specs : /\ IngressStands(s) => IngressStands(s)'
                                         /\ MonitorStands(s) => MonitorStands(s)',
         spec \in Specs
  PROVE  QuietInv'
<1>1. WalkInv'
  BY DEF QuietInv, WalkInv
<1>2. FoundInv'
  BY DEF QuietInv, FoundInv, WalkInv
<1>3. ServedInv'
  <2> SUFFICES ASSUME Served' PROVE \E l \in [Linkable -> SUBSET Keys] : Stands(l)'
    BY DEF ServedInv
  <2>1. Served /\ ~queued'
    BY DEF Served
  <2>2. PICK l \in [Linkable -> SUBSET Keys] : Stands(l)
    BY <2>1 DEF QuietInv, ServedInv
  <2>3. Known(spec, l)' /\ IngressStands(spec)' /\ MonitorStands(spec)'
    BY <2>1, <2>2 DEF Stands
  <2> QED
    BY <2>2, <2>3 DEF Stands
<1> QED
  BY <1>1, <1>2, <1>3 DEF QuietInv

LEMMA EditedKey ==
  ASSUME NEW s \in Specs, KeyOfReference(s), NEW e \in Edited(s)
  PROVE  KeyOfReference(e)
<1> DEFINE Toggled == {[s EXCEPT ![f] = ~@] : f \in Flags}
           URLs == {[s EXCEPT !.callbackURL = ~@, !.imageURL = ~@]}
           Databases == {[s EXCEPT !.database = d] : d \in {"none", "plain", "tls"}}
           Insecure == {[s EXCEPT !.insecureRPC = i] : i \in {"unset", "no", "yes"}}
           BMC == {[s EXCEPT !.bmcCA = o] : o \in Linkable \cup {Nothing}}
           NoCA == {[s EXCEPT !.trustedCA = Nothing, !.key = ""]}
           Trusting(o) == {[s EXCEPT !.trustedCA = o, !.key = k] : k \in Keys \cup {""}}
           Trusted == UNION {Trusting(o) : o \in Linkable}
           BMCName == {[s EXCEPT !.bmcCAName = n] : n \in {"", "ca"}}
           CAName == {[s EXCEPT !.trustedCAName = n] : n \in {"", "ca"}}
           Addressed == {[s EXCEPT !.addresses = a] : a \in SUBSET {"ipAddress", "interface", "macAddresses"}}
           Keepalived == {[s EXCEPT !.keepalived = k] : k \in {"unset", "disabled", "enabled"}}
           Exporting == {[s EXCEPT !.exporter = x] : x \in Exporters}
           Same(x) == x.trustedCA = s.trustedCA /\ x.key = s.key
<1>0. e \in Toggled \cup URLs \cup Databases \cup Insecure \cup BMC \cup NoCA \cup Trusted
            \cup BMCName \cup CAName \cup Addressed \cup Keepalived \cup Exporting
  BY Zenon DEF Edited
<1>s. "trustedCA" \in DOMAIN s /\ "key" \in DOMAIN s
  BY DEF Specs
<1>1. \A x \in Toggled : Same(x)
  <2>1. ASSUME NEW f \in Flags, NEW x, x = [s EXCEPT ![f] = ~@]
        PROVE  Same(x)
    <3>1. f # "trustedCA" /\ f # "key"
      BY DEF Flags
    <3> QED
      BY <1>s, <2>1, <3>1
  <2> HIDE DEF Same
  <2> QED
    BY <2>1
<1>u. \A x \in URLs : Same(x)
  BY <1>s
<1>2. \A x \in Databases : Same(x)
  BY <1>s
<1>i. \A x \in Insecure : Same(x)
  BY <1>s
<1>b. \A x \in BMC : Same(x)
  BY <1>s
<1>n. \A x \in BMCName : Same(x)
  BY <1>s
<1>c. \A x \in CAName : Same(x)
  BY <1>s
<1>3. \A x \in Addressed : Same(x)
  BY <1>s
<1>k. \A x \in Keepalived : Same(x)
  BY <1>s
<1>x. \A x \in Exporting : Same(x)
  BY <1>s
<1>4. \A x \in NoCA : x.key = ""
  BY DEF Specs
<1>5. \A x \in Trusted : x.trustedCA \in Linkable
  <2>1. ASSUME NEW o \in Linkable, NEW k, NEW x, x = [s EXCEPT !.trustedCA = o, !.key = k]
        PROVE  x.trustedCA \in Linkable
    BY <2>1 DEF Specs
  <2>2. ASSUME NEW o \in Linkable
        PROVE  \A x \in Trusting(o) : x.trustedCA \in Linkable
    BY <2>1, Zenon
  <2> HIDE DEF Trusting
  <2> QED
    BY <2>2
<1>6. Nothing \notin Linkable
  BY DEF Nothing, Linkable, Certificate, Secret, ConfigMap, Object
<1> HIDE DEF Toggled, URLs, Databases, Insecure, BMC, NoCA, Trusted, BMCName, CAName, Addressed,
             Keepalived, Exporting
<1> QED
  BY <1>0, <1>1, <1>u, <1>2, <1>i, <1>b, <1>n, <1>c, <1>3, <1>k, <1>x, <1>4, <1>5, <1>6 DEF KeyOfReference

LEMMA QuietInit == Init => QuietInv
  BY ExposureBounds DEF Init, QuietInv, WalkInv, FoundInv, ServedInv, Served

LEMMA QuietStep == TypeOK /\ QuietInv /\ [Next]_vars => QuietInv'
<1> SUFFICES ASSUME TypeOK, QuietInv, [Next]_vars PROVE QuietInv'
  OBVIOUS
<1> USE DEF objects, cluster
<1>0. spec \in Specs /\ WalkInv /\ KeyOfReference(spec)
  BY DEF TypeOK, QuietInv
<1>1. CASE StartReconcile
  <2>1. WalkInv'
    BY <1>0, <1>1 DEF StartReconcile, WalkInv, Known, TypeOK
  <2> QED
    BY <1>0, <1>1, <2>1 DEF StartReconcile, QuietInv, FoundInv, ServedInv, Served, WalkInv
<1>2. CASE RefuseResources
  BY <1>2, Onward DEF RefuseResources, Goto, FoundInv
<1>3. CASE WriteWorkload
  BY <1>3, Onward DEF WriteWorkload, Goto, FoundInv
<1>4. CASE CheckWorkload
  BY <1>4, Onward DEF CheckWorkload, Goto, FoundInv
<1>5. CASE WriteService
  BY <1>5, Onward DEF WriteService, Goto, FoundInv
<1>6. CASE KeepService
  BY <1>6, Onward DEF KeepService, Goto, FoundInv, QuietInv, IngressStands
<1>7. CASE WriteIngress
  BY <1>7, Onward DEF WriteIngress, Goto, FoundInv
<1>8. CASE KeepIngress
  BY <1>8, Onward DEF KeepIngress, Goto, FoundInv, QuietInv, IngressStands
<1>9. CASE CreateMonitor
  BY <1>9, Onward DEF CreateMonitor, Goto, FoundInv
<1>10. CASE KeepMonitor
  BY <1>10, Onward DEF KeepMonitor, Goto, FoundInv, QuietInv, IngressStands, MonitorStands
<1>11. CASE RemoveMonitor
  BY <1>11, Onward DEF RemoveMonitor, Goto, FoundInv, QuietInv, IngressStands, MonitorStands
<1>12. CASE MissMonitor \/ TransientError
  BY <1>0, <1>12, Woken DEF MissMonitor, TransientError, EndReconcile
<1>13. CASE Report
  <2>1. /\ pc' = "idle" /\ outcome' = "none" /\ UNCHANGED <<spec, linked, objects, unseen>>
        /\ ~queued' => /\ ~queued /\ memFresh /\ outcome # "updated"
                       /\ ready' = (outcome = "ready")
        /\ pc = "report"
    BY <1>13 DEF Report, EndReconcile, TypeOK
  <2>2. CASE queued'
    BY <1>0, <2>1, <2>2, Woken
  <2>3. CASE ~queued' /\ ~ready'
    BY <1>0, <2>1, <2>3 DEF QuietInv, WalkInv, FoundInv, ServedInv, Served
  <2>4. CASE ~queued' /\ ready'
    <3>1. PICK l \in [Linkable -> SUBSET Keys] : Stands(l)
      BY <2>1, <2>4 DEF QuietInv, WalkInv, FoundInv, Stands
    <3>2. Stands(l)'
      BY <2>1, <3>1 DEF Stands, Known, IngressStands, MonitorStands
    <3>3. ServedInv'
      BY <3>2 DEF ServedInv
    <3> QED
      BY <1>0, <2>1, <2>4, <3>3 DEF QuietInv, WalkInv, FoundInv
  <2> QED
    BY <2>1, <2>2, <2>3, <2>4
<1>14. CASE Restart
  BY <1>0, <1>14, Woken DEF Restart
<1>15. CASE RollOut
  BY <1>0, <1>15, Woken DEF RollOut, WalkInv
<1>16. CASE EditSpec
  BY <1>0, <1>16, EditedKey, Woken DEF EditSpec, Edit, WalkInv
<1>17. CASE ChangeLinked
  <2>1. UNCHANGED <<spec, mem, memFresh, pc, outcome, workload, service, ingress, monitor, ready>>
    BY <1>17 DEF ChangeLinked, Edit
  <2>2. PICK o \in Linkable :
          /\ \A i \in Linkable \ {o} : linked'[i] = linked[i]
          /\ IF o.kind = "Secret" THEN (queued' = (queued \/ o \in Used(spec))) /\ unseen' = unseen
             ELSE queued' = queued /\ unseen' = unseen \cup {"linked"}
    BY <1>17 DEF ChangeLinked, TypeOK, Used
  <2>3. o.kind \in {"Secret", "ConfigMap"}
    BY DEF Linkable, Certificate, Secret, ConfigMap, Object
  <2>4. ASSUME ~queued', NEW l, Known(spec, l)
        PROVE  Known(spec, l)'
    BY <2>1, <2>2, <2>3, <2>4 DEF Known, Used
  <2>5. \A s \in Specs : /\ IngressStands(s) => IngressStands(s)'
                         /\ MonitorStands(s) => MonitorStands(s)'
    BY <2>1, <2>2 DEF IngressStands, MonitorStands
  <2> QED
    BY <1>0, <2>1, <2>2, <2>4, <2>5, StillStands
<1>18. CASE DeleteService
  BY <1>0, <1>18, Woken DEF DeleteService, Edit, WalkInv
<1>19. CASE DeleteIngress
  BY <1>0, <1>19, StillStands DEF DeleteIngress, Edit, IngressStands, MonitorStands, Known
<1>20. CASE DeleteMonitor
  BY <1>0, <1>20, StillStands DEF DeleteMonitor, Edit, IngressStands, MonitorStands, Known
<1>21. CASE InstallMonitoring
  BY <1>0, <1>21, StillStands DEF InstallMonitoring, Edit, IngressStands, MonitorStands, Known
<1>22. CASE UNCHANGED vars
  BY <1>0, <1>22, StillStands DEF vars, IngressStands, MonitorStands, Known
<1> QED
  BY <1>1, <1>2, <1>3, <1>4, <1>5, <1>6, <1>7, <1>8, <1>9, <1>10, <1>11, <1>12, <1>13, <1>14, <1>15,
     <1>16, <1>17, <1>18, <1>19, <1>20, <1>21, <1>22 DEF Next, Walk

LEMMA QuietAlways == Spec => [](TypeOK /\ QuietInv)
<1>1. ExposureInv => TypeOK
  BY DEF ExposureInv
<1> QED
  BY <1>1, InvAlways, QuietInit, QuietStep, PTL DEF Spec

-----------------------------------------------------------------------------
(* Who publishes what, and what the Service, the Ingress and the              *)
(* ServiceMonitor ask for.                                                    *)

LEMMA BuiltPublished ==
  ASSUME NEW s \in Specs, NEW l, ValidateIronic(s, s)
  PROVE  LET pod == newIronicPodTemplate(s, l)
         IN  \E k \in {1, 2} :
               /\ pod.containers[k] = Ironic(s, l) /\ pod.containers[k + 1] = Httpd(s)
               /\ Published(pod, "ironic-api") = IF s.tls THEN {k + 1} ELSE {k}
               /\ Published(pod, "image-svc") = {k + 1}
               /\ s.tls /\ ~s.plainMedia => Published(pod, "image-svc-tls") = {k + 1}
               /\ s.exporter.enabled => \E e : Published(pod, "metrics") = {e}
<1> DEFINE pod == newIronicPodTemplate(s, l)
           cs == pod.containers
<1>1. PICK k \in {1, 2} :
        /\ {k, k + 1} \subseteq DOMAIN cs
        /\ cs[k] = Ironic(s, l) /\ cs[k + 1] = Httpd(s)
        /\ \A i \in DOMAIN cs \ {k, k + 1} :
             /\ cs[i].ports \subseteq {MetricsPort}
             /\ cs[i].name = "ironic-prometheus-exporter" <=> MetricsPort \in cs[i].ports
  BY PodContainers, Helpers
<1>2. s.exporter.enabled =>
        \E e \in DOMAIN cs : /\ cs[e].name = "ironic-prometheus-exporter"
                             /\ \A i \in DOMAIN cs \ {e} : cs[i].name # "ironic-prometheus-exporter"
  <2>1. Exporter(s).name = "ironic-prometheus-exporter"
    BY ContainerFields DEF Exporter, newPrometheusExporterContainer
  <2>2. s.exporter.enabled =>
          \E e \in DOMAIN cs : /\ cs[e] = Exporter(s)
                               /\ \A i \in DOMAIN cs \ {e} : cs[i].name # "ironic-prometheus-exporter"
    BY PodContainers
  <2> QED
    BY <2>1, <2>2
<1> HIDE DEF cs
<1>3. /\ ApiPort.name = "ironic-api" /\ MetricsPort.name = "metrics"
      /\ Port("image-svc", "images-port").name = "image-svc"
      /\ Port("image-svc-tls", "images-tls-port").name = "image-svc-tls"
  BY DEF ApiPort, MetricsPort, Port
<1>4. \A n : Published(pod, n) = {i \in DOMAIN cs : \E p \in cs[i].ports : p.name = n}
  BY DEF Published, cs
<1>5. cs[k].ports = (IF s.tls THEN {} ELSE {ApiPort}) /\ cs[k].name = "ironic"
  <2>1. Ironic(s, l).ports = (IF s.tls THEN {} ELSE {ApiPort}) /\ Ironic(s, l).name = "ironic"
    BY Serving
  <2> QED
    BY <1>1, <2>1
<1>6. /\ cs[k + 1].name = "httpd"
      /\ cs[k + 1].ports =
           {Port("image-svc", "images-port")} \cup (IF s.tls THEN {ApiPort} ELSE {})
             \cup IF s.tls /\ ~s.plainMedia THEN {Port("image-svc-tls", "images-tls-port")} ELSE {}
  BY <1>1, ContainerFields DEF Httpd, buildIronicHttpdPorts, When
<1>7. \A i \in DOMAIN cs \ {k, k + 1} : \A p \in cs[i].ports : p.name = "metrics"
  BY <1>1, <1>3
<1>8. Published(pod, "ironic-api") = IF s.tls THEN {k + 1} ELSE {k}
  BY <1>1, <1>3, <1>4, <1>5, <1>6, <1>7
<1>9. Published(pod, "image-svc") = {k + 1}
  BY <1>1, <1>3, <1>4, <1>5, <1>6, <1>7
<1>10. s.tls /\ ~s.plainMedia => Published(pod, "image-svc-tls") = {k + 1}
  BY <1>1, <1>3, <1>4, <1>5, <1>6, <1>7
<1>11. ASSUME s.exporter.enabled
       PROVE  \E e : Published(pod, "metrics") = {e}
  <2>1. PICK e \in DOMAIN cs :
          /\ cs[e].name = "ironic-prometheus-exporter"
          /\ \A i \in DOMAIN cs \ {e} : cs[i].name # "ironic-prometheus-exporter"
    BY <1>2, <1>11
  <2>2. e \notin {k, k + 1}
    BY <2>1, <1>5, <1>6
  <2>3. \A i \in DOMAIN cs : (\E p \in cs[i].ports : p.name = "metrics") <=> i = e
    BY <1>1, <1>3, <1>5, <1>6, <2>1, <2>2
  <2> QED
    BY <1>4, <2>1, <2>3
<1> QED
  BY <1>1, <1>8, <1>9, <1>10, <1>11 DEF cs

\* Nothing in the pod listens to the loopback interface alone when there is a
\* ServiceMonitor.
LEMMA BuiltReachable ==
  ASSUME NEW s \in Specs, NEW l, ValidateIronic(s, s), MonitorWanted(s),
         NEW c \in Range(newIronicPodTemplate(s, l).containers)
  PROVE  ~Has(c, Value("FLASK_RUN_HOST", "loopback"))
<1>1. ~s.exporter.loopback
  BY DEF ValidateIronic, ValidExporter
<1>2. \/ c = Ironic(s, l)
      \/ c = Httpd(s)
      \/ \A v \in c.env : v.name = "FLASK_RUN_HOST" /\ v.value = "loopback" => s.exporter.loopback
  BY PodContainers, Helpers DEF Range
<1>3. \A v \in c.env : ~(v.name = "FLASK_RUN_HOST" /\ v.value = "loopback")
  BY <1>1, <1>2, Serving, IronicEnvironment, HttpdEnvironment DEF Telling
<1> QED
  BY <1>3, Fields DEF Has

\* Ironic and httpd are told to set up TLS for the API as the spec says.
LEMMA BuiltScheme ==
  ASSUME NEW s \in Specs, NEW l
  PROVE  /\ ~s.tls => "IRONIC_REVERSE_PROXY_SETUP" \notin Variables(Ironic(s, l))
         /\ s.tls => "IRONIC_REVERSE_PROXY_SETUP" \in Variables(Httpd(s))
<1>1. ~s.tls => "IRONIC_REVERSE_PROXY_SETUP" \notin Variables(Ironic(s, l))
  BY Serving, IronicEnvironment DEF Variables
<1>2. s.tls => Value("IRONIC_REVERSE_PROXY_SETUP", "true") \in Httpd(s).env
  BY Serving DEF buildHttpdEnvVars, buildCommonEnvVars, When
<1> QED
  BY <1>1, <1>2, Fields DEF Variables

LEMMA PortsServed ==
  ASSUME NEW s \in Specs
  PROVE  /\ \A p \in ServicePorts(s) :
              \/ p.name = "ironic-api" /\ p.port = (IF s.tls THEN "https" ELSE "http")
              \/ p.name = "image-svc" /\ ~s.tls
              \/ p.name = "image-svc-tls" /\ s.tls
              \/ p.name = "metrics" /\ s.exporter.enabled
         /\ \E p \in ServicePorts(s) : p.name = "ironic-api"
         /\ ~s.ha => \E p \in ServicePorts(s) : p.name = ImagesPortName(s)
         /\ s.exporter.enabled => \E p \in ServicePorts(s) : p.name = "metrics"
<1>1. \A n, x : ServicePort(n, x).name = n /\ ServicePort(n, x).port = x
  BY DEF ServicePort
<1>2. ImagesPortName(s) = IF s.tls THEN "image-svc-tls" ELSE "image-svc"
  BY DEF ImagesPortName
<1>3. ASSUME NEW p \in ServicePorts(s)
      PROVE  \/ p = ServicePort("ironic-api", IF s.tls THEN "https" ELSE "http")
             \/ p = ServicePort(ImagesPortName(s), IF s.tls THEN "images-tls-port" ELSE "images-port")
             \/ p = ServicePort("metrics", "metrics-port") /\ s.exporter.enabled
  BY DEF ServicePorts, When
<1>4. /\ ServicePort("ironic-api", IF s.tls THEN "https" ELSE "http") \in ServicePorts(s)
      /\ ~s.ha => ServicePort(ImagesPortName(s), IF s.tls THEN "images-tls-port" ELSE "images-port")
                    \in ServicePorts(s)
      /\ s.exporter.enabled => ServicePort("metrics", "metrics-port") \in ServicePorts(s)
  BY DEF ServicePorts, When
<1> QED
  BY <1>1, <1>2, <1>3, <1>4

LEMMA StandsRouted ==
  ASSUME TypeOK, NEW l, Stands(l)
  PROVE  /\ \A p \in service :
              /\ Cardinality(Published(workload.pod, p.name)) = 1 \/ (p.name = "image-svc-tls" /\ PlainMedia)
              /\ p.name = "ironic-api" => \A i \in Published(workload.pod, p.name) :
                   p.port = "https" <=> "IRONIC_REVERSE_PROXY_SETUP" \in Variables(workload.pod.containers[i])
         /\ spec.ingress =>
              /\ ingress # {} \/ "ingress" \in unseen
              /\ \A b \in ingress : (\E p \in service : p.name = b.port) \/ (spec.ha /\ b.path # "/")
         /\ monitor => \E p \in service : p.name = "metrics"
<1>0. spec \in Specs /\ ValidateIronic(spec, spec)
  BY DEF TypeOK, Stands, Validate
<1>1. service = ServicePorts(spec) /\ workload.pod = newIronicPodTemplate(spec, l)
  BY DEF Stands, Workload
<1>2. PICK k \in {1, 2} :
        /\ workload.pod.containers[k] = Ironic(spec, l) /\ workload.pod.containers[k + 1] = Httpd(spec)
        /\ Published(workload.pod, "ironic-api") = IF spec.tls THEN {k + 1} ELSE {k}
        /\ Published(workload.pod, "image-svc") = {k + 1}
        /\ spec.tls /\ ~spec.plainMedia => Published(workload.pod, "image-svc-tls") = {k + 1}
        /\ spec.exporter.enabled => \E e : Published(workload.pod, "metrics") = {e}
  <2> DEFINE Shown(pod, k) ==
               /\ pod.containers[k] = Ironic(spec, l) /\ pod.containers[k + 1] = Httpd(spec)
               /\ Published(pod, "ironic-api") = IF spec.tls THEN {k + 1} ELSE {k}
               /\ Published(pod, "image-svc") = {k + 1}
               /\ spec.tls /\ ~spec.plainMedia => Published(pod, "image-svc-tls") = {k + 1}
               /\ spec.exporter.enabled => \E e : Published(pod, "metrics") = {e}
  <2>1. \E k \in {1, 2} : Shown(newIronicPodTemplate(spec, l), k)
    BY <1>0, BuiltPublished
  <2>2. \E k \in {1, 2} : Shown(workload.pod, k)
    BY <1>1, <2>1, Zenon
  <2> QED
    BY <2>2
<1>3. ASSUME NEW p \in service
      PROVE  \/ Cardinality(Published(workload.pod, p.name)) = 1
             \/ p.name = "image-svc-tls" /\ PlainMedia
  <2>1. (\E e : Published(workload.pod, p.name) = {e}) \/ (p.name = "image-svc-tls" /\ PlainMedia)
    BY <1>0, <1>1, <1>2, <1>3, PortsServed DEF PlainMedia
  <2> QED
    BY <2>1, FS_Singleton
<1>4. ASSUME NEW p \in service, p.name = "ironic-api", NEW i \in Published(workload.pod, p.name)
      PROVE  p.port = "https" <=> "IRONIC_REVERSE_PROXY_SETUP" \in Variables(workload.pod.containers[i])
  <2>1. p.port = IF spec.tls THEN "https" ELSE "http"
    BY <1>0, <1>1, <1>4, PortsServed
  <2>2. workload.pod.containers[i] = IF spec.tls THEN Httpd(spec) ELSE Ironic(spec, l)
    BY <1>2, <1>4
  <2> QED
    BY <1>0, <2>1, <2>2, BuiltScheme
<1>5. ASSUME spec.ingress
      PROVE  /\ ingress # {} \/ "ingress" \in unseen
             /\ \A b \in ingress : (\E p \in service : p.name = b.port) \/ (spec.ha /\ b.path # "/")
  <2>1. ingress = IngressBackends(spec) \/ (ingress = {} /\ "ingress" \in unseen)
    BY <1>5 DEF Stands, IngressStands
  <2>2. \A b \in IngressBackends(spec) :
          b.port = "ironic-api" \/ (b.path # "/" /\ b.port = ImagesPortName(spec))
    BY DEF IngressBackends, Backend
  <2>3. IngressBackends(spec) # {}
    BY DEF IngressBackends
  <2> QED
    BY <1>0, <1>1, <2>1, <2>2, <2>3, PortsServed
<1>6. monitor => \E p \in service : p.name = "metrics"
  BY <1>0, <1>1, PortsServed DEF Stands, MonitorStands, MonitorWanted
<1> QED
  BY <1>3, <1>4, <1>5, <1>6

-----------------------------------------------------------------------------
(* Volumes and mounts.  The lists are put together from parts that share no   *)
(* names and no paths.                                                        *)

Objects ==
  Linkable \cup {Nothing, EmptyDir, Secret("api"), Secret("db"), Secret("db-tls"),
                 Secret("switch-config"), Secret("switch-credentials")}
Names ==
  {"ironic-shared", "ironic-auth", "cert-ironic", "cert-bmc", "trusted-ca", "auth-mariadb",
   "cert-mariadb", "switch-config", "switch-credentials", "ironic-data", "ironic-tmp"}
Paths ==
  {"/shared", "/auth/ironic-rpc", "/certs/ironic", "/certs/vmedia", "/certs/ca/bmc",
   "/certs/ca/trusted", "/auth/mariadb", "/certs/ca/mariadb", "/etc/ironic/networking/configs",
   "/etc/ironic/networking/credentials", "/data", "/conf", "/tmp"}
VolumeLists == Seq([name : Names, source : Objects])
MountLists == Seq([name : Names, path : Paths])

\* A part whose volumes are named by some names, each once, and mounted at some
\* paths, each once.
Fits(w, names, paths) ==
  /\ w.volumes \in VolumeLists /\ w.mounts \in MountLists
  /\ \A i \in DOMAIN w.volumes : w.volumes[i].name \in names
  /\ \A i, j \in DOMAIN w.volumes : w.volumes[i].name = w.volumes[j].name => i = j
  /\ \A i \in DOMAIN w.mounts : w.mounts[i].path \in paths
  /\ \A i, j \in DOMAIN w.mounts : w.mounts[i].path = w.mounts[j].path => i = j
  /\ \A m \in Range(w.mounts) : \E v \in Range(w.volumes) : v.name = m.name

\* What is found at a path.
Shows(w, path, source) ==
  \E m \in Range(w.mounts), v \in Range(w.volumes) :
    m.path = path /\ v.name = m.name /\ v.source = source

LEMMA RangeAppended ==
  ASSUME NEW S, NEW a \in Seq(S), NEW b \in Seq(S)
  PROVE  Range(a \o b) = Range(a) \cup Range(b)
<1>1. \A x \in Range(a \o b) : x \in Range(a) \/ x \in Range(b)
  BY Appended DEF Range
<1>2. Range(a) \subseteq Range(a \o b)
  BY Appended DEF Range
<1>3. ASSUME NEW i \in DOMAIN b
      PROVE  b[i] \in Range(a \o b)
  <2>1. Len(a) + i \in DOMAIN (a \o b) /\ (a \o b)[Len(a) + i] = b[i]
    OBVIOUS
  <2> QED
    BY <2>1 DEF Range
<1> QED
  BY <1>1, <1>2, <1>3 DEF Range

\* One list made of two.
Parts(c, a, b) ==
  \A i \in DOMAIN c :
    \/ i \in DOMAIN a /\ c[i] = a[i]
    \/ i > Len(a) /\ i - Len(a) \in DOMAIN b /\ c[i] = b[i - Len(a)]

LEMMA AppendedParts ==
  ASSUME NEW S, NEW a \in Seq(S), NEW b \in Seq(S)
  PROVE  a \o b \in Seq(S) /\ Parts(a \o b, a, b)
BY Appended DEF Parts

LEMMA FitsTogether ==
  ASSUME NEW a, NEW b, NEW N, NEW P, NEW M, NEW Q,
         Fits(a, N, P), Fits(b, M, Q), N \cap M = {}, P \cap Q = {}
  PROVE  /\ Fits(a ++ b, N \cup M, P \cup Q)
         /\ \A path, source : Shows(a, path, source) \/ Shows(b, path, source) => Shows(a ++ b, path, source)
<1> DEFINE w == a ++ b
           Volumes == [name : Names, source : Objects]
           Mounts == [name : Names, path : Paths]
<1>0. w.volumes = a.volumes \o b.volumes /\ w.mounts = a.mounts \o b.mounts
  BY DEF ++
<1>t. /\ a.volumes \in Seq(Volumes) /\ b.volumes \in Seq(Volumes)
      /\ a.mounts \in Seq(Mounts) /\ b.mounts \in Seq(Mounts)
  BY DEF Fits, VolumeLists, MountLists
<1>a. w.volumes = a.volumes \o b.volumes /\ a.volumes \in Seq(Volumes) /\ b.volumes \in Seq(Volumes)
  BY <1>0, <1>t
<1>b. w.mounts = a.mounts \o b.mounts /\ a.mounts \in Seq(Mounts) /\ b.mounts \in Seq(Mounts)
  BY <1>0, <1>t
<1> HIDE DEF w, Volumes, Mounts
<1>1. /\ w.volumes \in Seq(Volumes) /\ w.mounts \in Seq(Mounts)
      /\ Range(w.volumes) = Range(a.volumes) \cup Range(b.volumes)
      /\ Range(w.mounts) = Range(a.mounts) \cup Range(b.mounts)
  BY <1>0, <1>t, Appended, RangeAppended
<1>2. Parts(w.volumes, a.volumes, b.volumes)
  BY <1>a, AppendedParts, Zenon
<1>3. Parts(w.mounts, a.mounts, b.mounts)
  BY <1>b, AppendedParts, Zenon
<1>n. /\ DOMAIN w.volumes \subseteq Nat /\ Len(a.volumes) \in Nat
      /\ DOMAIN w.mounts \subseteq Nat /\ Len(a.mounts) \in Nat
  BY <1>1, <1>t
<1>4. /\ \A i \in DOMAIN w.volumes : w.volumes[i].name \in N \cup M
      /\ \A i, j \in DOMAIN w.volumes : w.volumes[i].name = w.volumes[j].name => i = j
  BY <1>2, <1>n DEF Fits, Parts
<1>5. /\ \A i \in DOMAIN w.mounts : w.mounts[i].path \in P \cup Q
      /\ \A i, j \in DOMAIN w.mounts : w.mounts[i].path = w.mounts[j].path => i = j
  BY <1>3, <1>n DEF Fits, Parts
<1>6. \A m \in Range(w.mounts) : \E v \in Range(w.volumes) : v.name = m.name
  BY <1>1 DEF Fits
<1>7. \A path, source : Shows(a, path, source) \/ Shows(b, path, source) => Shows(w, path, source)
  BY <1>1 DEF Shows
<1> QED
  BY <1>1, <1>4, <1>5, <1>6, <1>7 DEF Fits, w, VolumeLists, MountLists, Volumes, Mounts

LEMMA NoneFit == Fits(NoMounts, {}, {})
BY DEF Fits, NoMounts, VolumeLists, MountLists, Range

\* A larger set of names or paths does as well.
LEMMA FitsWider ==
  ASSUME NEW w, NEW N, NEW P, Fits(w, N, P), NEW M, NEW Q, N \subseteq M, P \subseteq Q
  PROVE  Fits(w, M, Q)
BY DEF Fits

LEMMA MountedFits ==
  ASSUME NEW name \in Names, NEW source \in Objects, NEW paths \in Seq(Paths),
         \A i, j \in DOMAIN paths : paths[i] = paths[j] => i = j
  PROVE  /\ Fits(Mounted(name, source, paths), {name}, Range(paths))
         /\ \A p \in Range(paths) : Shows(Mounted(name, source, paths), p, source)
<1> DEFINE w == Mounted(name, source, paths)
           v == Volume(name, source)
<1>1. w.volumes = <<v>> /\ w.mounts = [i \in DOMAIN paths |-> Mount(name, paths[i])]
  BY DEF Mounted
<1>2. v \in [name : Names, source : Objects] /\ v.name = name /\ v.source = source
  BY DEF Volume
<1>3. \A p \in Paths : /\ Mount(name, p) \in [name : Names, path : Paths]
                        /\ Mount(name, p).name = name /\ Mount(name, p).path = p
  BY DEF Mount
<1> HIDE DEF w, v
<1>4. w.volumes \in VolumeLists /\ DOMAIN w.volumes = {1} /\ w.volumes[1] = v /\ Range(w.volumes) = {v}
  BY <1>1, <1>2 DEF VolumeLists, Range
<1>p. /\ paths \in [1 .. Len(paths) -> Paths] /\ Len(paths) \in Nat /\ DOMAIN paths = 1 .. Len(paths)
  OBVIOUS
<1>5. DOMAIN w.mounts = DOMAIN paths /\ \A i \in DOMAIN paths : w.mounts[i] = Mount(name, paths[i])
  BY <1>1
<1>6. \A i \in DOMAIN paths : w.mounts[i].name = name /\ w.mounts[i].path = paths[i]
  BY <1>3, <1>5, <1>p
<1>s. w.mounts \in MountLists
  <2> DEFINE R == [name : Names, path : Paths]
  <2>1. \A i \in 1 .. Len(paths) : Mount(name, paths[i]) \in R
    BY <1>3, <1>p
  <2>2. w.mounts = [i \in 1 .. Len(paths) |-> Mount(name, paths[i])]
    BY <1>1, <1>p
  <2> HIDE DEF R
  <2>3. w.mounts \in Seq(R)
    BY <1>p, <2>1, <2>2
  <2> QED
    BY <2>3 DEF MountLists, R
<1>7. /\ \A i \in DOMAIN w.mounts : w.mounts[i].path \in Range(paths)
      /\ \A i, j \in DOMAIN w.mounts : w.mounts[i].path = w.mounts[j].path => i = j
      /\ \A m \in Range(w.mounts) : m.name = name
  BY <1>5, <1>6 DEF Range
<1>8. \A p \in Range(paths) : \E m \in Range(w.mounts) : m.path = p
  BY <1>5, <1>6 DEF Range
<1>9. Fits(w, {name}, Range(paths))
  BY <1>2, <1>4, <1>s, <1>7 DEF Fits
<1>10. \A p \in Range(paths) : Shows(w, p, source)
  BY <1>2, <1>4, <1>7, <1>8 DEF Shows
<1> QED
  BY <1>9, <1>10 DEF w

LEMMA SingleFits ==
  ASSUME NEW name \in Names, NEW source \in Objects, NEW path \in Paths
  PROVE  /\ Fits(Mounted(name, source, <<path>>), {name}, {path})
         /\ Shows(Mounted(name, source, <<path>>), path, source)
<1> DEFINE paths == <<path>>
<1>1. paths \in Seq(Paths) /\ DOMAIN paths = {1} /\ paths[1] = path
  OBVIOUS
<1> HIDE DEF paths
<1>2. Range(paths) = {path} /\ \A i, j \in DOMAIN paths : paths[i] = paths[j] => i = j
  BY <1>1 DEF Range
<1>3. /\ Fits(Mounted(name, source, paths), {name}, {path})
      /\ Shows(Mounted(name, source, paths), path, source)
  BY <1>1, <1>2, MountedFits
<1> QED
  BY <1>3 DEF paths

LEMMA OptionalFits ==
  ASSUME NEW name \in Names, NEW source \in Objects, NEW path \in Paths
  PROVE  /\ Fits(volumeForSecretOrConfigMap(name, source, path), {name}, {path})
         /\ source # Nothing => Shows(volumeForSecretOrConfigMap(name, source, path), path, source)
<1>1. CASE source = Nothing
  BY <1>1, NoneFit, FitsWider DEF volumeForSecretOrConfigMap
<1>2. CASE source # Nothing
  BY <1>2, SingleFits DEF volumeForSecretOrConfigMap
<1> QED
  BY <1>1, <1>2

LEMMA DatabaseFits ==
  ASSUME NEW s
  PROVE  /\ Fits(databaseClientMounts(s), {"auth-mariadb", "cert-mariadb"}, {"/auth/mariadb", "/certs/ca/mariadb"})
         /\ s.database # "none" => Shows(databaseClientMounts(s), "/auth/mariadb", Secret("db"))
<1> DEFINE a == Mounted("auth-mariadb", Secret("db"), <<"/auth/mariadb">>)
           b == IF s.database = "tls"
                  THEN Mounted("cert-mariadb", Secret("db-tls"), <<"/certs/ca/mariadb">>) ELSE NoMounts
<1>o. Secret("db") \in Objects /\ Secret("db-tls") \in Objects
  BY DEF Objects
<1>p. /\ {"auth-mariadb", "cert-mariadb"} \subseteq Names
      /\ {"/auth/mariadb", "/certs/ca/mariadb"} \subseteq Paths
  BY DEF Names, Paths
<1>1. databaseClientMounts(s) = IF s.database = "none" THEN NoMounts ELSE a ++ b
  BY DEF databaseClientMounts
<1>2. Fits(a, {"auth-mariadb"}, {"/auth/mariadb"}) /\ Shows(a, "/auth/mariadb", Secret("db"))
  BY <1>o, <1>p, SingleFits
<1>3. Fits(b, {"cert-mariadb"}, {"/certs/ca/mariadb"})
  <2>1. Fits(Mounted("cert-mariadb", Secret("db-tls"), <<"/certs/ca/mariadb">>),
             {"cert-mariadb"}, {"/certs/ca/mariadb"})
    BY <1>o, <1>p, SingleFits
  <2>2. Fits(NoMounts, {"cert-mariadb"}, {"/certs/ca/mariadb"})
    BY NoneFit, FitsWider
  <2> QED
    BY <2>1, <2>2
<1> HIDE DEF a, b
<1>4. /\ Fits(a ++ b, {"auth-mariadb"} \cup {"cert-mariadb"}, {"/auth/mariadb"} \cup {"/certs/ca/mariadb"})
      /\ Shows(a ++ b, "/auth/mariadb", Secret("db"))
  BY <1>2, <1>3, FitsTogether
<1>5. /\ {"auth-mariadb"} \cup {"cert-mariadb"} = {"auth-mariadb", "cert-mariadb"}
      /\ {"/auth/mariadb"} \cup {"/certs/ca/mariadb"} = {"/auth/mariadb", "/certs/ca/mariadb"}
  OBVIOUS
<1>6. Fits(NoMounts, {"auth-mariadb", "cert-mariadb"}, {"/auth/mariadb", "/certs/ca/mariadb"})
  BY NoneFit, FitsWider
<1> QED
  BY <1>1, <1>4, <1>5, <1>6

LEMMA Sources ==
  ASSUME NEW s \in Specs
  PROVE  /\ TLSSecret(s) = IF s.tls THEN Certificate ELSE Nothing
         /\ GetTrustedCA(s) \in Linkable \cup {Nothing}
         /\ {TLSSecret(s), GetBMCCA(s), GetTrustedCA(s)} \subseteq Objects
         /\ Certificate # Nothing
<1>1. Certificate # Nothing
  BY DEF Certificate, Secret, Nothing, Object
<1>2. /\ s.trustedCA \in Linkable \cup {Nothing} /\ s.bmcCA \in Linkable \cup {Nothing}
      /\ s.trustedCAName \in {"", "ca"} /\ s.bmcCAName \in {"", "ca"}
  BY DEF Specs
<1>3. ConfigMap("ca") \in Linkable /\ Secret("ca") \in Linkable
  BY DEF Linkable
<1>4. GetTrustedCA(s) \in Linkable \cup {Nothing} /\ GetBMCCA(s) \in Linkable \cup {Nothing}
  BY <1>2, <1>3 DEF GetTrustedCA, GetBMCCA
<1> QED
  BY <1>1, <1>4 DEF TLSSecret, Objects, Linkable

\* What Ironic and httpd have mounted.
LEMMA IronicFits ==
  ASSUME NEW s \in Specs
  PROVE  LET all == buildIronicVolumesAndMounts(s)
         IN  /\ \E N, P : Fits(all, N, P)
             /\ Shows(all, "/shared", EmptyDir)
             /\ isAuthVolumeRequired(s) => Shows(all, "/auth/ironic-rpc", Secret("api"))
             /\ s.tls => Shows(all, "/certs/ironic", Certificate)
             /\ s.tls /\ ~s.plainMedia => Shows(all, "/certs/vmedia", Certificate)
             /\ GetTrustedCA(s) # Nothing => Shows(all, "/certs/ca/trusted", GetTrustedCA(s))
             /\ s.database # "none" => Shows(all, "/auth/mariadb", Secret("db"))
<1> DEFINE shared == Mounted("ironic-shared", EmptyDir, <<"/shared">>)
           auth == Mounted("ironic-auth", Secret("api"),
                           IF isAuthVolumeRequired(s) THEN <<"/auth/ironic-rpc">> ELSE <<>>)
           cert == IF TLSSecret(s) = Nothing THEN NoMounts
                   ELSE Mounted("cert-ironic", TLSSecret(s),
                                IF s.plainMedia THEN <<"/certs/ironic">>
                                ELSE <<"/certs/ironic", "/certs/vmedia">>)
           bmc == volumeForSecretOrConfigMap("cert-bmc", GetBMCCA(s), "/certs/ca/bmc")
           ca == volumeForSecretOrConfigMap("trusted-ca", GetTrustedCA(s), "/certs/ca/trusted")
           database == databaseClientMounts(s)
           two == shared ++ auth
           three == two ++ cert
           four == three ++ bmc
           five == four ++ ca
           six == five ++ database
<1>0. buildIronicVolumesAndMounts(s) = six
  BY DEF buildIronicVolumesAndMounts
<1>o. Secret("api") \in Objects /\ EmptyDir \in Objects /\ Certificate \in Objects
  BY DEF Objects, Linkable
<1>p. /\ {"ironic-shared", "ironic-auth", "cert-ironic", "cert-bmc", "trusted-ca"} \subseteq Names
      /\ {"/shared", "/auth/ironic-rpc", "/certs/ironic", "/certs/vmedia", "/certs/ca/bmc",
          "/certs/ca/trusted"} \subseteq Paths
  BY DEF Names, Paths
<1>1. Fits(shared, {"ironic-shared"}, {"/shared"}) /\ Shows(shared, "/shared", EmptyDir)
  BY <1>o, <1>p, SingleFits
<1>2. /\ Fits(auth, {"ironic-auth"}, {"/auth/ironic-rpc"})
      /\ isAuthVolumeRequired(s) => Shows(auth, "/auth/ironic-rpc", Secret("api"))
  <2>1. CASE isAuthVolumeRequired(s)
    <3>1. auth = Mounted("ironic-auth", Secret("api"), <<"/auth/ironic-rpc">>)
      BY <2>1
    <3> HIDE DEF auth
    <3> QED
      BY <1>o, <1>p, <3>1, SingleFits
  <2>2. CASE ~isAuthVolumeRequired(s)
    <3> DEFINE none == <<>>
    <3>1. /\ auth = Mounted("ironic-auth", Secret("api"), none)
          /\ none \in Seq(Paths) /\ DOMAIN none = {}
      BY <2>2
    <3> HIDE DEF auth, none
    <3>2. Range(none) = {}
      BY <3>1 DEF Range
    <3>3. Fits(auth, {"ironic-auth"}, {})
      BY <1>o, <1>p, <3>1, <3>2, MountedFits
    <3> QED
      BY <2>2, <3>3, FitsWider
  <2> QED
    BY <2>1, <2>2
<1>3. /\ Fits(cert, {"cert-ironic"}, {"/certs/ironic", "/certs/vmedia"})
      /\ s.tls => Shows(cert, "/certs/ironic", Certificate)
      /\ s.tls /\ ~s.plainMedia => Shows(cert, "/certs/vmedia", Certificate)
  <2>1. CASE ~s.tls
    BY <2>1, Sources, NoneFit, FitsWider
  <2>2. CASE s.tls /\ s.plainMedia
    <3>1. cert = Mounted("cert-ironic", Certificate, <<"/certs/ironic">>)
      BY <2>2, Sources
    <3> HIDE DEF cert
    <3>2. Fits(cert, {"cert-ironic"}, {"/certs/ironic"}) /\ Shows(cert, "/certs/ironic", Certificate)
      BY <1>o, <1>p, <3>1, SingleFits
    <3> QED
      BY <2>2, <3>2, FitsWider
  <2>3. CASE s.tls /\ ~s.plainMedia
    <3> DEFINE paths == <<"/certs/ironic", "/certs/vmedia">>
    <3>1. cert = Mounted("cert-ironic", Certificate, paths)
      BY <2>3, Sources
    <3>2. /\ paths \in Seq(Paths) /\ DOMAIN paths = {1, 2}
          /\ paths[1] = "/certs/ironic" /\ paths[2] = "/certs/vmedia"
      BY <1>p
    <3> HIDE DEF cert, paths
    <3>3. /\ Range(paths) = {"/certs/ironic", "/certs/vmedia"}
          /\ \A i, j \in DOMAIN paths : paths[i] = paths[j] => i = j
      BY <3>2 DEF Range
    <3>4. "cert-ironic" \in Names
      BY <1>p
    <3>5. /\ Fits(cert, {"cert-ironic"}, Range(paths))
          /\ \A p \in Range(paths) : Shows(cert, p, Certificate)
      BY <1>o, <3>1, <3>2, <3>3, <3>4, MountedFits
    <3> QED
      BY <3>3, <3>5
  <2> QED
    BY <2>1, <2>2, <2>3
<1>c. GetBMCCA(s) \in Objects /\ GetTrustedCA(s) \in Objects
  BY Sources
<1>4. Fits(bmc, {"cert-bmc"}, {"/certs/ca/bmc"})
  BY <1>c, <1>p, OptionalFits
<1>5. /\ Fits(ca, {"trusted-ca"}, {"/certs/ca/trusted"})
      /\ GetTrustedCA(s) # Nothing => Shows(ca, "/certs/ca/trusted", GetTrustedCA(s))
  BY <1>c, <1>p, OptionalFits
<1>6. /\ Fits(database, {"auth-mariadb", "cert-mariadb"}, {"/auth/mariadb", "/certs/ca/mariadb"})
      /\ s.database # "none" => Shows(database, "/auth/mariadb", Secret("db"))
  BY DatabaseFits
<1> HIDE DEF shared, auth, cert, bmc, ca, database
<1> DEFINE N2 == {"ironic-shared"} \cup {"ironic-auth"}
           P2 == {"/shared"} \cup {"/auth/ironic-rpc"}
           N3 == N2 \cup {"cert-ironic"}
           P3 == P2 \cup {"/certs/ironic", "/certs/vmedia"}
           N4 == N3 \cup {"cert-bmc"}
           P4 == P3 \cup {"/certs/ca/bmc"}
           N5 == N4 \cup {"trusted-ca"}
           P5 == P4 \cup {"/certs/ca/trusted"}
           N6 == N5 \cup {"auth-mariadb", "cert-mariadb"}
           P6 == P5 \cup {"/auth/mariadb", "/certs/ca/mariadb"}
<1>7. /\ N2 \cap {"cert-ironic"} = {} /\ N3 \cap {"cert-bmc"} = {} /\ N4 \cap {"trusted-ca"} = {}
      /\ N5 \cap {"auth-mariadb", "cert-mariadb"} = {}
      /\ P2 \cap {"/certs/ironic", "/certs/vmedia"} = {} /\ P3 \cap {"/certs/ca/bmc"} = {}
      /\ P4 \cap {"/certs/ca/trusted"} = {} /\ P5 \cap {"/auth/mariadb", "/certs/ca/mariadb"} = {}
  OBVIOUS
<1>8. /\ Fits(two, N2, P2)
      /\ \A p, o : Shows(shared, p, o) \/ Shows(auth, p, o) => Shows(two, p, o)
  <2>1. {"ironic-shared"} \cap {"ironic-auth"} = {} /\ {"/shared"} \cap {"/auth/ironic-rpc"} = {}
    OBVIOUS
  <2> QED
    BY <1>1, <1>2, <2>1, FitsTogether
<1> HIDE DEF N2, P2, two
<1>9. /\ Fits(three, N3, P3)
      /\ \A p, o : Shows(two, p, o) \/ Shows(cert, p, o) => Shows(three, p, o)
  BY <1>3, <1>7, <1>8, FitsTogether
<1> HIDE DEF N3, P3, three
<1>10. /\ Fits(four, N4, P4)
       /\ \A p, o : Shows(three, p, o) \/ Shows(bmc, p, o) => Shows(four, p, o)
  BY <1>4, <1>7, <1>9, FitsTogether
<1> HIDE DEF N4, P4, four
<1>11. /\ Fits(five, N5, P5)
       /\ \A p, o : Shows(four, p, o) \/ Shows(ca, p, o) => Shows(five, p, o)
  BY <1>5, <1>7, <1>10, FitsTogether
<1> HIDE DEF N5, P5, five
<1>12. /\ Fits(six, N6, P6)
       /\ \A p, o : Shows(five, p, o) \/ Shows(database, p, o) => Shows(six, p, o)
  BY <1>6, <1>7, <1>11, FitsTogether
<1> HIDE DEF N6, P6, six
<1> QED
  BY <1>0, <1>1, <1>2, <1>3, <1>5, <1>6, <1>8, <1>9, <1>10, <1>11, <1>12

LEMMA NetworkingFits ==
  ASSUME NEW s \in Specs
  PROVE  LET all == buildNetworkingVolumesAndMounts(s)
         IN  /\ \E N, P : /\ Fits(all, N, P)
                          /\ N \cap {"ironic-data", "ironic-tmp"} = {}
                          /\ P \cap {"/data", "/conf", "/tmp"} = {}
             /\ Shows(all, "/auth/ironic-rpc", Secret("api"))
             /\ Shows(all, "/etc/ironic/networking/configs", Secret("switch-config"))
<1> DEFINE auth == Mounted("ironic-auth", Secret("api"), <<"/auth/ironic-rpc">>)
           configs == Mounted("switch-config", Secret("switch-config"), <<"/etc/ironic/networking/configs">>)
           credentials == Mounted("switch-credentials", Secret("switch-credentials"),
                                  <<"/etc/ironic/networking/credentials">>)
           cert == volumeForSecretOrConfigMap("cert-ironic", TLSSecret(s), "/certs/ironic")
           ca == volumeForSecretOrConfigMap("trusted-ca", GetTrustedCA(s), "/certs/ca/trusted")
           two == auth ++ configs
           three == two ++ credentials
           four == three ++ cert
           five == four ++ ca
<1>0. buildNetworkingVolumesAndMounts(s) = five
  BY DEF buildNetworkingVolumesAndMounts
<1>o. {Secret("api"), Secret("switch-config"), Secret("switch-credentials")} \subseteq Objects
  BY DEF Objects
<1>c. TLSSecret(s) \in Objects /\ GetTrustedCA(s) \in Objects
  BY Sources
<1>p. /\ {"ironic-auth", "switch-config", "switch-credentials", "cert-ironic", "trusted-ca"} \subseteq Names
      /\ {"/auth/ironic-rpc", "/etc/ironic/networking/configs", "/etc/ironic/networking/credentials",
          "/certs/ironic", "/certs/ca/trusted"} \subseteq Paths
  BY DEF Names, Paths
<1>1. Fits(auth, {"ironic-auth"}, {"/auth/ironic-rpc"}) /\ Shows(auth, "/auth/ironic-rpc", Secret("api"))
  BY <1>o, <1>p, SingleFits
<1>2. /\ Fits(configs, {"switch-config"}, {"/etc/ironic/networking/configs"})
      /\ Shows(configs, "/etc/ironic/networking/configs", Secret("switch-config"))
  BY <1>o, <1>p, SingleFits
<1>3. Fits(credentials, {"switch-credentials"}, {"/etc/ironic/networking/credentials"})
  BY <1>o, <1>p, SingleFits
<1>4. Fits(cert, {"cert-ironic"}, {"/certs/ironic"})
  BY <1>c, <1>p, OptionalFits
<1>5. Fits(ca, {"trusted-ca"}, {"/certs/ca/trusted"})
  BY <1>c, <1>p, OptionalFits
<1> HIDE DEF auth, configs, credentials, cert, ca
<1> DEFINE N2 == {"ironic-auth"} \cup {"switch-config"}
           P2 == {"/auth/ironic-rpc"} \cup {"/etc/ironic/networking/configs"}
           N3 == N2 \cup {"switch-credentials"}
           P3 == P2 \cup {"/etc/ironic/networking/credentials"}
           N4 == N3 \cup {"cert-ironic"}
           P4 == P3 \cup {"/certs/ironic"}
           N5 == N4 \cup {"trusted-ca"}
           P5 == P4 \cup {"/certs/ca/trusted"}
<1>6. /\ {"ironic-auth"} \cap {"switch-config"} = {} /\ N2 \cap {"switch-credentials"} = {}
      /\ N3 \cap {"cert-ironic"} = {} /\ N4 \cap {"trusted-ca"} = {}
      /\ N5 \cap {"ironic-data", "ironic-tmp"} = {}
      /\ {"/auth/ironic-rpc"} \cap {"/etc/ironic/networking/configs"} = {}
      /\ P2 \cap {"/etc/ironic/networking/credentials"} = {}
      /\ P3 \cap {"/certs/ironic"} = {} /\ P4 \cap {"/certs/ca/trusted"} = {}
      /\ P5 \cap {"/data", "/conf", "/tmp"} = {}
  OBVIOUS
<1>7. /\ Fits(two, N2, P2)
      /\ \A p, o : Shows(auth, p, o) \/ Shows(configs, p, o) => Shows(two, p, o)
  BY <1>1, <1>2, <1>6, FitsTogether
<1> HIDE DEF N2, P2, two
<1>8. /\ Fits(three, N3, P3)
      /\ \A p, o : Shows(two, p, o) => Shows(three, p, o)
  BY <1>3, <1>6, <1>7, FitsTogether
<1> HIDE DEF N3, P3, three
<1>9. /\ Fits(four, N4, P4)
      /\ \A p, o : Shows(three, p, o) => Shows(four, p, o)
  BY <1>4, <1>6, <1>8, FitsTogether
<1> HIDE DEF N4, P4, four
<1>10. /\ Fits(five, N5, P5)
       /\ \A p, o : Shows(four, p, o) => Shows(five, p, o)
  BY <1>5, <1>6, <1>9, FitsTogether
<1> HIDE DEF N5, P5, five
<1> QED
  BY <1>0, <1>1, <1>2, <1>6, <1>7, <1>8, <1>9, <1>10

\* What addDataVolumes adds.
Data ==
  [volumes |-> <<Volume("ironic-data", EmptyDir), Volume("ironic-tmp", EmptyDir)>>,
   mounts |-> <<Mount("ironic-data", "/data"), Mount("ironic-data", "/conf"), Mount("ironic-tmp", "/tmp")>>]

LEMMA DataFits == Fits(Data, {"ironic-data", "ironic-tmp"}, {"/data", "/conf", "/tmp"})
<1>1. /\ Volume("ironic-data", EmptyDir) \in [name : Names, source : Objects]
      /\ Volume("ironic-tmp", EmptyDir) \in [name : Names, source : Objects]
      /\ Volume("ironic-data", EmptyDir).name = "ironic-data"
      /\ Volume("ironic-tmp", EmptyDir).name = "ironic-tmp"
  <2>1. EmptyDir \in Objects /\ {"ironic-data", "ironic-tmp"} \subseteq Names
    BY DEF Objects, Names
  <2> QED
    BY <2>1 DEF Volume
<1>2. \A n \in {"ironic-data", "ironic-tmp"}, p \in {"/data", "/conf", "/tmp"} :
        Mount(n, p) \in [name : Names, path : Paths] /\ Mount(n, p).name = n /\ Mount(n, p).path = p
  BY DEF Mount, Names, Paths
<1> DEFINE vs == Data.volumes
           ms == Data.mounts
<1>3. /\ DOMAIN vs = {1, 2} /\ vs[1].name = "ironic-data" /\ vs[2].name = "ironic-tmp"
      /\ vs \in VolumeLists
  BY <1>1 DEF Data, VolumeLists
<1>4. /\ DOMAIN ms = {1, 2, 3} /\ ms \in MountLists
      /\ ms[1].path = "/data" /\ ms[2].path = "/conf" /\ ms[3].path = "/tmp"
      /\ ms[1].name = "ironic-data" /\ ms[2].name = "ironic-data" /\ ms[3].name = "ironic-tmp"
  BY <1>2 DEF Data, MountLists
<1> HIDE DEF vs, ms
<1>5. \A m \in Range(ms) : \E v \in Range(vs) : v.name = m.name
  BY <1>3, <1>4 DEF Range
<1> QED
  BY <1>3, <1>4, <1>5 DEF Fits, vs, ms

-----------------------------------------------------------------------------
(* A part that fits is what MountsBacked asks of a pod. *)

\* As many elements as places, if no two places hold the same.
LEMMA Counted ==
  ASSUME NEW n \in Nat, NEW S, NEW f \in [1 .. n -> S],
         \A i, j \in 1 .. n : f[i] = f[j] => i = j, \A x \in S : \E i \in 1 .. n : f[i] = x
  PROVE  Cardinality(S) = n
<1>1. f \in Bijection(1 .. n, S)
  BY DEF Bijection, Injection, Surjection, IsInjective
<1>2. ExistsBijection(1 .. n, S)
  BY <1>1 DEF ExistsBijection
<1> QED
  BY <1>2, FS_CountingElements

LEMMA FitsBacked ==
  ASSUME NEW w, NEW N, NEW P, Fits(w, N, P)
  PROVE  /\ Cardinality({v.name : v \in Range(w.volumes)}) = Len(w.volumes)
         /\ Cardinality({m.path : m \in Range(w.mounts)}) = Len(w.mounts)
<1> DEFINE vs == w.volumes
           ms == w.mounts
<1>1. /\ Len(vs) \in Nat /\ DOMAIN vs = 1 .. Len(vs)
      /\ Len(ms) \in Nat /\ DOMAIN ms = 1 .. Len(ms)
  BY DEF Fits, VolumeLists, MountLists
<1>n. Len(vs) \in Nat /\ Len(ms) \in Nat
  BY <1>1
<1>2. /\ \A i, j \in DOMAIN vs : vs[i].name = vs[j].name => i = j
      /\ \A i, j \in DOMAIN ms : ms[i].path = ms[j].path => i = j
  BY DEF Fits
<1> HIDE DEF vs, ms
<1>3. Cardinality({v.name : v \in Range(vs)}) = Len(vs)
  <2> DEFINE g == [i \in 1 .. Len(vs) |-> vs[i].name]
             S == {v.name : v \in Range(vs)}
  <2>1. \A i, j \in 1 .. Len(vs) : g[i] = g[j] => i = j
    BY <1>1, <1>2
  <2>2. g \in [1 .. Len(vs) -> S] /\ \A x \in S : \E i \in 1 .. Len(vs) : g[i] = x
    BY <1>1 DEF Range
  <2> HIDE DEF g, S
  <2>3. Cardinality(S) = Len(vs)
    BY <1>n, <2>1, <2>2, Counted
  <2> QED
    BY <2>3 DEF S
<1>4. Cardinality({m.path : m \in Range(ms)}) = Len(ms)
  <2> DEFINE g == [i \in 1 .. Len(ms) |-> ms[i].path]
             S == {m.path : m \in Range(ms)}
  <2>1. \A i, j \in 1 .. Len(ms) : g[i] = g[j] => i = j
    BY <1>1, <1>2
  <2>2. g \in [1 .. Len(ms) -> S] /\ \A x \in S : \E i \in 1 .. Len(ms) : g[i] = x
    BY <1>1 DEF Range
  <2> HIDE DEF g, S
  <2>3. Cardinality(S) = Len(ms)
    BY <1>n, <2>1, <2>2, Counted
  <2> QED
    BY <2>3 DEF S
<1> QED
  BY <1>3, <1>4 DEF vs, ms

\* MountsBacked of a single pod.
Backed(pod) ==
  /\ Cardinality({v.name : v \in Range(pod.volumes)}) = Len(pod.volumes)
  /\ \A c \in Range(pod.containers) :
       /\ Cardinality({m.path : m \in Range(c.mounts)}) = Len(c.mounts)
       /\ \A m \in Range(c.mounts) : \E v \in Range(pod.volumes) : v.name = m.name

\* Every container of a pod has all mounts of the part, the first one, or none.
LEMMA FitsPod ==
  ASSUME NEW w, NEW N, NEW P, Fits(w, N, P), w.mounts # <<>>, NEW pod, pod.volumes = w.volumes,
         \A c \in Range(pod.containers) : c.mounts \in {w.mounts, <<>>, <<Head(w.mounts)>>}
  PROVE  Backed(pod)
<1> DEFINE Spread(ms) == /\ Cardinality({m.path : m \in Range(ms)}) = Len(ms)
                         /\ \A m \in Range(ms) : \E v \in Range(w.volumes) : v.name = m.name
<1>1. Spread(w.mounts) /\ Cardinality({v.name : v \in Range(w.volumes)}) = Len(w.volumes)
  BY FitsBacked DEF Fits
<1>2. Spread(<<>>)
  <2>1. Range(<<>>) = {} /\ Len(<<>>) = 0
    BY DEF Range
  <2>2. {m.path : m \in {}} = {}
    OBVIOUS
  <2> QED
    BY <2>1, <2>2, FS_EmptySet
<1>3. Spread(<<Head(w.mounts)>>)
  <2> DEFINE h == Head(w.mounts)
             one == <<h>>
  <2>1. h \in Range(w.mounts)
    <3>1. w.mounts \in Seq([name : Names, path : Paths])
      BY DEF Fits, MountLists
    <3>2. h = w.mounts[1] /\ 1 \in DOMAIN w.mounts
      BY <3>1
    <3> QED
      BY <3>2 DEF Range
  <2>2. Range(one) = {h} /\ Len(one) = 1
    BY DEF Range
  <2> HIDE DEF h, one
  <2>3. {m.path : m \in {h}} = {h.path}
    OBVIOUS
  <2>4. Spread(one)
    BY <1>1, <2>1, <2>2, <2>3, FS_Singleton
  <2> QED
    BY <2>4 DEF one, h
<1>4. ASSUME NEW c \in Range(pod.containers)
      PROVE  Spread(c.mounts)
  <2> HIDE DEF Spread
  <2> QED
    BY <1>1, <1>2, <1>3
<1> QED
  BY <1>1, <1>4 DEF Backed

\* The workload's pod.
LEMMA BuiltWired ==
  ASSUME NEW s \in Specs, NEW l, ValidateIronic(s, s)
  PROVE  LET all == buildIronicVolumesAndMounts(s)
             pod == newIronicPodTemplate(s, l)
         IN  /\ pod.volumes = all.volumes
             /\ \A c \in Range(pod.containers) : c.mounts \in {all.mounts, <<>>, <<Head(all.mounts)>>}
             /\ all.mounts # <<>>
<1> DEFINE all == buildIronicVolumesAndMounts(s)
           pod == newIronicPodTemplate(s, l)
<1>1. pod.volumes = all.volumes
  BY DEF newIronicPodTemplate
<1>2. Ironic(s, l).mounts = all.mounts /\ Httpd(s).mounts = all.mounts
  BY ContainerFields DEF Ironic, Httpd
<1>3. \A c \in Range(pod.containers) :
        \/ c = Ironic(s, l)
        \/ c = Httpd(s)
        \/ c.mounts \in {<<>>, <<Head(all.mounts)>>}
  BY PodContainers, Helpers DEF Range
<1>4. all.mounts # <<>>
  <2>1. Range(all.mounts) # {}
    BY IronicFits DEF Shows
  <2> QED
    BY <2>1 DEF Range
<1> QED
  BY <1>1, <1>2, <1>3, <1>4

\* A pod of one container, after addDataVolumes.
OnePod(name, env, w, ports) ==
  addDataVolumes([containers |-> <<Container(name, env, w.mounts, ports)>>,
                  volumes |-> w.volumes, hostNetwork |-> FALSE])

LEMMA DataAdded ==
  ASSUME NEW w, NEW N, NEW P, Fits(w, N, P),
         N \cap {"ironic-data", "ironic-tmp"} = {}, P \cap {"/data", "/conf", "/tmp"} = {},
         NEW name, NEW env, NEW ports, NEW pod, pod = OnePod(name, env, w, ports)
  PROVE  /\ Backed(pod)
         /\ \A c \in Range(pod.containers) :
              /\ c.env = env /\ c.ports = ports
              /\ \A path, o : Shows(w, path, o) => \E m \in Range(c.mounts) : m.path = path
<1> DEFINE all == w ++ Data
           first == Container(name, env, w.mounts, ports)
           given == [containers |-> <<first>>, volumes |-> w.volumes, hostNetwork |-> FALSE]
           full == [first EXCEPT !.mounts = @ \o Data.mounts]
<1>1. /\ Fits(all, N \cup {"ironic-data", "ironic-tmp"}, P \cup {"/data", "/conf", "/tmp"})
      /\ \A path, o : Shows(w, path, o) => Shows(all, path, o)
  BY DataFits, FitsTogether
<1>2. all.volumes = w.volumes \o Data.volumes /\ all.mounts = w.mounts \o Data.mounts
  BY DEF ++
<1>3. full.env = env /\ full.ports = ports /\ full.mounts = w.mounts \o Data.mounts
  BY DEF Container
<1>4. pod.volumes = w.volumes \o Data.volumes /\ pod.containers = [i \in {1} |-> full]
  <2>1. /\ given.containers = <<first>> /\ DOMAIN given.containers = {1} /\ given.containers[1] = first
        /\ given.volumes = w.volumes
    OBVIOUS
  <2>2. DOMAIN given = {"containers", "volumes", "hostNetwork"} /\ pod = addDataVolumes(given)
    BY DEF OnePod
  <2> DEFINE vs == <<Volume("ironic-data", EmptyDir), Volume("ironic-tmp", EmptyDir)>>
             ms == <<Mount("ironic-data", "/data"), Mount("ironic-data", "/conf"),
                     Mount("ironic-tmp", "/tmp")>>
             more(c) == [c EXCEPT !.mounts = @ \o ms]
  <2>d. Data.volumes = vs /\ Data.mounts = ms
    BY DEF Data
  <2> HIDE DEF given, first
  <2>3. pod = [given EXCEPT !.volumes = @ \o vs, !.containers = [i \in DOMAIN @ |-> more(@[i])]]
    BY <2>2, Zenon DEF addDataVolumes
  <2> HIDE DEF vs, ms
  <2>4. /\ pod.volumes = given.volumes \o vs
        /\ pod.containers = [i \in DOMAIN given.containers |-> more(given.containers[i])]
    BY <2>2, <2>3
  <2> QED
    BY <2>1, <2>d, <2>4
<1> HIDE DEF all, full
<1>5. Range(pod.containers) = {full}
  BY <1>4 DEF Range
<1>6. \A path, o : Shows(w, path, o) => \E m \in Range(all.mounts) : m.path = path
  BY <1>1 DEF Shows
<1>7. all.mounts # <<>>
  <2>1. Fits(Data, {"ironic-data", "ironic-tmp"}, {"/data", "/conf", "/tmp"}) /\ w.mounts \in MountLists
    BY DataFits DEF Fits
  <2>2. Data.mounts \in Seq([name : Names, path : Paths]) /\ w.mounts \in Seq([name : Names, path : Paths])
    BY <2>1 DEF Fits, MountLists
  <2>3. Len(Data.mounts) = 3 /\ Len(<<>>) = 0 /\ Len(w.mounts) \in Nat
    BY <2>2 DEF Data
  <2>4. Len(all.mounts) = Len(w.mounts) + Len(Data.mounts)
    BY <1>2, <2>2, Appended
  <2> QED
    BY <2>3, <2>4
<1>8. Backed(pod)
  BY <1>1, <1>2, <1>3, <1>4, <1>5, <1>7, FitsPod
<1> QED
  BY <1>2, <1>3, <1>5, <1>6, <1>8

LEMMA MigrationFits ==
  ASSUME NEW s
  PROVE  LET all == databaseClientMounts(s) ++ Mounted("ironic-shared", EmptyDir, <<"/shared">>)
         IN  /\ \E N, P : /\ Fits(all, N, P)
                          /\ N \cap {"ironic-data", "ironic-tmp"} = {}
                          /\ P \cap {"/data", "/conf", "/tmp"} = {}
             /\ s.database # "none" => Shows(all, "/auth/mariadb", Secret("db"))
<1> DEFINE database == databaseClientMounts(s)
           shared == Mounted("ironic-shared", EmptyDir, <<"/shared">>)
           N == {"auth-mariadb", "cert-mariadb"}
           P == {"/auth/mariadb", "/certs/ca/mariadb"}
<1>1. /\ Fits(database, N, P)
      /\ s.database # "none" => Shows(database, "/auth/mariadb", Secret("db"))
  BY DatabaseFits
<1>2. Fits(shared, {"ironic-shared"}, {"/shared"})
  <2>1. EmptyDir \in Objects /\ "ironic-shared" \in Names /\ "/shared" \in Paths
    BY DEF Objects, Names, Paths
  <2> QED
    BY <2>1, SingleFits
<1>3. /\ N \cap {"ironic-shared"} = {} /\ P \cap {"/shared"} = {}
      /\ (N \cup {"ironic-shared"}) \cap {"ironic-data", "ironic-tmp"} = {}
      /\ (P \cup {"/shared"}) \cap {"/data", "/conf", "/tmp"} = {}
  OBVIOUS
<1> HIDE DEF database, shared, N, P
<1>4. /\ Fits(database ++ shared, N \cup {"ironic-shared"}, P \cup {"/shared"})
      /\ \A path, o : Shows(database, path, o) => Shows(database ++ shared, path, o)
  BY <1>1, <1>2, <1>3, FitsTogether
<1>5. /\ \E N1, P1 : /\ Fits(database ++ shared, N1, P1)
                     /\ N1 \cap {"ironic-data", "ironic-tmp"} = {}
                     /\ P1 \cap {"/data", "/conf", "/tmp"} = {}
      /\ s.database # "none" => Shows(database ++ shared, "/auth/mariadb", Secret("db"))
  BY <1>1, <1>3, <1>4
<1> QED
  BY <1>5 DEF database, shared

\* The pods of the networking service and of the upgrade jobs.
LEMMA NetworkingWired ==
  ASSUME NEW s \in Specs
  PROVE  LET pod == buildNetworkingDeployment(s)
         IN  /\ Backed(pod)
             /\ \A c \in Range(pod.containers) :
                  /\ c.env = buildNetworkingContainerEnv(s)
                  /\ c.ports = {Port("networking-rpc", "networking-port")}
                  /\ {"/auth/ironic-rpc", "/etc/ironic/networking/configs"}
                       \subseteq {m.path : m \in Range(c.mounts)}
<1> DEFINE pod == buildNetworkingDeployment(s)
           w == buildNetworkingVolumesAndMounts(s)
<1>1. pod = OnePod("ironic-networking", buildNetworkingContainerEnv(s), w,
                   {Port("networking-rpc", "networking-port")})
  BY Zenon DEF OnePod, buildNetworkingDeployment, buildNetworkingContainer
<1>2. PICK N, P : Fits(w, N, P) /\ N \cap {"ironic-data", "ironic-tmp"} = {} /\ P \cap {"/data", "/conf", "/tmp"} = {}
  BY NetworkingFits
<1>3. /\ Shows(w, "/auth/ironic-rpc", Secret("api"))
      /\ Shows(w, "/etc/ironic/networking/configs", Secret("switch-config"))
  BY NetworkingFits
<1> HIDE DEF pod, w
<1>4. /\ Backed(pod)
      /\ \A c \in Range(pod.containers) :
           /\ c.env = buildNetworkingContainerEnv(s) /\ c.ports = {Port("networking-rpc", "networking-port")}
           /\ \A path, o : Shows(w, path, o) => \E m \in Range(c.mounts) : m.path = path
  BY <1>1, <1>2, DataAdded
<1> QED
  BY <1>3, <1>4 DEF pod

LEMMA MigrationWired ==
  ASSUME NEW s
  PROVE  LET pod == newMigrationTemplate(s)
         IN  /\ Backed(pod)
             /\ \A c \in Range(pod.containers) :
                  /\ c.env = databaseClientEnvVars \cup {Value("IRONIC_USE_MARIADB", "true"),
                                                         Field("PROVISIONING_IP", "podIP")}
                  /\ c.ports = {}
                  /\ s.database # "none" => "/auth/mariadb" \in {m.path : m \in Range(c.mounts)}
<1> DEFINE pod == newMigrationTemplate(s)
           w == databaseClientMounts(s) ++ Mounted("ironic-shared", EmptyDir, <<"/shared">>)
           env == databaseClientEnvVars \cup {Value("IRONIC_USE_MARIADB", "true"),
                                              Field("PROVISIONING_IP", "podIP")}
<1>1. pod = OnePod("database-upgrade", env, w, {})
  BY Zenon DEF OnePod, newMigrationTemplate
<1>2. PICK N, P : Fits(w, N, P) /\ N \cap {"ironic-data", "ironic-tmp"} = {} /\ P \cap {"/data", "/conf", "/tmp"} = {}
  BY MigrationFits
<1>3. s.database # "none" => Shows(w, "/auth/mariadb", Secret("db"))
  BY MigrationFits
<1> HIDE DEF pod, w, env
<1>4. /\ Backed(pod)
      /\ \A c \in Range(pod.containers) :
           /\ c.env = env /\ c.ports = {}
           /\ \A path, o : Shows(w, path, o) => \E m \in Range(c.mounts) : m.path = path
  BY <1>1, <1>2, DataAdded
<1> QED
  BY <1>3, <1>4 DEF pod, env

LEMMA PodsBacked ==
  ASSUME ExposureInv, NEW pod \in Pods
  PROVE  Backed(pod)
<1>0. mem.spec \in Specs
  BY MemTyped DEF ExposureInv
<1>1. CASE pod = workload.pod /\ workload = NoWorkload
  <2>1. pod.volumes = <<>> /\ pod.containers = <<>>
    BY <1>1 DEF NoWorkload
  <2>2. Range(<<>>) = {} /\ Len(<<>>) = 0 /\ {v.name : v \in {}} = {}
    BY DEF Range
  <2> QED
    BY <2>1, <2>2, FS_EmptySet DEF Backed
<1>2. CASE pod = workload.pod /\ workload # NoWorkload
  <2>1. PICK s \in Specs : \E l : ValidateIronic(s, s) /\ pod = newIronicPodTemplate(s, l)
    BY <1>2 DEF ExposureInv, Built, Workload
  <2> DEFINE w == buildIronicVolumesAndMounts(s)
  <2>2. \E N, P : Fits(w, N, P)
    BY IronicFits
  <2>3. /\ pod.volumes = w.volumes /\ w.mounts # <<>>
        /\ \A c \in Range(pod.containers) : c.mounts \in {w.mounts, <<>>, <<Head(w.mounts)>>}
    BY <2>1, BuiltWired
  <2> HIDE DEF w
  <2> QED
    BY <2>2, <2>3, FitsPod
<1>3. CASE pod = buildNetworkingDeployment(mem.spec)
  BY <1>0, <1>3, NetworkingWired
<1>4. CASE pod = newMigrationTemplate(mem.spec)
  BY <1>4, MigrationWired
<1> QED
  BY <1>1, <1>2, <1>3, <1>4 DEF Pods, When

-----------------------------------------------------------------------------
(* What containers are told to look for. *)

\* The parts of Needed, with variables by their names.
LEMMA NeededParts ==
  ASSUME NEW c, NEW path \in Needed(c)
  PROVE  \/ \E v \in c.env : v.from = "file" /\ path = v.value
         \/ /\ path = "/auth/ironic-rpc"
            /\ \E v \in c.env : /\ v.name \in {"IRONIC_EXPOSE_JSON_RPC", "IRONIC_NETWORKING_ENABLED"}
                                /\ v.value = "true"
         \/ /\ path = "/auth/mariadb"
            /\ \E v \in c.env : v.name = "IRONIC_USE_MARIADB" /\ v.value = "true"
         \/ /\ path = "/certs/ironic" /\ ApiPort \in c.ports
            /\ \E v \in c.env : v.name = "IRONIC_REVERSE_PROXY_SETUP"
         \/ path = "/certs/vmedia" /\ \E p \in c.ports : p.name = "image-svc-tls"
<1>1. CASE path \in {v.value : v \in {e \in c.env : e.from = "file"}}
  BY <1>1
<1>2. CASE /\ path = "/auth/ironic-rpc"
           /\ \/ Value("IRONIC_EXPOSE_JSON_RPC", "true") \in c.env
              \/ Value("IRONIC_NETWORKING_ENABLED", "true") \in c.env
  BY <1>2, Fields
<1>3. CASE path = "/auth/mariadb" /\ Value("IRONIC_USE_MARIADB", "true") \in c.env
  BY <1>3, Fields
<1>4. CASE /\ path = "/certs/ironic" /\ ApiPort \in c.ports
           /\ Value("IRONIC_REVERSE_PROXY_SETUP", "true") \in c.env
  BY <1>4, Fields
<1>5. CASE path = "/certs/vmedia" /\ \E p \in c.ports : p.name = "image-svc-tls"
  BY <1>5
<1> QED
  BY <1>1, <1>2, <1>3, <1>4, <1>5 DEF Needed, Has, When

LEMMA BuiltMounted ==
  ASSUME NEW s \in Specs, NEW l, ValidateIronic(s, s),
         NEW c \in Range(newIronicPodTemplate(s, l).containers)
  PROVE  Needed(c) \subseteq {m.path : m \in Range(c.mounts)}
<1> DEFINE all == buildIronicVolumesAndMounts(s)
           At(path) == path \in {m.path : m \in Range(all.mounts)}
<1>1. ASSUME NEW path, NEW o, Shows(all, path, o)
      PROVE  At(path)
  BY <1>1 DEF Shows
<1> HIDE DEF At, all
<1>2. /\ s.ha \/ s.service => At("/auth/ironic-rpc")
      /\ s.tls => At("/certs/ironic")
      /\ s.tls /\ ~s.plainMedia => At("/certs/vmedia")
      /\ GetTrustedCA(s) # Nothing => At("/certs/ca/trusted")
      /\ s.database # "none" => At("/auth/mariadb")
  <2>1. /\ isAuthVolumeRequired(s) => Shows(all, "/auth/ironic-rpc", Secret("api"))
        /\ s.tls => Shows(all, "/certs/ironic", Certificate)
        /\ s.tls /\ ~s.plainMedia => Shows(all, "/certs/vmedia", Certificate)
        /\ GetTrustedCA(s) # Nothing => Shows(all, "/certs/ca/trusted", GetTrustedCA(s))
        /\ s.database # "none" => Shows(all, "/auth/mariadb", Secret("db"))
    BY IronicFits DEF all
  <2> QED
    BY <1>1, <2>1 DEF isAuthVolumeRequired, IsNetworkingServiceEnabled
<1>3. ApiPort.name = "ironic-api" /\ MetricsPort.name = "metrics"
  BY DEF ApiPort, MetricsPort, Port
<1>4. CASE c = Ironic(s, l)
  <2>1. /\ c.env = buildIronicEnvVars(s, l) /\ c.mounts = all.mounts
        /\ c.ports = IF s.tls THEN {} ELSE {ApiPort}
    BY <1>4, Serving, ContainerFields DEF Ironic, all
  <2>2. ASSUME NEW path \in Needed(c)
        PROVE  At(path)
    BY <1>2, <1>3, <2>1, <2>2, NeededParts, IronicEnvironment
  <2> QED
    BY <2>1, <2>2 DEF At
<1>5. CASE c = Httpd(s)
  <2>1. /\ c.env = buildHttpdEnvVars(s) /\ c.mounts = all.mounts
        /\ ApiPort \in c.ports <=> s.tls
        /\ \A p \in c.ports : p.name = "image-svc-tls" => s.tls /\ ~s.plainMedia
    BY <1>5, Serving, ContainerFields DEF Httpd, all
  <2>2. ASSUME NEW path \in Needed(c)
        PROVE  At(path)
    BY <1>2, <2>1, <2>2, NeededParts, HttpdEnvironment DEF Telling
  <2> QED
    BY <2>1, <2>2 DEF At
<1>6. CASE /\ c.ports \subseteq {MetricsPort}
           /\ \A v \in c.env : v.name \notin Telling \ {"FLASK_RUN_HOST"} /\ v.from # "file"
  BY <1>3, <1>6, NeededParts DEF Telling
<1>7. \/ c = Ironic(s, l)
      \/ c = Httpd(s)
      \/ /\ c.ports \subseteq {MetricsPort}
         /\ \A v \in c.env : v.name \notin Telling \ {"FLASK_RUN_HOST"} /\ v.from # "file"
  BY PodContainers, Helpers DEF Range
<1> QED
  BY <1>4, <1>5, <1>6, <1>7

\* The container of the networking service looks for its configuration and the
\* credentials, that of an upgrade job for those of the database.
LEMMA NetworkingMounted ==
  ASSUME NEW s \in Specs, NEW c \in Range(buildNetworkingDeployment(s).containers)
  PROVE  Needed(c) \subseteq {m.path : m \in Range(c.mounts)}
<1>1. /\ c.env = buildNetworkingContainerEnv(s) /\ c.ports = {Port("networking-rpc", "networking-port")}
      /\ {"/auth/ironic-rpc", "/etc/ironic/networking/configs"} \subseteq {m.path : m \in Range(c.mounts)}
  BY NetworkingWired
<1>2. Port("networking-rpc", "networking-port").name = "networking-rpc" /\ ApiPort.name = "ironic-api"
  BY DEF Port, ApiPort
<1>3. ASSUME NEW v \in buildNetworkingContainerEnv(s)
      PROVE  /\ v.from = "file" => v.value = "/etc/ironic/networking/configs"
             /\ v.name # "IRONIC_USE_MARIADB"
  BY Fields, KeyFields DEF buildNetworkingContainerEnv, When, Htpasswd
<1> QED
  BY <1>1, <1>2, <1>3, NeededParts

LEMMA MigrationMounted ==
  ASSUME NEW s, s.database # "none", NEW c \in Range(newMigrationTemplate(s).containers)
  PROVE  Needed(c) \subseteq {m.path : m \in Range(c.mounts)}
<1>1. /\ c.env = databaseClientEnvVars \cup {Value("IRONIC_USE_MARIADB", "true"),
                                             Field("PROVISIONING_IP", "podIP")}
      /\ c.ports = {}
      /\ "/auth/mariadb" \in {m.path : m \in Range(c.mounts)}
  BY MigrationWired
<1>2. \A v \in c.env : /\ v.from # "file"
                       /\ v.name \notin {"IRONIC_EXPOSE_JSON_RPC", "IRONIC_NETWORKING_ENABLED"}
  BY <1>1, Fields DEF databaseClientEnvVars
<1> QED
  BY <1>1, <1>2, NeededParts

LEMMA PodsMounted ==
  ASSUME ExposureInv, NEW pod \in Pods, NEW c \in Range(pod.containers)
  PROVE  Needed(c) \subseteq {m.path : m \in Range(c.mounts)}
<1>0. mem.spec \in Specs
  BY MemTyped DEF ExposureInv
<1>1. CASE pod = workload.pod /\ workload = NoWorkload
  BY <1>1 DEF NoWorkload, Range
<1>2. CASE pod = workload.pod /\ workload # NoWorkload
  BY <1>2, BuiltMounted DEF ExposureInv, Built, Workload
<1>3. CASE pod = buildNetworkingDeployment(mem.spec)
  BY <1>0, <1>3, NetworkingMounted
<1>4. CASE pod = newMigrationTemplate(mem.spec) /\ mem.spec.database # "none"
  BY <1>4, MigrationMounted
<1> QED
  BY <1>1, <1>2, <1>3, <1>4 DEF Pods, When

\* A file that Ironic is given the path of was in the object that is mounted
\* there when the pod was built.
LEMMA TrustedCAKey ==
  ASSUME NEW s \in Specs, KeyOfReference(s), NEW l \in [Linkable -> SUBSET Keys], Validate(s, l),
         NEW v \in buildTrustedCAEnvVars(s, l)
  PROVE  /\ GetTrustedCA(s) \in Linkable
         /\ v.value = "/certs/ca/trusted" /\ v.from = "file"
         /\ v.key \in l[GetTrustedCA(s)]
<1> DEFINE ca == GetTrustedCA(s)
           key == IF s.key # "" THEN s.key ELSE FirstKey(l[ca])
<1>1. ca # Nothing /\ l[ca] # {} /\ v = File("WEBSERVER_CACERT_FILE", "/certs/ca/trusted", key)
  BY DEF buildTrustedCAEnvVars
<1>k. v.value = "/certs/ca/trusted" /\ v.from = "file" /\ v.key = key
  <2> HIDE DEF key, ca
  <2> QED
    BY <1>1, KeyFields
<1>2. ca \in Linkable
  BY <1>1, Sources
<1>3. CASE s.key # ""
  <2>1. s.trustedCA # Nothing /\ s.key \in l[s.trustedCA]
    BY <1>3 DEF KeyOfReference, Validate
  <2>2. ca = s.trustedCA
    BY <2>1 DEF GetTrustedCA
  <2> QED
    BY <1>k, <1>2, <1>3, <2>1, <2>2
<1>4. CASE s.key = ""
  <2>1. l[ca] \subseteq {"ca.crt", "tls.crt"}
    BY <1>2 DEF Keys
  <2>2. FirstKey(l[ca]) \in l[ca]
    BY <1>1, <2>1 DEF FirstKey
  <2> QED
    BY <1>k, <1>2, <1>4, <2>2
<1> QED
  BY <1>3, <1>4

LEMMA FileKeys ==
  ASSUME NEW s \in Specs, KeyOfReference(s), NEW l \in [Linkable -> SUBSET Keys], Validate(s, l),
         NEW v \in buildIronicEnvVars(s, l), v.from = "file"
  PROVE  \E o \in Used(s) \cap Linkable :
           v.key \in l[o] /\ Shows(buildIronicVolumesAndMounts(s), v.value, o)
<1> DEFINE all == buildIronicVolumesAndMounts(s)
           Found(key, path) == \E o \in Used(s) \cap Linkable : key \in l[o] /\ Shows(all, path, o)
<1>1. /\ s.tls => Shows(all, "/certs/ironic", Certificate)
      /\ GetTrustedCA(s) # Nothing => Shows(all, "/certs/ca/trusted", GetTrustedCA(s))
  BY IronicFits
<1> HIDE DEF all
<1>2. Nothing \notin Linkable /\ Certificate \in Linkable
  BY DEF Nothing, Linkable, Certificate, Secret, ConfigMap, Object
<1>3. ASSUME NEW w \in buildTrustedCAEnvVars(s, l)
      PROVE  Found(w.key, w.value)
  <2>1. /\ GetTrustedCA(s) \in Linkable /\ w.value = "/certs/ca/trusted"
        /\ w.key \in l[GetTrustedCA(s)]
    BY TrustedCAKey
  <2> QED
    BY <1>1, <1>2, <2>1 DEF Used
<1> HIDE DEF Found
<1> SUFFICES Found(v.key, v.value)
  BY DEF all, Found
<1>4. CASE v \in buildTrustedCAEnvVars(s, l)
  BY <1>3, <1>4
<1>5. CASE v \in RPCCertificateEnvVars(s, l)
  <2>1. CASE s.tls /\ "ca.crt" \in l[Certificate]
    <3>1. v = File("IRONIC_CACERT_FILE", "/certs/ironic", "ca.crt")
      BY <1>5, <2>1 DEF RPCCertificateEnvVars
    <3>2. TLSSecret(s) = Certificate
      BY <2>1, Sources
    <3>3. Found("ca.crt", "/certs/ironic")
      BY <1>1, <1>2, <2>1, <3>2 DEF Used, Found
    <3>4. v.key = "ca.crt" /\ v.value = "/certs/ironic"
      BY <3>1, KeyFields
    <3> QED
      BY <3>3, <3>4
  <2>2. CASE s.tls /\ ~("ca.crt" \in l[Certificate])
    <3>1. PICK w \in buildTrustedCAEnvVars(s, l) : v = [w EXCEPT !.name = "IRONIC_CACERT_FILE"]
      BY <1>5, <2>2 DEF RPCCertificateEnvVars
    <3>2. PICK key : w = File("WEBSERVER_CACERT_FILE", "/certs/ca/trusted", key)
      BY TrustedCAEnvironment
    <3>3. v.value = w.value /\ v.key = w.key
      BY <3>1, <3>2 DEF File, EnvVar
    <3> QED
      BY <1>3, <3>3
  <2>3. CASE ~s.tls
    BY <1>5, <2>3 DEF RPCCertificateEnvVars
  <2> QED
    BY <2>1, <2>2, <2>3
<1>6. v \in buildTrustedCAEnvVars(s, l) \cup RPCCertificateEnvVars(s, l)
  BY IronicEnvironment
<1> QED
  BY <1>4, <1>5, <1>6

\* And it still is, unless a config map has changed unseen.
LEMMA StandsResolved ==
  ASSUME TypeOK, NEW l \in [Linkable -> SUBSET Keys], Stands(l), KeyOfReference(spec),
         NEW c \in Range(workload.pod.containers), NEW e \in c.env, e.from = "file"
  PROVE  \E m \in Range(c.mounts), v \in Range(workload.pod.volumes) :
           /\ m.path = e.value /\ v.name = m.name
           /\ e.key \in linked[v.source] \/ (v.source.kind = "ConfigMap" /\ "linked" \in unseen)
<1>0. /\ spec \in Specs /\ Validate(spec, l) /\ ValidateIronic(spec, spec) /\ Known(spec, l)
      /\ workload.pod = newIronicPodTemplate(spec, l)
  BY DEF TypeOK, Stands, Validate, Workload
<1> DEFINE all == buildIronicVolumesAndMounts(spec)
<1>1. workload.pod.volumes = all.volumes
  BY <1>0, BuiltWired
<1>2. c = Ironic(spec, l)
  <2>1. \/ c = Ironic(spec, l)
        \/ c = Httpd(spec)
        \/ \A v \in c.env : v.from # "file"
    BY <1>0, PodContainers, Helpers DEF Range
  <2>2. \A v \in Httpd(spec).env : v.from # "file"
    BY <1>0, Serving, HttpdEnvironment
  <2> QED
    BY <2>1, <2>2
<1>3. c.env = buildIronicEnvVars(spec, l) /\ c.mounts = all.mounts
  BY <1>0, <1>2, Serving, ContainerFields DEF Ironic
<1>4. PICK o \in Used(spec) \cap Linkable : e.key \in l[o] /\ Shows(all, e.value, o)
  BY <1>0, <1>3, FileKeys
<1>5. e.key \in linked[o] \/ (o.kind = "ConfigMap" /\ "linked" \in unseen)
  BY <1>0, <1>4 DEF Known
<1> HIDE DEF all
<1> QED
  BY <1>1, <1>3, <1>4, <1>5 DEF Shows

-----------------------------------------------------------------------------
(* Results. *)

\* Type correctness: whatever users edit or delete, and wherever a walk is cut
\* off or fails, every variable keeps the values listed in TypeOK.
THEOREM ExposureTypeCorrect == Spec => []TypeOK
<1>1. ExposureInv => TypeOK
  BY DEF ExposureInv
<1> QED
  BY <1>1, InvAlways, PTL

\* The pods that ensureIronicDaemonSet and ensureIronicDeployment write never
\* claim an address on several hosts, and keepalived has what it needs, for all
\* specs that ValidateIronic lets through.
THEOREM OneAddressAlways == Spec => []OneAddress
<1>1. ExposureInv => OneAddress
  BY BuiltOneAddress, NothingBuilt DEF ExposureInv, Built
<1> QED
  BY <1>1, InvAlways, PTL

\* In every workload that is ever written exactly one container publishes the
\* API, and a container that publishes it or exposes RPC has the password.
THEOREM ApiAlwaysAuthenticated == Spec => []ApiAuthenticated
<1>1. ExposureInv => ApiAuthenticated
  BY BuiltAuthenticated, NothingBuilt DEF ExposureInv, Built
<1> QED
  BY <1>1, InvAlways, PTL

\* When all is quiet and reported ready, every port of the Service is published
\* by one container with the scheme its name promises, and the Ingress and the
\* ServiceMonitor name ports of the Service, after any edits, deletions, failures
\* and restarts in whatever order.
THEOREM RoutesAlwaysResolve == Spec => []RoutesResolve
<1>1. TypeOK /\ QuietInv => RoutesResolve
  BY StandsRouted DEF QuietInv, ServedInv, RoutesResolve
<1> QED
  BY <1>1, QuietAlways, PTL

\* When all is quiet and reported ready, there is a ServiceMonitor if and only if
\* one is wanted, unless it was deleted unseen, and what it reads can be reached.
THEOREM MonitorAlwaysFollows == Spec => []MonitorFollows
<1>1. ASSUME TypeOK, NEW l, Stands(l)
      PROVE  /\ monitor => MonitorWanted(spec)
             /\ MonitorWanted(spec) => monitor \/ "monitor" \in unseen
             /\ monitor => \A c \in Range(workload.pod.containers) :
                             ~Has(c, Value("FLASK_RUN_HOST", "loopback"))
  <2>1. spec \in Specs /\ ValidateIronic(spec, spec) /\ workload.pod = newIronicPodTemplate(spec, l)
    BY <1>1 DEF TypeOK, Stands, Validate, Workload
  <2>2. /\ monitor => MonitorWanted(spec)
        /\ MonitorWanted(spec) => monitor \/ "monitor" \in unseen
    BY <1>1 DEF TypeOK, Stands, MonitorStands
  <2> QED
    BY <2>1, <2>2, BuiltReachable
<1>2. TypeOK /\ QuietInv => MonitorFollows
  BY <1>1 DEF QuietInv, ServedInv, MonitorFollows
<1> QED
  BY <1>2, QuietAlways, PTL

\* In every pod of the workload, the networking service and the upgrade jobs the
\* mounts that the builders of containers ask for are those that the builders of
\* volumes provide, whatever specs validation lets through: the API server never
\* has a reason to refuse the pod.
THEOREM MountsAlwaysBacked == Spec => []MountsBacked
<1>1. ExposureInv => MountsBacked
  BY PodsBacked DEF Backed, MountsBacked, Distinct
<1> QED
  BY <1>1, InvAlways, PTL

\* In every one of these pods a container that is told to use the credentials of
\* the API or of the database, a certificate or a file has it mounted, though the
\* variables and the mounts are chosen in different functions.
THEOREM FilesAlwaysMounted == Spec => []FilesMounted
<1>1. ExposureInv => FilesMounted
  BY PodsMounted DEF FilesMounted
<1> QED
  BY <1>1, InvAlways, PTL

\* When all is quiet and reported ready, the certificates that Ironic is told to
\* read are in the objects that are mounted there, also after keys were removed
\* from them or the spec was pointed elsewhere, unless a config map has changed,
\* which nobody is told of.
THEOREM FilesAlwaysResolve == Spec => []FilesResolve
<1>1. TypeOK /\ QuietInv => FilesResolve
  BY StandsResolved DEF QuietInv, ServedInv, FilesResolve
<1> QED
  BY <1>1, QuietAlways, PTL
=============================================================================
