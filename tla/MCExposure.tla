------------------------------ MODULE MCExposure ------------------------------
(* Values of the constants of Exposure for TLC. *)
EXTENDS Exposure

\* One spec for each way Ironic is deployed: on a provisioning network with an
\* address of its own, highly available, and behind an Ingress.
Manifests == {
  Plain,
  [Plain EXCEPT !.addresses = {"ipAddress", "interface"}, !.keepalived = "enabled", !.dhcp = TRUE],
  [Plain EXCEPT !.ha = TRUE, !.database = "tls", !.tls = TRUE, !.service = TRUE],
  [Plain EXCEPT !.tls = TRUE, !.ingress = TRUE, !.disableHostNetwork = TRUE,
                !.exporter = [set |-> TRUE, enabled |-> TRUE, noMonitor |-> FALSE, loopback |-> FALSE]]}
=============================================================================
