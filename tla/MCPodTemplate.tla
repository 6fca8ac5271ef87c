----------------------------- MODULE MCPodTemplate -----------------------------
(* Overrides for PodTemplate: containers of the operator replaced, twice in     *)
(* different ways, others added, with and without fields that the merge does    *)
(* not copy, and a name taken in both lists of containers.                      *)
EXTENDS PodTemplate

Override(name, image, timing, policy) ==
  [name |-> name, image |-> image, body |-> "complete", timing |-> timing, policy |-> policy]

MCContainers == {Override("httpd", "fixed", "user", "unset"),
                 Override("httpd", "latest", "none", "user"),
                 Override("sidecar", "fixed", "user", "user"),
                 Override("agent", "fixed", "none", "unset")}

MCInits == {Override("ramdisk-downloader", "fixed", "none", "user"),
            Override("sidecar", "fixed", "none", "unset")}

MCVolumes == [name : {"ironic-shared", "extra"}, body : {"complete"}]

Plain == [image |-> "fixed", downloader |-> TRUE, node |-> "any", containers |-> <<>>,
          initContainers |-> <<>>, volumes |-> <<>>, labels |-> {}, probe |-> FALSE]
MCFirstSpecs ==
  {Plain, [Plain EXCEPT !.image = "latest", !.downloader = FALSE,
                        !.containers = <<Override("sidecar", "fixed", "user", "user")>>]}

\* Users leave out what they need not give.
SparseContainers == {[c EXCEPT !.body = b] : c \in MCContainers, b \in Bodies}
SparseVolumes == [name : {"ironic-shared", "extra"}, body : Bodies]
=============================================================================
