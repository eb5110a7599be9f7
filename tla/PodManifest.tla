----------------------------- MODULE PodManifest -----------------------------
(***************************************************************************)
(* The Pod that genpolicy reads, rendered from a descriptor (genpolicy.rs, *)
(* render_pod_manifest): its containers with their volume mounts, what     *)
(* their commands name, security contexts and environments, the volumes,   *)
(* the image and the shape of the virtual machine.  Ports, the figures of  *)
(* the sidecars' resources and constant annotations are left out.          *)
(***************************************************************************)
EXTENDS PodContainers

CONSTANTS Digests,   \* image digests
          NoDigest,  \* an image reference by tag has none
          NoMemory   \* no memory limit, or one that memory_limit_mib does not read

\* Entries of a resource list; mib is the value of a memory entry in MiB.
Entry == [name : {"cpu", "memory"}, mib : Nat \cup {NoMemory}]

\* oci: the rest of oci_runtime_spec; api_signing_pubkey: whether it is not blank.
Descriptor ==
  [image_ref : Digests \cup {NoDigest}, image_digest : Digests, oci : OciRuntimeSpec,
   independent_verification : BOOLEAN, api_signing_pubkey : BOOLEAN,
   unlock_mode : {"auto", "auto-unlock", "password", "other"},
   requests : Seq(Entry), limits : Seq(Entry)]

\* The process environment: of the tenant ingress, of the init image, and what else is set.
Environment == [tls : {"acme", "dns01-broker", "internal", "invalid"},
                init_image : {"pinned", "unpinned", "unset"},
                amd_kds_base_url : BOOLEAN, kbs_ca_cert : BOOLEAN]

-----------------------------------------------------------------------------
(* The shape.                                                              *)

UniqueNames(entries) ==
  \A i, j \in DOMAIN entries : entries[i].name = entries[j].name => i = j

Memory(entries) == {i \in DOMAIN entries : entries[i].name = "memory"}
\* app_memory_limit_mib reads the first memory limit.
FirstMemory(entries) ==
  IF Memory(entries) = {} THEN NoMemory
  ELSE entries[CHOOSE i \in Memory(entries) : \A j \in Memory(entries) : i <= j].mib
\* A map of the manifest keeps the last.
LastMemory(entries) ==
  IF Memory(entries) = {} THEN NoMemory
  ELSE entries[CHOOSE i \in Memory(entries) : \A j \in Memory(entries) : j <= i].mib

StandardRequest == 512
Below(mib) == mib # NoMemory /\ mib < StandardRequest
SmallShape(d) == Below(FirstMemory(d.limits))

-----------------------------------------------------------------------------
(* Mounts.                                                                 *)

Mount(volume, path, readOnly, propagation) ==
  [volume |-> volume, path |-> path, readOnly |-> readOnly, propagation |-> propagation]
ReadOnly(volume, path)  == Mount(volume, path, TRUE, "None")
Writable(volume, path)  == Mount(volume, path, FALSE, "None")
FromHost(volume, path)  == Mount(volume, path, FALSE, "HostToContainer")
BothWays(volume, path)  == Mount(volume, path, FALSE, "Bidirectional")

When(condition, S) == {x \in S : condition}

StartupFallback(d) == d.oci.args = <<>>

AppMounts(d, log) ==
  {ReadOnly("enclava-tools", "/enclava-tools"), Writable("unlock-socket", "/run/enclava"),
   FromHost("state-mount", "/state")}
  \cup When(StartupFallback(d), {ReadOnly("startup", "/startup")})
  \cup When(log, {FromHost("logs", "/run/enclava-logs")})

ProxyMounts(d) ==
  {Writable("ownership-signal", "/run/ownership-signal"), FromHost("state-mount", "/data"),
   FromHost("state-mount", "/state"), Writable("unlock-socket", "/run/enclava"),
   Writable("unlock-channel", "/run/enclava-unlock")}
  \cup When(d.independent_verification,
            {ReadOnly("verification-material", "/etc/enclava-verification")})

IngressMounts ==
  {ReadOnly("tenant-ingress-caddyfile", "/etc/caddy"),
   ReadOnly("enclava-tools", "/enclava-tools"), Writable("unlock-socket", "/run/enclava")}

ToolsMounts(log) ==
  {Writable("enclava-tools", "/work"), Writable("unlock-socket", "/run/enclava")}
  \cup When(log, {Writable("logs", "/run/enclava-logs")})

InitMounts(log) ==
  {BothWays("state-mount", "/state"), BothWays("tls-state-mount", "/state/tls-state"),
   Writable("unlock-socket", "/run/enclava"), Writable("unlock-channel", "/run/enclava-unlock"),
   Writable("luks-material", "/run/enclava-luks"),
   ReadOnly("enclava-init-config", "/etc/enclava-init")}
  \cup When(log, {BothWays("logs", "/run/enclava-logs")})

Mounts(d, log) ==
  [c \in Containers |-> CASE c = "web"               -> AppMounts(d, log)
                          [] c = "attestation-proxy" -> ProxyMounts(d)
                          [] c = "tenant-ingress"    -> IngressMounts
                          [] c = "enclava-tools"     -> ToolsMounts(log)
                          [] c = "enclava-init"      -> InitMounts(log)]

-----------------------------------------------------------------------------
(* Volumes, and the whole.                                                 *)

\* The mounted directories that the command of a container names, if any.
Commands(d, log, e) ==
  [c \in Containers |->
     CASE c = "web"            -> When(d.oci.command = <<>>, {"/enclava-tools"})
       [] c = "tenant-ingress" -> {"/enclava-tools", "/etc/caddy"}
                                  \cup When(e.tls = "dns01-broker", {"/run/enclava"})
       [] c = "enclava-tools"  -> {"/work", "/run/enclava"} \cup When(log, {"/run/enclava-logs"})
       [] OTHER                -> {}]

MemoryVolumes(log) ==
  {"ownership-signal", "enclava-tools", "unlock-socket", "unlock-channel", "luks-material",
   "state-mount", "tls-state-mount"} \cup When(log, {"logs"})

\* Mutant: the volume of the startup fallback is forgotten.
ConfigMapsFixed(d) ==
  {"tenant-ingress-caddyfile", "enclava-init-config"}
  \cup When(d.independent_verification, {"verification-material"})
ConfigMaps(d) ==
  {"tenant-ingress-caddyfile", "enclava-init-config"}
  \cup When(StartupFallback(d), {"startup"})
  \cup When(d.independent_verification, {"verification-material"})

\* Mutant: resource names may repeat.
RendersAny(d, e) ==
  d.unlock_mode # "other" /\ e.tls # "invalid" /\ e.init_image = "pinned"
\* The errors of render_pod_manifest.
Renders(d, e) ==
  /\ UniqueNames(d.requests) /\ UniqueNames(d.limits)
  /\ d.unlock_mode # "other"
  /\ e.tls # "invalid"
  /\ e.init_image = "pinned"

Manifest(d, log, e) ==
  [image    |-> d.image_ref,
   contexts |-> Contexts(d.oci),
   commands |-> Commands(d, log, e),
   env      |-> Environments(d, log, e),
   limit    |-> LastMemory(d.limits),
   vm       |-> IF SmallShape(d) THEN "1536" ELSE "default",
   mounts   |-> Mounts(d, log),
   memory   |-> MemoryVolumes(log),
   maps     |-> ConfigMaps(d)]
=============================================================================
