--------------------------- MODULE CanonicalForms ---------------------------
(***************************************************************************)
(* What the signatures of the service are over: the canonical forms of a   *)
(* deployment descriptor (descriptor.rs), an organisation keyring          *)
(* (keyring.rs), an owner rotation (main.rs) and a policy artifact         *)
(* (policy.rs), as the lists of records that CE-v1 encodes.  An encoding   *)
(* has one reading (CanonicalEncoding), and a hash is taken to have one    *)
(* preimage, so that either stands for what it was made from.              *)
(*                                                                         *)
(* A descriptor is a record of the source's fields; its plain fields are   *)
(* texts or hashes, names in a list are numbers.                           *)
(***************************************************************************)
EXTENDS Naturals, Sequences, FiniteSets, Functions, SecurityProfile

CONSTANT Atom  \* what texts are made of

Texts == Seq(Atom)
EnvVar == [name : Nat, value : Texts]
Port == [container_port : Nat, protocol : Texts]
Mount == [source : Texts, destination : Texts, mount_type : Texts, options : Seq(Texts)]
Resources == [requests : Seq(EnvVar), limits : Seq(EnvVar)]
OciRuntimeSpec ==
  [command : Seq(Texts), args : Seq(Texts), env : Seq(EnvVar), ports : Seq(Port),
   mounts : Seq(Mount), capabilities : Capabilities, security_context : SecurityContext,
   resources : Resources]
Member ==
  [user_id : Nat, pubkey : Texts, role : {"owner", "admin", "deployer"}, added_at : Texts]
OrgKeyring ==
  [org_id : Texts, version : Nat, members : Seq(Member), updated_at : Texts]
RotationDirective ==
  [org_id : Texts, revoked_pubkey : Texts, replacement_pubkey : Texts,
   signed_at : Texts, reason : Texts]

\* ce_v1_hash, and the SHA-256 of a text.
Hash(records) == [records |-> records]
TextHash(text) == [text |-> text]

\* sort_by and sort_by_key are stable; keys[i] is the key of the i-th element.
Sorted(list, keys) ==
  LET Rank(i) == Cardinality({j \in DOMAIN list :
                    keys[j] < keys[i] \/ (keys[j] = keys[i] /\ j <= i)})
  IN  [r \in DOMAIN list |-> list[CHOOSE i \in DOMAIN list : Rank(i) = r]]

\* A list with an index in the labels: strings ("i"), ports ("p") and mounts ("m").
Numbered(prefix, values) == Hash([i \in DOMAIN values |-> <<<<prefix, i>>, values[i]>>])
Strings(list) == Numbered("i", list)

\* Mutant: entries are sorted by name and value.
NamedByValue(list) ==
  LET keys   == [i \in DOMAIN list |-> 100 * list[i].name + Len(list[i].value)]
      sorted == Sorted(list, keys)
  IN  Hash([i \in DOMAIN list |-> <<sorted[i].name, sorted[i].value>>])
\* Environment variables and resources.
Named(list) ==
  LET sorted == Sorted(list, [i \in DOMAIN list |-> list[i].name])
  IN  Hash([i \in DOMAIN list |-> <<sorted[i].name, sorted[i].value>>])

\* A port's number and protocol are one value, the number of four bytes.
PortBytes(p) == <<p.container_port, p.protocol>>
MountBytes(m) == Hash(<<<<"source", m.source>>, <<"destination", m.destination>>,
                        <<"type", m.mount_type>>, <<"options", Strings(m.options)>>>>)
SecurityBytes(s) ==
  Hash(<<<<"run_as_user", s.run_as_user>>, <<"run_as_group", s.run_as_group>>,
         <<"flags", <<s.read_only_root_fs, s.allow_privilege_escalation, s.privileged>>>>>>)
ResourcesBytes(r) == Hash(<<<<"requests", Named(r.requests)>>, <<"limits", Named(r.limits)>>>>)

SpecBytes(oci) ==
  Hash(<<<<"command", Strings(oci.command)>>, <<"args", Strings(oci.args)>>,
         <<"env", Named(oci.env)>>,
         <<"ports", Numbered("p", [i \in DOMAIN oci.ports |-> PortBytes(oci.ports[i])])>>,
         <<"mounts", Numbered("m", [i \in DOMAIN oci.mounts |-> MountBytes(oci.mounts[i])])>>,
         <<"capabilities_add", Strings(oci.capabilities.add)>>,
         <<"capabilities_drop", Strings(oci.capabilities.drop)>>,
         <<"security_context", SecurityBytes(oci.security_context)>>,
         <<"resources", ResourcesBytes(oci.resources)>>>>)

SignerBytes(s) == Hash(<<<<"subject", s.subject>>, <<"issuer", s.issuer>>>>)
SidecarBytes(s) ==
  Hash(<<<<"attestation_proxy", s.attestation_proxy_digest>>, <<"caddy", s.caddy_digest>>>>)

-----------------------------------------------------------------------------
(* The descriptor.                                                         *)

CoreLabels ==
  <<"schema_version", "org_id", "org_slug", "app_id", "app_name", "deploy_id", "created_at",
    "nonce", "app_domain", "tee_domain", "custom_domains", "namespace", "service_account",
    "identity_hash", "image_ref", "image_digest", "signer_identity", "oci_runtime_spec",
    "sidecars", "api_signing_pubkey", "expected_firmware_measurement",
    "expected_runtime_class", "kbs_resource_path", "unlock_mode", "policy_template_id",
    "policy_template_sha256", "platform_release_version">>

\* What a descriptor says of the texts that are made from it.
AnchorLabels ==
  <<"expected_agent_policy_hash", "expected_cc_init_data_hash", "expected_kbs_policy_hash">>

IsDescriptor(d) ==
  /\ d = [l \in Range(CoreLabels) \cup Range(AnchorLabels) \cup {"independent_verification"} |->
            d[l]]
  /\ d.custom_domains \in Seq(Texts)
  /\ d.signer_identity \in [subject : Texts, issuer : Texts]
  /\ d.oci_runtime_spec \in OciRuntimeSpec
  /\ d.sidecars \in [attestation_proxy_digest : Texts, caddy_digest : Texts]
  /\ d.independent_verification \in BOOLEAN
  /\ {d.expected_cc_init_data_hash, d.image_digest, d.namespace, d.service_account,
      d.identity_hash, d.kbs_resource_path} \subseteq Texts

FieldBytes(d, label) ==
  CASE label = "custom_domains"   -> Strings(d.custom_domains)
    [] label = "signer_identity"  -> SignerBytes(d.signer_identity)
    [] label = "oci_runtime_spec" -> SpecBytes(d.oci_runtime_spec)
    [] label = "sidecars"         -> SidecarBytes(d.sidecars)
    [] OTHER                      -> d[label]

Labelled(d, labels) == [i \in DOMAIN labels |-> <<labels[i], FieldBytes(d, labels[i])>>]

\* descriptor_records, of the full form or of the core.
DescriptorRecords(d, purpose, anchors) ==
  <<<<"purpose", purpose>>>>
  \o Labelled(d, CoreLabels)
  \o (IF d.independent_verification THEN <<<<"independent_verification", "true">>>> ELSE <<>>)
  \o (IF anchors THEN Labelled(d, AnchorLabels) ELSE <<>>)

DescriptorBytes(d) == DescriptorRecords(d, "enclava-deployment-descriptor-v1", TRUE)
CoreHash(d) == Hash(DescriptorRecords(d, "enclava-deployment-descriptor-core-v1", FALSE))

-----------------------------------------------------------------------------
(* The keyring, the rotation and the artifact.                             *)

MemberHash(m) == Hash(<<<<"user_id", m.user_id>>, <<"pubkey", m.pubkey>>, <<"role", m.role>>,
                        <<"added_at", m.added_at>>>>)
MembersHash(members) ==
  LET sorted == Sorted(members, [i \in DOMAIN members |-> members[i].user_id])
  IN  Hash([i \in DOMAIN members |-> <<sorted[i].user_id, MemberHash(sorted[i])>>])
KeyringBytes(k) ==
  <<<<"purpose", "enclava-org-keyring-v1">>, <<"org_id", k.org_id>>, <<"version", k.version>>,
    <<"members", MembersHash(k.members)>>, <<"updated_at", k.updated_at>>>>

RecoveryBytes(r) ==
  <<<<"purpose", "enclava-recovery-v1">>, <<"org_id", r.org_id>>,
    <<"revoked_pubkey", r.revoked_pubkey>>, <<"replacement_pubkey", r.replacement_pubkey>>,
    <<"signed_at", r.signed_at>>, <<"reason", r.reason>>>>

MetadataLabels ==
  <<"app_id", "deploy_id", "descriptor_core_hash", "descriptor_signing_pubkey",
    "platform_release_version", "policy_template_id", "policy_template_sha256",
    "agent_policy_sha256", "genpolicy_version_pin", "signed_at", "key_id">>
MetadataHash(metadata) ==
  Hash([i \in DOMAIN MetadataLabels |-> <<MetadataLabels[i], metadata[MetadataLabels[i]]>>])

\* Mutant: the resource policy is left to the descriptor.
ArtifactBytesShort(a) ==
  <<<<"purpose", "enclava-policy-artifact-v1">>, <<"metadata", MetadataHash(a.metadata)>>>>
ArtifactBytes(a) ==
  <<<<"purpose", "enclava-policy-artifact-v1">>, <<"metadata", MetadataHash(a.metadata)>>,
    <<"rego_sha256", a.rego_sha256>>>>
=============================================================================
