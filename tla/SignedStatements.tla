-------------------------- MODULE SignedStatements --------------------------
(***************************************************************************)
(* What a signature can be used for.  One key may be an organisation's     *)
(* owner, its deployer and the signer of its artifacts: it signs keyrings, *)
(* owner rotations, descriptors and policy artifacts, and whoever holds    *)
(* such a signature may present it with any other statement.  Signatures   *)
(* are as good as the bytes they are over, so that a statement is accepted *)
(* when its bytes were signed.  From an accepted descriptor an artifact is *)
(* made, with all the checks of sign_verified_policy.                      *)
(***************************************************************************)
EXTENDS CanonicalForms, PolicyRendering

CONSTANTS Descriptors, Keyrings, Rotations,  \* the statements that are considered
          AgentPolicies,                     \* texts genpolicy may have answered
          TemplateId, Version1,              \* TEMPLATE_ID, and "v1"
          Signer,                            \* the key
          MaxSigned                          \* bound: statements signed by hand

ASSUME DescriptorsAssumption == \A d \in Descriptors : IsDescriptor(d)
ASSUME KeyringsAssumption == Keyrings \subseteq OrgKeyring
ASSUME RotationsAssumption == Rotations \subseteq RotationDirective
\* The hexadecimal digits of a hash: always as many, and no slot among them.
ASSUME InitDataAssumption ==
  \A d, e \in Descriptors :
    /\ Len(d.expected_cc_init_data_hash) = Len(e.expected_cc_init_data_hash)
    /\ Range(d.expected_cc_init_data_hash) \cap Range(Slots) = {}
ASSUME TemplateAssumption ==
  /\ Range(Slots) \cup Closing \subseteq Atom
  /\ Template \in Texts /\ "init_data_hash" \in Range(Template)

Statement(kind, body) == [kind |-> kind, body |-> body]
Statements == {Statement("descriptor", d) : d \in Descriptors}
              \cup {Statement("keyring", k) : k \in Keyrings}
              \cup {Statement("rotation", r) : r \in Rotations}

SignedBytes(s) ==
  CASE s.kind = "descriptor" -> DescriptorBytes(s.body)
    [] s.kind = "keyring"    -> KeyringBytes(s.body)
    [] s.kind = "rotation"   -> RecoveryBytes(s.body)
    [] s.kind = "artifact"   -> ArtifactBytes(s.body)

Bytes == [s \in Statements |-> SignedBytes(s)]

VARIABLES
  signed,    \* the statements the key has signed
  accepted,  \* the last statement accepted on a signature, if any
  made       \* the artifacts made: each with its descriptor
vars == <<signed, accepted, made>>

Init == signed = {} /\ accepted = {} /\ made = {}

Sign(s) ==
  /\ Cardinality(signed \ {Statement("artifact", m.artifact) : m \in made}) < MaxSigned
  /\ signed' = signed \cup {s}
  /\ UNCHANGED <<accepted, made>>

\* The signature check of verify_descriptor, of verify_keyring or of rotate_owner, with some
\* signature of the key; what else they ask of a statement is left out here.
Present(s) ==
  /\ \E t \in signed : Bytes[s] = IF t \in Statements THEN Bytes[t] ELSE SignedBytes(t)
  /\ accepted' = {s}
  /\ UNCHANGED <<signed, made>>

\* validate_unique_resource_names.
UniqueNames(d) ==
  LET unique(list) == \A i, j \in DOMAIN list : list[i].name = list[j].name => i = j
  IN  /\ unique(d.oci_runtime_spec.resources.requests)
      /\ unique(d.oci_runtime_spec.resources.limits)

\* The descriptor is for this service, above the floor, and names the two policies.
Signable(d, agent) ==
  /\ UniqueNames(d)
  /\ d.schema_version = Version1
  /\ d.policy_template_id = TemplateId
  /\ d.policy_template_sha256 = TextHash(Template)
  /\ SecurityFloor(d.oci_runtime_spec)
  /\ Renders(d)
  /\ d.expected_kbs_policy_hash = TextHash(Rendered(d))
  /\ d.expected_agent_policy_hash = TextHash(agent)

Artifact(d, agent) ==
  [metadata |->
     [app_id |-> d.app_id, deploy_id |-> d.deploy_id, descriptor_core_hash |-> CoreHash(d),
      descriptor_signing_pubkey |-> Signer,
      platform_release_version |-> d.platform_release_version,
      policy_template_id |-> TemplateId, policy_template_sha256 |-> TextHash(Template),
      agent_policy_sha256 |-> TextHash(agent), genpolicy_version_pin |-> "pin",
      signed_at |-> "now", key_id |-> "id"],
   rego_sha256 |-> TextHash(Rendered(d))]

\* sign_verified_policy, with the deployer's own key: the artifacts there may be.
Makeable ==
  {[descriptor |-> p[1], artifact |-> Artifact(p[1], p[2])] :
     p \in {q \in Descriptors \X AgentPolicies : Signable(q[1], q[2])}}

\* Mutant: an artifact goes out without its signature.
MakeArtifactUnsigned ==
  \E m \in Makeable :
    /\ Statement("descriptor", m.descriptor) \in accepted
    /\ made' = made \cup {m}
    /\ UNCHANGED <<signed, accepted>>
MakeArtifact ==
  \E m \in Makeable :
    /\ Statement("descriptor", m.descriptor) \in accepted
    /\ made' = made \cup {m}
    /\ signed' = signed \cup {Statement("artifact", m.artifact)}
    /\ UNCHANGED accepted

Next == (\E s \in Statements : Sign(s) \/ Present(s)) \/ MakeArtifact
Spec == Init /\ [][Next]_vars

-----------------------------------------------------------------------------
(* Properties.                                                             *)

TypeOK ==
  /\ {s \in signed : s.kind # "artifact"} \subseteq Statements
  /\ accepted \subseteq Statements
  /\ \A m \in made : /\ m.descriptor \in Descriptors
                     /\ Statement("artifact", m.artifact) \in signed

\* The same entries, of which those with one key come in the same order.
SameEntries(a, b, key) ==
  \E p \in Bijection(DOMAIN a, DOMAIN b) :
    /\ \A i \in DOMAIN a : b[p[i]] = a[i]
    /\ \A i, j \in DOMAIN a : i < j /\ a[i][key] = a[j][key] => p[i] < p[j]

\* What is left of a descriptor, of a keyring, without the entries that have no order.
OrderedSpec(oci) == [oci EXCEPT !.env = <<>>, !.resources = <<>>]
Ordered(d) == [d EXCEPT !.oci_runtime_spec = OrderedSpec(@)]
OrderedKeyring(k) == [k EXCEPT !.members = <<>>]

SameDescriptor(d, e) ==
  LET oci == d.oci_runtime_spec
      other == e.oci_runtime_spec
  IN  /\ SameEntries(oci.env, other.env, "name")
      /\ SameEntries(oci.resources.requests, other.resources.requests, "name")
      /\ SameEntries(oci.resources.limits, other.resources.limits, "name")
      /\ Ordered(d) = Ordered(e)
SameKeyring(k, l) ==
  SameEntries(k.members, l.members, "user_id") /\ OrderedKeyring(k) = OrderedKeyring(l)

\* Entries of different names have no meaning in their order, those of one name have; the
\* members of a keyring likewise, by user.
SameMeaning(s, t) ==
  /\ s.kind = t.kind
  /\ CASE s.kind = "descriptor" -> SameDescriptor(s.body, t.body)
       [] s.kind = "keyring"    -> SameKeyring(s.body, t.body)
       [] OTHER                 -> s.body = t.body

\* A signature is good for what was signed and for nothing else: what is accepted was signed
\* as a statement of its own kind and with the same meaning.
AcceptedAsSigned ==
  \A s \in accepted : \E t \in signed : SameMeaning(s, t)

\* An artifact names its descriptor, with the hashes that the core hash leaves out: no
\* descriptor of another meaning leads to an artifact with the same signed bytes.
ArtifactIdentifies ==
  \A m \in made, n \in Makeable :
    ArtifactBytes(m.artifact) = ArtifactBytes(n.artifact) =>
      SameDescriptor(m.descriptor, n.descriptor)

\* The text of an artifact's resource policy is the template's: no value brings in a
\* character that may close a string of it; and what stands between the quotes is the
\* descriptor's value, unless one of the values names a slot.  This is about the text: a
\* backslash passes the check of a value, and Rego reads it as the start of an escape.
Meant(d) == FlattenSeq([i \in DOMAIN Template |->
              IF Template[i] \in Range(Slots) THEN SlotValue(d, Template[i]) ELSE <<Template[i]>>])
Ends(text) == FlattenSeq([i \in DOMAIN text |->
                IF text[i] \in Closing THEN <<text[i]>> ELSE <<>>])
NamesSlot(d) == \E i \in DOMAIN Slots : Range(SlotValue(d, Slots[i])) \cap Range(Slots) # {}
RenderedAsMeant ==
  \A m \in made : /\ Ends(Rendered(m.descriptor)) = Ends(Template)
                  /\ ~NamesSlot(m.descriptor) => Rendered(m.descriptor) = Meant(m.descriptor)

\* An artifact lets a container gain privileges only as the rootful-sudo profile: as root
\* and with its six capabilities, each once, and no other.
EscalationIsSudo ==
  \A m \in made :
    LET oci == m.descriptor.oci_runtime_spec
    IN  oci.security_context.allow_privilege_escalation =>
          /\ ExactlySudo(oci.capabilities.add)
          /\ oci.security_context.run_as_user = 0 /\ ~oci.security_context.privileged
=============================================================================
