------------------------- MODULE MCSignedStatements -------------------------
(***************************************************************************)
(* The statements for TLC: a descriptor that an artifact can be made of,   *)
(* and those that differ from it in a field, a list or a pair of fields    *)
(* that hold the same texts; keyrings of up to two members; rotations.     *)
(***************************************************************************)
EXTENDS SignedStatements, TLC

x == <<"x">>
y == <<"y">>
MCAtom == Range(Slots) \cup Closing \cup {"x", "y", "rules", "{{"}
MCTemplate ==
  <<"rules">> \o FlattenSeq([i \in DOMAIN Slots |-> <<"quote", Slots[i], "quote", "line end">>])
MCAgentPolicies == {x, y}

PlainFields == (Range(CoreLabels) \cup Range(AnchorLabels))
               \ {"custom_domains", "signer_identity", "oci_runtime_spec", "sidecars"}
Cap(n) == [name |-> n, written |-> "upper"]
Sudo == <<"CHOWN", "DAC_OVERRIDE", "FOWNER", "SETGID", "SETUID", "AUDIT_WRITE">>
SudoCaps == [i \in 1..6 |-> Cap(Sudo[i])]

Context == [run_as_user |-> 0, run_as_group |-> 0, read_only_root_fs |-> FALSE,
            allow_privilege_escalation |-> FALSE, privileged |-> FALSE]
Oci == [command |-> <<>>, args |-> <<>>, env |-> <<>>, ports |-> <<>>, mounts |-> <<>>,
        capabilities |-> [add |-> <<>>, drop |-> <<>>], security_context |-> Context,
        resources |-> [requests |-> <<>>, limits |-> <<>>]]
Complete(d) == [d EXCEPT !.expected_kbs_policy_hash = TextHash(Rendered(d))]
Base ==
  [[l \in PlainFields |-> x] EXCEPT !["expected_agent_policy_hash"] = TextHash(x),
                                   !["expected_kbs_policy_hash"] = TextHash(x),
                                   !["policy_template_sha256"] = TextHash(MCTemplate)]
  @@ [custom_domains |-> <<>>, signer_identity |-> [subject |-> x, issuer |-> y],
      oci_runtime_spec |-> Oci,
      sidecars |-> [attestation_proxy_digest |-> x, caddy_digest |-> y],
      independent_verification |-> FALSE]

Hashes == {"expected_agent_policy_hash", "expected_kbs_policy_hash", "policy_template_sha256"}
Lists == {<<>>, <<x>>, <<y>>, <<x, y>>, <<y, x>>}
Pairs(S, n) == UNION {[1..m -> S] : m \in 0..n}
Entries == [name : {1, 2}, value : {y, <<"x", "y">>}]

FieldsDiffer ==
  {[Base EXCEPT ![l] = IF l \in Hashes THEN TextHash(y) ELSE y] : l \in PlainFields}
  \cup {[Base EXCEPT !.independent_verification = TRUE, ![l] = y] :
          l \in {"org_id", "platform_release_version"}}
  \cup {[Base EXCEPT !.custom_domains = c] : c \in Lists}
  \cup {[Base EXCEPT !.signer_identity = [subject |-> s, issuer |-> i]] : s, i \in {x, y}}
  \cup {[Base EXCEPT !.sidecars = [attestation_proxy_digest |-> s, caddy_digest |-> i]] :
          s, i \in {x, y}}
\* Values that are looked at by the rendering.
Odd == {<<>>, <<"quote">>, <<"{{">>, <<"namespace">>, <<"x", "image_digest">>}
SlotsDiffer ==
  {[Base EXCEPT ![l] = v] :
     l \in {"image_digest", "namespace", "kbs_resource_path"}, v \in Odd}
  \cup {[Base EXCEPT !.signer_identity.subject = v] : v \in Odd}

PortOf(n, p) == [container_port |-> n, protocol |-> p]
MountAt(s, o) == [source |-> s, destination |-> x, mount_type |-> y, options |-> o]
Specs ==
  {[Oci EXCEPT !.command = c, !.args = a] : c, a \in {<<>>, <<x>>, <<x, y>>}}
  \cup {[Oci EXCEPT !.env = e] : e \in Pairs(Entries, 2)}
  \cup {[Oci EXCEPT !.resources = [requests |-> r, limits |-> l]] :
          r \in Pairs(Entries, 1), l \in Pairs(Entries, 1)}
  \cup {[Oci EXCEPT !.resources.limits = l] : l \in Pairs(Entries, 2)}
  \cup {[Oci EXCEPT !.ports = p] : p \in {<<PortOf(1, x)>>, <<PortOf(2, x), PortOf(1, x)>>, <<PortOf(1, y)>>}}
  \cup {[Oci EXCEPT !.mounts = m] :
          m \in {<<MountAt(x, <<>>)>>, <<MountAt(y, <<x>>)>>, <<MountAt(y, <<>>), MountAt(x, <<x>>)>>}}
  \cup {[Oci EXCEPT !.security_context = c, !.capabilities = k] :
          c \in {[Context EXCEPT !.allow_privilege_escalation = e, !.run_as_group = g,
                                 !.privileged = p] : e, p \in BOOLEAN, g \in {0, 1}},
          k \in {[add |-> a, drop |-> r] :
                   a \in {SudoCaps, Append(SudoCaps, Cap("SYS_ADMIN")),
                          [SudoCaps EXCEPT ![6] = Cap("CHOWN")],
                          [SudoCaps EXCEPT ![6].written = "lower"]},
                   r \in {<<>>, <<Cap("ALL")>>}}}

MCDescriptors ==
  {IF d.expected_kbs_policy_hash = TextHash(y) THEN d ELSE Complete(d) :
     d \in FieldsDiffer \cup SlotsDiffer \cup {[Base EXCEPT !.oci_runtime_spec = o] : o \in Specs}}

Members == [user_id : {1, 2}, pubkey : {x, y}, role : {"owner", "deployer"}, added_at : {x}]
MCKeyrings ==
  {[org_id |-> x, version |-> 1, members |-> m, updated_at |-> x] : m \in Pairs(Members, 2)}
  \cup {[org_id |-> o, version |-> v, members |-> <<>>, updated_at |-> u] :
          o, u \in {x, y}, v \in {1, 2}}
MCRotations == [org_id : {x, y}, revoked_pubkey : {x, y}, replacement_pubkey : {x, y},
                signed_at : {x}, reason : {x, y}]
=============================================================================
