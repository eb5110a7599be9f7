---------------------- MODULE MCAgentPolicyGeneration ----------------------
(* Inputs that vary in one respect from a sound one, with two rule files.  *)
EXTENDS AgentPolicyGeneration

Digest == {"d1", "d2"}

Memory256 == [name |-> "memory", mib |-> 256]
Memory512 == [name |-> "memory", mib |-> 512]
Cpu       == [name |-> "cpu", mib |-> NoMemory]

UserContext == [run_as_user |-> 1000, run_as_group |-> 1000, read_only_root_fs |-> FALSE,
                allow_privilege_escalation |-> FALSE, privileged |-> FALSE]
MCConfigKeys == {"DATABASE_URL", "TOKEN"}
SoundOci ==
  [command |-> <<>>, args |-> <<NoKeys>>, env |-> <<>>, security_context |-> UserContext,
   capabilities |-> [add |-> <<>>, drop |-> <<Cap("ALL")>>]]
SoundDescriptor ==
  [image_ref |-> "d1", image_digest |-> "d1", oci |-> SoundOci,
   independent_verification |-> FALSE, api_signing_pubkey |-> TRUE, unlock_mode |-> "auto", requests |-> <<Cpu, Memory256>>, limits |-> <<Cpu, Memory512>>]

OtherDescriptors ==
  {[SoundDescriptor EXCEPT !.oci.args = a, !.independent_verification = v] :
     a \in {<<>>, <<NoKeys>>}, v \in BOOLEAN}
  \cup {[SoundDescriptor EXCEPT !.image_ref = i] : i \in {"d2", NoDigest}}
  \cup {[SoundDescriptor EXCEPT !.unlock_mode = u] : u \in {"password", "other"}}
  \cup {[SoundDescriptor EXCEPT !.limits = l] :
          l \in {<<>>, <<Memory256>>, <<Memory256, Memory512>>, <<Memory512, Memory256>>,
                 <<Cpu, Cpu>>, <<[name |-> "memory", mib |-> NoMemory]>>}}
  \cup {[SoundDescriptor EXCEPT !.requests = <<Memory256, Memory512>>]}

Package == Text("package", "-")
Default == Text("default", "-")
Other   == Text("other", "-")
Check(k) == Text("check", k)

\* Kata's rules: every check once, those on mounts twice.
KataRules ==
  <<Package, Default, Check("count"), Check("mount"), Check("storage"), Check("fsgroup"), Other,
    Check("rootfs"), Check("sandbox"), Check("pidns"), Check("mount")>>
OtherRules ==
  {SelectSeq(KataRules, LAMBDA line : line.is # "default"), <<Default>> \o Tail(Tail(KataRules)),
   <<Package, Check("pidns"), Default, Check("storage"), Default>>,
   <<Package, Default, Other>>, <<Package, Check("count")>>, <<>>,
   <<Package, Default, Text("define", "mount"), Check("mount"), Text("use", "mount"),
     Check("storage"), Check("sandbox")>>}

SoundEnvironment == [tls |-> "acme", init_image |-> "pinned",
                     amd_kds_base_url |-> FALSE, kbs_ca_cert |-> FALSE]
SoundInput ==
  [descriptor |-> SoundDescriptor, log |-> TRUE, environment |-> SoundEnvironment,
   settings |-> "usable", extras |-> {"kubernetes-token", "resolv"}, dropIns |-> {},
   rules |-> KataRules, mentions |-> {},
   creds |-> "valid", public |-> TRUE, accepts |-> TRUE]

\* What only the rendering looks at; genpolicy is not asked any further.
Sudo == <<"CHOWN", "DAC_OVERRIDE", "FOWNER", "SETGID", "SETUID", "AUDIT_WRITE">>
Added == {[i \in 1..n |-> Cap(Sudo[i])] : n \in {0, 5, 6}}
         \cup {[i \in 1..7 |-> IF i = 7 THEN Cap("SYS_ADMIN") ELSE Cap(Sudo[i])],
               [i \in 1..6 |-> IF i = 6 THEN Cap("CHOWN") ELSE Cap(Sudo[i])],
               [i \in 1..6 |-> [name |-> Sudo[i], written |-> "lower"]]}
Secured ==
  {[SoundOci EXCEPT !.security_context = c, !.capabilities = [add |-> a, drop |-> r]] :
     c \in [run_as_user : {0, 1000}, run_as_group : {0}, read_only_root_fs : BOOLEAN,
            allow_privilege_escalation : BOOLEAN, privileged : BOOLEAN],
     a \in Added, r \in {<<>>, <<Cap("ALL")>>}}
Key(text) == [name |-> "ENCLAVA_REQUIRED_CONFIG_KEYS", value |-> text]
KeyTexts == {<<"TOKEN">>, <<"DATABASE_URL", "TOKEN">>, <<"empty">>, <<"TOKEN", "invalid">>}
Configured ==
  {[SoundOci EXCEPT !.env = v, !.command = w] :
     v \in {<<>>} \cup {<<Key(t)>> : t \in KeyTexts} \cup {<<Key(t), Key(<<"TOKEN">>)>> : t \in KeyTexts},
     w \in {<<>>, <<NoKeys, <<"TOKEN">>>>, <<<<"empty">>, <<"TOKEN", "DATABASE_URL">>>>}}
  \cup {[SoundOci EXCEPT !.env = <<[name |-> n, value |-> <<>>]>>] :
          n \in {"KUBERNETES_SERVICE_HOST", "ENCLAVA_LOG_SPOOL_PATH", "CAP_CONFIG_FILE_GID"}}
RenderedOnly ==
  {[SoundInput EXCEPT !.descriptor.oci = o, !.accepts = FALSE] : o \in Secured}
  \cup {[SoundInput EXCEPT !.descriptor.oci = o, !.log = l, !.accepts = FALSE] :
          o \in Configured, l \in BOOLEAN}
  \cup {[SoundInput EXCEPT !.environment.amd_kds_base_url = k, !.environment.kbs_ca_cert = c,
                          !.descriptor.api_signing_pubkey = s, !.accepts = FALSE] :
          k, c, s \in BOOLEAN}

MCInputs ==
  RenderedOnly \cup
  {[SoundInput EXCEPT !.descriptor = d, !.log = l] : d \in OtherDescriptors, l \in BOOLEAN}
  \cup {[SoundInput EXCEPT !.environment.tls = t] : t \in {"dns01-broker", "internal", "invalid"}}
  \cup {[SoundInput EXCEPT !.environment.init_image = i] : i \in {"unpinned", "unset"}}
  \cup {[SoundInput EXCEPT !.settings = s] : s \in {"none", "unreadable"}}
  \cup {[SoundInput EXCEPT !.extras = TokenDestinations, !.dropIns = d] :
           d \in {{}, {"kubernetes-token"}, {"azure-token", "resolv"}}}
  \cup {[SoundInput EXCEPT !.rules = r] : r \in OtherRules}
  \cup {[SoundInput EXCEPT !.mentions = {k}] : k \in {"pidns", "mount", "storage"}}
  \cup {[SoundInput EXCEPT !.creds = c, !.public = p, !.accepts = a] :
          c \in {"none", "valid", "rejected"}, p, a \in BOOLEAN}
=============================================================================
