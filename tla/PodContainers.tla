---------------------------- MODULE PodContainers ----------------------------
(***************************************************************************)
(* What the containers of the Pod run as and see (genpolicy.rs): security  *)
(* contexts, with the capabilities they add, and the names of their        *)
(* environment variables with who set them.  Values are left out but for   *)
(* the required configuration keys.                                        *)
(* In these functions d is a descriptor, e the process environment.        *)
(***************************************************************************)
EXTENDS SecurityProfile, SequencesExt

CONSTANTS ConfigKeys,  \* names that is_valid_config_key accepts
          NoKeys       \* no required keys; a word that assigns none

\* A text split at its commas.
KeyText == Seq(ConfigKeys \cup {"empty", "invalid"})
\* env: the value as a list of keys; words: what follows ENCLAVA_REQUIRED_CONFIG_KEYS= in a
\* word, up to a blank or ";".
OciRuntimeSpec ==
  [command : Seq(KeyText \cup {NoKeys}), args : Seq(KeyText \cup {NoKeys}),
   env : Seq([name : STRING, value : KeyText]),
   capabilities : Capabilities, security_context : SecurityContext]

-----------------------------------------------------------------------------
(* Security contexts.                                                      *)

Containers == {"web", "attestation-proxy", "tenant-ingress", "enclava-tools", "enclava-init"}

Context(user, group, readOnly, escalation, privileged, add) ==
  [run_as_user |-> user, run_as_group |-> group, read_only_root_fs |-> readOnly,
   allow_privilege_escalation |-> escalation, privileged |-> privileged, add |-> add]

HasLegacyUnsetSecurity(oci) ==
  /\ oci.security_context =
       [run_as_user |-> 0, run_as_group |-> 0, read_only_root_fs |-> FALSE,
        allow_privilege_escalation |-> FALSE, privileged |-> FALSE]
  /\ oci.capabilities = [add |-> <<>>, drop |-> <<>>]

AppSecurityContext(oci) ==
  LET sec == oci.security_context
  IN  IF HasLegacyUnsetSecurity(oci) THEN Context(10001, 10001, TRUE, FALSE, FALSE, <<>>)
      ELSE Context(sec.run_as_user, sec.run_as_group, sec.read_only_root_fs,
                   sec.allow_privilege_escalation, sec.privileged, oci.capabilities.add)

Cap(name) == [name |-> name, written |-> "upper"]
ProxyCaps == <<Cap("CHOWN"), Cap("MKNOD"), Cap("SYS_PTRACE")>>
Contexts(oci) ==
  [c \in Containers |->
     CASE c = "web"               -> AppSecurityContext(oci)
       [] c = "attestation-proxy" -> Context(0, 0, TRUE, FALSE, FALSE, ProxyCaps)
       [] c = "tenant-ingress"    -> Context(10002, 10002, FALSE, FALSE, FALSE, <<>>)
       [] c = "enclava-tools"     -> Context(0, 0, TRUE, FALSE, FALSE, <<>>)
       [] c = "enclava-init"      -> Context(0, 0, TRUE, TRUE, TRUE, <<Cap("$(privileged_caps)")>>)]

-----------------------------------------------------------------------------
(* The profiles, as the adapter recognises them for itself.                *)

PLATFORM_MANAGED_SSH_RELAY_CAPS == {"CHOWN", "DAC_OVERRIDE", "FOWNER", "SETGID", "SETUID"}

IsProfile(oci, readOnly, escalation, count, required) ==
  /\ oci.security_context =
       [run_as_user |-> 0, run_as_group |-> 0, read_only_root_fs |-> readOnly,
        allow_privilege_escalation |-> escalation, privileged |-> FALSE]
  /\ "ALL" \in CapNames(oci.capabilities.drop)
  /\ Len(oci.capabilities.add) = count
  /\ required \subseteq CapNames(oci.capabilities.add)

\* Mutant: whoever runs as root manages the configuration.
RootManagedByUser(oci) == oci.security_context.run_as_user = 0
UsesRootManagedConfig(oci) ==
  \/ IsProfile(oci, TRUE, FALSE, 5, PLATFORM_MANAGED_SSH_RELAY_CAPS)
  \/ IsProfile(oci, FALSE, TRUE, 6, ROOTFUL_SUDO_CAPS)

-----------------------------------------------------------------------------
(* Required configuration keys.                                            *)

NormalizeRequiredConfigKeys(text) ==
  LET keys == SelectSeq(text, LAMBDA k : k # "empty")
  IN  IF keys = <<>> \/ "invalid" \in Range(keys) THEN NoKeys ELSE keys

\* The first entry of the environment, if its value will do, else the first word that does.
RequiredConfigKeys(oci) ==
  LET words == oci.command \o oci.args
      entry == SelectInSeq(oci.env, LAMBDA v : v.name = "ENCLAVA_REQUIRED_CONFIG_KEYS")
      word  == SelectInSeq(words, LAMBDA w : w # NoKeys /\ NormalizeRequiredConfigKeys(w) # NoKeys)
      first == IF entry = 0 THEN NoKeys ELSE NormalizeRequiredConfigKeys(oci.env[entry].value)
  IN  CASE first # NoKeys -> first
        [] first = NoKeys /\ word # 0 -> NormalizeRequiredConfigKeys(words[word])
        [] OTHER -> NoKeys

-----------------------------------------------------------------------------
(* Environments.  Of two entries of one name the container sees the last.  *)

Var(name, by) == [name |-> name, by |-> by]
Platform(names) == [i \in DOMAIN names |-> Var(names[i], "platform")]
Also(condition, names) == IF condition THEN names ELSE <<>>

ServiceEnv ==
  <<"KUBERNETES_SERVICE_PORT", "KUBERNETES_SERVICE_PORT_HTTPS", "KUBERNETES_PORT",
    "KUBERNETES_PORT_443_TCP", "KUBERNETES_PORT_443_TCP_PROTO", "KUBERNETES_PORT_443_TCP_PORT",
    "KUBERNETES_PORT_443_TCP_ADDR", "KUBERNETES_SERVICE_HOST">>
LogEnv ==
  <<"ENCLAVA_LOG_ENCRYPTION_KEY_ID", "ENCLAVA_LOG_ORG_ID", "ENCLAVA_LOG_APP_NAME",
    "ENCLAVA_LOG_DEPLOYMENT_ID", "ENCLAVA_LOG_ENCRYPTION_PUBLIC_KEY_BASE64URL",
    "ENCLAVA_LOG_ENCRYPTION_PUBLIC_KEY_SHA256", "ENCLAVA_LOG_CONTAINER_NAME",
    "ENCLAVA_LOG_SPOOL_PATH">>

\* Mutant: what the descriptor sets comes last.
AppEnvFirst(oci, log) ==
  Platform(Also(log, LogEnv) \o ServiceEnv)
  \o [i \in DOMAIN oci.env |-> Var(oci.env[i].name, "descriptor")]
AppEnv(oci, log) ==
  [i \in DOMAIN oci.env |-> Var(oci.env[i].name, "descriptor")]
  \o Platform(Also(log, LogEnv) \o ServiceEnv)

ProxyEnv(d, e) ==
  Platform(
    <<"ATTESTATION_WORKLOAD_CONTAINER", "ATTESTATION_POD_NAME", "ATTESTATION_POD_NAMESPACE",
      "ATTESTATION_PROFILE", "ATTESTATION_RUNTIME_CLASS", "ATTESTATION_WORKLOAD_IMAGE",
      "ATTESTATION_BIND", "ATTESTATION_TLS_BIND", "ATTESTATION_TLS_PORT", "TEE_DOMAIN">>
    \o Also(d.api_signing_pubkey, <<"CAP_API_SIGNING_PUBKEY">>)
    \o <<"CAP_CONFIG_DIR", "CAP_CONFIG_READY_MARKER", "STORAGE_OWNERSHIP_MODE", "INSTANCE_ID",
         "OWNER_CIPHERTEXT_BACKEND", "OWNER_SEED_HANDOFF_SLOTS", "OWNERSHIP_MOUNT_PATH",
         "KBS_RESOURCE_URL", "KBS_RESOURCE_CACHE_SECONDS", "KBS_RESOURCE_FAILURE_CACHE_SECONDS",
         "KBS_FETCH_RETRIES", "KBS_FETCH_RETRY_SLEEP_SECONDS", "KBS_FETCH_MAX_SLEEP_SECONDS",
         "KBS_FETCH_REQUEST_TIMEOUT_SECONDS">>
    \o Also(~UsesRootManagedConfig(d.oci), <<"CAP_CONFIG_FILE_GID">>)
    \o Also(e.amd_kds_base_url, <<"AMD_KDS_BASE_URL">>)
    \o Also(RequiredConfigKeys(d.oci) # NoKeys, <<"CAP_CONFIG_REQUIRED_KEYS">>)
    \o <<"ENCLAVA_CONTAINER_NAME", "ENCLAVA_STARTED_DIR", "ENCLAVA_INIT_UNLOCK_SOCKET">>
    \o Also(d.independent_verification, <<"PROOF_TLS_CERT_PATH">>)
    \o Also(e.kbs_ca_cert, <<"KBS_RESOURCE_CA_CERT_PEM">>)
    \o ServiceEnv)

IngressEnv ==
  Platform(<<"POD_NAME", "POD_NAMESPACE", "CADDY_SEED_PATH", "VOLUME_MOUNT_POINT",
             "XDG_DATA_HOME", "XDG_CONFIG_HOME", "HOME", "ENCLAVA_CONTAINER_NAME",
             "ENCLAVA_STARTED_DIR", "ENCLAVA_INIT_READY_FILE">> \o ServiceEnv)

InitEnv(log) ==
  Platform(<<"ENCLAVA_INIT_CONFIG", "ENCLAVA_INIT_STAY_ALIVE", "ENCLAVA_INIT_READY_FILE",
             "ENCLAVA_INIT_STARTED_DIR", "ENCLAVA_INIT_UNLOCK_SOCKET_GID",
             "ENCLAVA_INIT_WAIT_FOR_CONTAINERS", "KBS_FETCH_RETRIES",
             "KBS_FETCH_RETRY_SLEEP_SECONDS", "KBS_FETCH_REQUEST_TIMEOUT_SECONDS">>
           \o Also(log, <<"ENCLAVA_LOG_RELAY_BIND", "ENCLAVA_LOG_RELAY_CONTAINER",
                          "ENCLAVA_LOG_RELAY_SPOOL_PATH">>)
           \o ServiceEnv)

Environments(d, log, e) ==
  [c \in Containers |-> CASE c = "web"               -> AppEnv(d.oci, log)
                          [] c = "attestation-proxy" -> ProxyEnv(d, e)
                          [] c = "tenant-ingress"    -> IngressEnv
                          [] c = "enclava-tools"     -> <<>>
                          [] c = "enclava-init"      -> InitEnv(log)]
=============================================================================
