--------------------- MODULE AgentPolicyGenerationProofs ---------------------
(***************************************************************************)
(* For any set of inputs: when a run fails in genpolicy; what the floor of *)
(* the service means for the Pod; that the Pod is closed and its shape     *)
(* agrees with its limit; and what the corrections make of any answer of   *)
(* genpolicy, never refusing the one for the Pod as rendered.              *)
(***************************************************************************)
EXTENDS AgentPolicyGeneration, CommonLemmas, FiniteSetTheorems

\* While the second call is due, the first has failed, and if the registry answered it
\* then for a reason that lies in the input.
FirstFailed == pc = "retry" /\ ~outage => ~Works(input.creds, TRUE)

IInv == outage \in BOOLEAN /\ FirstFailed /\ CredentialsOptional

-----------------------------------------------------------------------------
LEMMA InitIInv == Init => IInv
  BY DEF Init, IInv, FirstFailed, CredentialsOptional

\* Two calls that failed although the registry answered leave only the input to blame.
LEMMA CallsFailed ==
  ~Works(input.creds, TRUE) /\ ~Works("none", TRUE)
    => ~input.accepts \/ (~input.public /\ input.creds # "valid")
  BY DEF Works

\* A step that keeps the input and the history of outages, and goes neither to the
\* second call nor to a failure of genpolicy, keeps the invariant.
LEMMA Elsewhere ==
  ASSUME IInv, UNCHANGED <<input, outage>>,
         pc' # "retry", why' # "genpolicy"
  PROVE  IInv'
  BY DEF IInv, FirstFailed, CredentialsOptional

LEMMA StepIInv == IInv /\ [Next]_vars => IInv'
<1> SUFFICES ASSUME IInv, [Next]_vars PROVE IInv'
  OBVIOUS
<1> USE DEF IInv
<1>1. CASE Render
  <2>1. CASE Renders(input.descriptor, input.environment)
    BY <1>1, <2>1 DEF Render, FirstFailed, CredentialsOptional
  <2>2. CASE ~Renders(input.descriptor, input.environment)
    BY <1>1, <2>2, Elsewhere DEF Render, Fail
  <2> QED BY <2>1, <2>2
<1>2. CASE Prepare
  BY <1>2 DEF Prepare, Fail, FirstFailed, CredentialsOptional
<1>3. CASE IoError
  BY <1>3, Elsewhere DEF IoError, Fail
<1>4. CASE First
  <2>1. PICK reachable \in BOOLEAN :
          /\ outage' = (outage \/ ~reachable)
          /\ IF Works(input.creds, reachable) THEN Answered
             ELSE (pc' = "retry" /\ UNCHANGED why) /\ UNCHANGED <<output, data>>
          /\ UNCHANGED <<input, extras, rules, row>>
    BY <1>4 DEF First, Call
  <2>2. UNCHANGED why
    BY <2>1 DEF Answered
  <2>3. outage' \in BOOLEAN /\ (~outage' => ~outage /\ reachable = TRUE)
    BY <2>1
  <2>4. CredentialsOptional'
    BY <2>1, <2>2, <2>3 DEF CredentialsOptional
  <2>5. CASE Works(input.creds, reachable)
    <3>1. pc' = "parse"
      BY <2>1, <2>5 DEF Answered
    <3> QED BY <2>3, <2>4, <3>1 DEF FirstFailed
  <2>6. CASE ~Works(input.creds, reachable)
    <3>1. ~outage' => ~Works(input.creds, TRUE)
      BY <2>3, <2>6
    <3>2. input' = input
      BY <2>1
    <3> QED BY <2>3, <2>4, <3>1, <3>2 DEF FirstFailed, Works
  <2> QED BY <2>5, <2>6
<1>5. CASE Retry
  <2>1. PICK reachable \in BOOLEAN :
          /\ outage' = (outage \/ ~reachable)
          /\ IF Works("none", reachable) THEN Answered
             ELSE Fail("genpolicy") /\ UNCHANGED <<output, data>>
          /\ UNCHANGED <<input, extras, rules, row>>
    BY <1>5 DEF Retry, Call
  <2>2. outage' \in BOOLEAN /\ (~outage' => ~outage /\ reachable = TRUE)
    BY <2>1
  <2>3. CASE Works("none", reachable)
    <3>1. pc' = "parse" /\ UNCHANGED why
      BY <2>1, <2>3 DEF Answered
    <3> QED BY <2>1, <2>2, <3>1 DEF FirstFailed, CredentialsOptional
  <2>4. CASE ~Works("none", reachable)
    <3>1. pc' = "failed" /\ input' = input
      BY <2>1, <2>4 DEF Fail
    <3>2. ~outage' => ~Works(input.creds, TRUE) /\ ~Works("none", TRUE)
      BY <1>5, <2>2, <2>4 DEF Retry, FirstFailed
    <3> QED BY <2>2, <3>1, <3>2, CallsFailed DEF FirstFailed, CredentialsOptional
  <2> QED BY <2>3, <2>4
<1>6. CASE Parse
  BY <1>6 DEF Parse, Fail, FirstFailed, CredentialsOptional
<1>7. CASE Correct
  <2>1. pc' # "retry" /\ (why' = why \/ why' = "shape") /\ UNCHANGED <<input, outage>>
    BY <1>7 DEF Correct, Advance, Fail
  <2> QED BY <2>1 DEF FirstFailed, CredentialsOptional
<1>8. CASE RelaxRow
  <2>1. pc' # "retry" /\ UNCHANGED <<input, outage, why>>
    BY <1>8 DEF RelaxRow, Advance
  <2> QED BY <2>1 DEF FirstFailed, CredentialsOptional
<1>9. CASE Label
  BY <1>9 DEF Label, FirstFailed, CredentialsOptional
<1>10. CASE UNCHANGED vars
  BY <1>10 DEF vars, FirstFailed, CredentialsOptional, Works
<1> QED BY <1>1, <1>2, <1>3, <1>4, <1>5, <1>6, <1>7, <1>8, <1>9, <1>10 DEF Next

\* Whatever the descriptor, the rules and genpolicy's answers: with a registry that
\* always answers, only an objection of genpolicy, or a private image that the
\* credentials do not open, fails a run in genpolicy.
THEOREM CredentialsCorrect == Spec => []CredentialsOptional
<1>1. IInv => CredentialsOptional
  BY DEF IInv
<1> QED BY InitIInv, StepIInv, <1>1, PTL DEF Spec

-----------------------------------------------------------------------------
\* The input of a run is one of those it may start from.
InputGiven == input \in Inputs
LEMMA InputKept == Spec => []InputGiven
<1>1. Init => InputGiven
  BY DEF Init, InputGiven
<1>2. InputGiven /\ [Next]_vars => InputGiven'
  BY DEF InputGiven, Next, vars, Render, Prepare, IoError, First, Retry, Call, Parse, Correct, RelaxRow, Label
<1> QED BY <1>1, <1>2, PTL DEF Spec

\* The record of oci_runtime_spec has the parts that the tests look at.
LEMMA SpecParts ==
  ASSUME NEW i \in Inputs
  PROVE  /\ i.descriptor.oci.capabilities \in Capabilities
         /\ i.descriptor.oci.security_context \in SecurityContext
  BY InputsAssumption DEF Input, Descriptor, OciRuntimeSpec

\* Under the floor, the application's container is not privileged, and gains privileges as
\* root with the rootful-sudo capabilities only.
LEMMA AppConfined ==
  ASSUME NEW i \in Inputs, SecurityFloor(i.descriptor.oci)
  PROVE  LET context == AppSecurityContext(i.descriptor.oci)
         IN  /\ ~context.privileged
             /\ context.allow_privilege_escalation =>
                  context.run_as_user = 0 /\ ExactlySudo(context.add)
<1> DEFINE oci == i.descriptor.oci
           sec == oci.security_context
<1>1. CASE HasLegacyUnsetSecurity(oci)
  <2>1. AppSecurityContext(oci) = Context(10001, 10001, TRUE, FALSE, FALSE, <<>>)
    BY <1>1 DEF AppSecurityContext
  <2> QED BY <2>1 DEF Context
<1>2. CASE ~HasLegacyUnsetSecurity(oci)
  <2>1. AppSecurityContext(oci) =
          Context(sec.run_as_user, sec.run_as_group, sec.read_only_root_fs,
                  sec.allow_privilege_escalation, sec.privileged, oci.capabilities.add)
    BY <1>2 DEF AppSecurityContext
  <2>2. sec.allow_privilege_escalation => UsesRootfulSudo(oci)
    BY DEF SecurityFloor
  <2>3. UsesRootfulSudo(oci) =>
          sec.run_as_user = 0 /\ CapabilitiesMatchRootfulSudo(oci.capabilities)
    BY DEF UsesRootfulSudo
  <2>4. CapabilitiesMatchRootfulSudo(oci.capabilities) => ExactlySudo(oci.capabilities.add)
    BY SpecParts, SudoExact
  <2>5. /\ AppSecurityContext(oci).privileged = sec.privileged
        /\ AppSecurityContext(oci).allow_privilege_escalation = sec.allow_privilege_escalation
        /\ AppSecurityContext(oci).run_as_user = sec.run_as_user
        /\ AppSecurityContext(oci).add = oci.capabilities.add
    BY <2>1 DEF Context
  <2>6. ~sec.privileged
    BY DEF SecurityFloor
  <2> QED BY <2>2, <2>3, <2>4, <2>5, <2>6
<1> QED BY <1>1, <1>2

\* A descriptor that the service may sign for has a Pod in which only enclava-init is
\* privileged, and in which the application alone can gain privileges, as rootful sudo.
THEOREM PrivilegeCorrect == Spec => []PrivilegeConfined
<1>1. InputGiven => PrivilegeConfined
  <2> SUFFICES ASSUME input \in Inputs, Signable, NEW c \in Containers \ {"enclava-init"}
               PROVE  LET context == TheManifest.contexts[c]
                      IN  /\ ~context.privileged
                          /\ context.allow_privilege_escalation =>
                               c = "web" /\ context.run_as_user = 0 /\ ExactlySudo(context.add)
    BY DEF InputGiven, PrivilegeConfined
  <2>1. TheManifest.contexts[c] = Contexts(input.descriptor.oci)[c]
    BY DEF TheManifest, Manifest
  <2>2. CASE c = "web"
    <3>1. TheManifest.contexts[c] = AppSecurityContext(input.descriptor.oci)
      BY <2>1, <2>2 DEF Contexts, Containers
    <3> QED BY <2>2, <3>1, AppConfined DEF Signable
  <2>3. CASE c # "web"
    <3>1. ~Contexts(input.descriptor.oci)[c].privileged
          /\ ~Contexts(input.descriptor.oci)[c].allow_privilege_escalation
      BY <2>3 DEF Contexts, Containers, Context
    <3> QED BY <2>1, <3>1
  <2> QED BY <2>2, <2>3
<1> QED BY InputKept, <1>1, PTL

-----------------------------------------------------------------------------
\* A mount of a container is one of those that its function names.
LEMMA MountsOf ==
  ASSUME NEW d, NEW log, NEW c \in Containers, NEW m \in Mounts(d, log)[c]
  PROVE  \/ c = "web" /\ m \in AppMounts(d, log)
         \/ c = "attestation-proxy" /\ m \in ProxyMounts(d)
         \/ c = "tenant-ingress" /\ m \in IngressMounts
         \/ c = "enclava-tools" /\ m \in ToolsMounts(log)
         \/ c = "enclava-init" /\ m \in InitMounts(log)
  BY DEF Mounts, Containers

\* What a container's mounts are of is declared.
LEMMA MountsDeclared ==
  ASSUME NEW d, NEW log, NEW c \in Containers, NEW m \in Mounts(d, log)[c]
  PROVE  m.volume \in MemoryVolumes(log) \cup ConfigMaps(d)
<1> USE DEF Mount, ReadOnly, Writable, FromHost, BothWays, When
<1>1. ASSUME m \in AppMounts(d, log) PROVE m.volume \in MemoryVolumes(log) \cup ConfigMaps(d)
  BY <1>1 DEF AppMounts, MemoryVolumes, ConfigMaps
<1>2. ASSUME m \in ProxyMounts(d) PROVE m.volume \in MemoryVolumes(log) \cup ConfigMaps(d)
  BY <1>2 DEF ProxyMounts, MemoryVolumes, ConfigMaps
<1>3. ASSUME m \in IngressMounts PROVE m.volume \in MemoryVolumes(log) \cup ConfigMaps(d)
  BY <1>3 DEF IngressMounts, MemoryVolumes, ConfigMaps
<1>4. ASSUME m \in ToolsMounts(log) PROVE m.volume \in MemoryVolumes(log) \cup ConfigMaps(d)
  BY <1>4 DEF ToolsMounts, MemoryVolumes, ConfigMaps
<1>5. ASSUME m \in InitMounts(log) PROVE m.volume \in MemoryVolumes(log) \cup ConfigMaps(d)
  BY <1>5 DEF InitMounts, MemoryVolumes, ConfigMaps
<1> QED BY <1>1, <1>2, <1>3, <1>4, <1>5, MountsOf

\* A mount's path is the path it was given.
LEMMA PathGiven ==
  \A volume, path : /\ ReadOnly(volume, path).path = path /\ Writable(volume, path).path = path
                    /\ FromHost(volume, path).path = path /\ BothWays(volume, path).path = path
  BY DEF Mount, ReadOnly, Writable, FromHost, BothWays

\* Two mounts of a container are at different paths.
LEMMA PathsApart ==
  ASSUME NEW d, NEW log, NEW c \in Containers,
         NEW m \in Mounts(d, log)[c], NEW n \in Mounts(d, log)[c], m.path = n.path
  PROVE  m = n
<1> USE PathGiven DEF When
<1>1. ASSUME m \in AppMounts(d, log), n \in AppMounts(d, log) PROVE m = n
  BY <1>1 DEF AppMounts
<1>2. ASSUME m \in ProxyMounts(d), n \in ProxyMounts(d) PROVE m = n
  BY <1>2 DEF ProxyMounts
<1>3. ASSUME m \in IngressMounts, n \in IngressMounts PROVE m = n
  BY <1>3 DEF IngressMounts
<1>4. ASSUME m \in ToolsMounts(log), n \in ToolsMounts(log) PROVE m = n
  BY <1>4 DEF ToolsMounts
<1>5. ASSUME m \in InitMounts(log), n \in InitMounts(log) PROVE m = n
  BY <1>5 DEF InitMounts
<1> QED BY <1>1, <1>2, <1>3, <1>4, <1>5, MountsOf

\* What a command names is mounted.
LEMMA CommandsMounted ==
  ASSUME NEW d, NEW log, NEW e, NEW c \in Containers, NEW p \in Commands(d, log, e)[c]
  PROVE  \E m \in Mounts(d, log)[c] : m.path = p /\ (c = "enclava-tools" => ~m.readOnly)
<1> USE DEF Mount, ReadOnly, Writable, FromHost, BothWays, When
<1>1. CASE c = "web"
  <2>1. p = "/enclava-tools" /\ ReadOnly("enclava-tools", p) \in Mounts(d, log)[c]
    BY <1>1 DEF Commands, Mounts, Containers, AppMounts
  <2> QED BY <1>1, <2>1
<1>2. CASE c = "tenant-ingress"
  <2>1. p \in {"/enclava-tools", "/etc/caddy", "/run/enclava"} /\ Mounts(d, log)[c] = IngressMounts
    BY <1>2 DEF Commands, Mounts, Containers
  <2>2. \E m \in IngressMounts : m.path = p
    BY <2>1 DEF IngressMounts
  <2> QED BY <1>2, <2>1, <2>2
<1>3. CASE c = "enclava-tools"
  <2>1. /\ p \in {"/work", "/run/enclava", "/run/enclava-logs"}
        /\ p = "/run/enclava-logs" => log
        /\ Mounts(d, log)[c] = ToolsMounts(log)
    BY <1>3 DEF Commands, Mounts, Containers
  <2>2. \E m \in ToolsMounts(log) : m.path = p /\ ~m.readOnly
    <3>1. /\ Writable("enclava-tools", "/work") \in ToolsMounts(log)
          /\ Writable("unlock-socket", "/run/enclava") \in ToolsMounts(log)
          /\ log => Writable("logs", "/run/enclava-logs") \in ToolsMounts(log)
      BY DEF ToolsMounts
    <3> QED BY <2>1, <3>1
  <2> QED BY <1>3, <2>1, <2>2
<1>4. CASE c \in {"attestation-proxy", "enclava-init"}
  BY <1>4 DEF Commands, Containers
<1> QED BY <1>1, <1>2, <1>3, <1>4 DEF Containers

\* Whatever the descriptor and the environment: the Pod declares each volume that it
\* mounts, once, mounts no two at one path, and mounts what its commands name.
THEOREM ManifestCorrect == Spec => []ManifestClosed
<1>1. ManifestClosed
  <2> DEFINE d == input.descriptor
             log == input.log
             e == input.environment
  <2>1. /\ TheManifest.memory = MemoryVolumes(log) /\ TheManifest.maps = ConfigMaps(d)
        /\ TheManifest.mounts = Mounts(d, log) /\ TheManifest.commands = Commands(d, log, e)
    BY DEF TheManifest, Manifest
  <2>2. MemoryVolumes(log) \cap ConfigMaps(d) = {}
    BY DEF MemoryVolumes, ConfigMaps, When
  <2>3. \A c \in Containers :
          /\ \A m \in Mounts(d, log)[c] : m.volume \in MemoryVolumes(log) \cup ConfigMaps(d)
          /\ \A m, n \in Mounts(d, log)[c] : m.path = n.path => m = n
          /\ \A p \in Commands(d, log, e)[c] :
               \E m \in Mounts(d, log)[c] : m.path = p /\ (c = "enclava-tools" => ~m.readOnly)
    BY MountsDeclared, PathsApart, CommandsMounted
  <2> HIDE DEF d, log, e
  <2> QED BY <2>1, <2>2, <2>3 DEF ManifestClosed
<1> QED BY <1>1, PTL

-----------------------------------------------------------------------------
\* With names that do not repeat, the first memory limit is the last.
LEMMA OneMemory ==
  ASSUME NEW list \in Seq(Entry), UniqueNames(list)
  PROVE  FirstMemory(list) = LastMemory(list)
<1>1. CASE Memory(list) = {}
  BY <1>1 DEF FirstMemory, LastMemory
<1>2. CASE Memory(list) # {}
  <2>1. PICK k \in Memory(list) : TRUE
    BY <1>2
  <2>2. Memory(list) = {k} /\ k \in Nat
    BY <2>1 DEF Memory, UniqueNames
  <2>3. k <= k
    BY <2>2
  <2>4. (CHOOSE i \in Memory(list) : \A j \in Memory(list) : i <= j) = k
    BY <2>2, <2>3
  <2>5. (CHOOSE i \in Memory(list) : \A j \in Memory(list) : j <= i) = k
    BY <2>2, <2>3
  <2>6. FirstMemory(list) = list[k].mib
    BY <1>2, <2>4, Zenon DEF FirstMemory
  <2>7. LastMemory(list) = list[k].mib
    BY <1>2, <2>5, Zenon DEF LastMemory
  <2> QED BY <2>6, <2>7
<1> QED BY <1>1, <1>2

\* A Pod is written only for what renders.
Rendered == pc = "prepare" => Renders(input.descriptor, input.environment)

\* The size of the virtual machine and the memory limit in the Pod agree, although they
\* are read from different ends of the list.
THEOREM ShapeCorrect == Spec => []ShapeMatches
<1>1. Init => Rendered
  BY DEF Init, Rendered
<1>2. Rendered /\ [Next]_vars => Rendered'
  <2> SUFFICES ASSUME Rendered, [Next]_vars, pc' = "prepare"
               PROVE  Renders(input.descriptor, input.environment)'
    BY DEF Rendered
  <2>1. CASE Render
    BY <2>1 DEF Render, Fail
  <2>2. CASE UNCHANGED vars
    BY <2>2 DEF vars, Rendered
  <2>3. CASE Prepare \/ IoError \/ First \/ Retry \/ Parse \/ Correct \/ RelaxRow \/ Label
    BY <2>3 DEF Prepare, IoError, Fail, First, Retry, Call, Answered, Parse, Correct, Advance, RelaxRow, Label
  <2> QED BY <2>1, <2>2, <2>3 DEF Next
<1>3. InputGiven /\ Rendered => ShapeMatches
  <2> SUFFICES ASSUME input \in Inputs, Renders(input.descriptor, input.environment)
               PROVE  TheManifest.vm = "1536" <=> Below(TheManifest.limit)
    BY DEF InputGiven, Rendered, ShapeMatches
  <2>1. input.descriptor.limits \in Seq(Entry)
    BY InputsAssumption DEF Input, Descriptor
  <2>2. FirstMemory(input.descriptor.limits) = LastMemory(input.descriptor.limits)
    BY <2>1, OneMemory DEF Renders
  <2> QED BY <2>2 DEF TheManifest, Manifest, SmallShape
<1> QED BY InputKept, <1>1, <1>2, <1>3, PTL DEF Spec

-----------------------------------------------------------------------------
(* The table of the corrections against the mounts of the manifest.        *)

\* What the rows of the table say.
LEMMA TableRows ==
  /\ Len(Table) = 7
  /\ Table[1] = Row("web", "state-mount", "/state", "rslave", TRUE)
  /\ Table[2] = Row("web", "logs", "/run/enclava-logs", "rslave", FALSE)
  /\ Table[3] = Row("attestation-proxy", "state-mount", "/data", "rslave", TRUE)
  /\ Table[4] = Row("attestation-proxy", "state-mount", "/state", "rslave", TRUE)
  /\ Table[5] = Row("enclava-init", "state-mount", "/state", "rshared", TRUE)
  /\ Table[6] = Row("enclava-init", "tls-state-mount", "/state/tls-state", "rshared", TRUE)
  /\ Table[7] = Row("enclava-init", "logs", "/run/enclava-logs", "rshared", FALSE)
  BY DEF Table

\* A row is for a mount of a container at a path, and no two rows are for the same.
IsFor(r, m) == m.container = r.container /\ m.destination = r.destination
LEMMA RowsApart ==
  ASSUME NEW i \in 1..7, NEW j \in 1..7, NEW m, IsFor(Table[i], m), IsFor(Table[j], m)
  PROVE  i = j
<1>1. /\ Table[1].container = "web" /\ Table[1].destination = "/state"
      /\ Table[2].container = "web" /\ Table[2].destination = "/run/enclava-logs"
      /\ Table[3].container = "attestation-proxy" /\ Table[3].destination = "/data"
      /\ Table[4].container = "attestation-proxy" /\ Table[4].destination = "/state"
      /\ Table[5].container = "enclava-init" /\ Table[5].destination = "/state"
      /\ Table[6].container = "enclava-init" /\ Table[6].destination = "/state/tls-state"
      /\ Table[7].container = "enclava-init" /\ Table[7].destination = "/run/enclava-logs"
  BY TableRows DEF Row
<1>2. i \in {1, 2, 3, 4, 5, 6, 7} /\ j \in {1, 2, 3, 4, 5, 6, 7}
  OBVIOUS
<1>3. Table[i].container = Table[j].container /\ Table[i].destination = Table[j].destination
  BY DEF IsFor
<1> QED BY <1>1, <1>2, <1>3

\* How the manifest asks for what a row calls its propagation.
Asked(r) == IF r.propagation = "rslave" THEN "HostToContainer" ELSE "Bidirectional"

\* A row is for a mount that the manifest declares writable, of a Memory volume, with that
\* propagation; or for the log mount of a Pod without one.
LEMMA RowMounts ==
  ASSUME NEW d, NEW log \in BOOLEAN, NEW i \in 1..7
  PROVE  LET r == Table[i]
         IN  /\ r.container \in Containers
             /\ \/ \E m \in Mounts(d, log)[r.container] :
                     /\ m.path = r.destination /\ m.volume = r.volume /\ ~m.readOnly
                     /\ m.propagation = Asked(r) /\ m.volume \in MemoryVolumes(log)
                \/ /\ ~r.required /\ ~log
                   /\ \A m \in Mounts(d, log)[r.container] : m.path # r.destination
<1> DEFINE r == Table[i]
           Of1(m) == /\ m.path = r.destination /\ m.volume = r.volume /\ ~m.readOnly
                     /\ m.propagation = Asked(r) /\ m.volume \in MemoryVolumes(log)
<1>1. CASE i = 1
  <2>1. FromHost("state-mount", "/state") \in AppMounts(d, log)
    BY DEF AppMounts
  <2>2. r = Row("web", "state-mount", "/state", "rslave", TRUE)
    BY <1>1, TableRows
  <2>3. Mounts(d, log)["web"] = AppMounts(d, log) /\ r.container = "web" /\ "web" \in Containers
    BY <2>2 DEF Mounts, Containers, Row
  <2>4. Of1(FromHost("state-mount", "/state"))
    BY <2>2 DEF Row, FromHost, Mount, Asked, MemoryVolumes
  <2> QED BY <2>1, <2>3, <2>4
<1>2. CASE i = 2
  <2>1. log => FromHost("logs", "/run/enclava-logs") \in AppMounts(d, log)
    BY DEF AppMounts, When
  <2>2. r = Row("web", "logs", "/run/enclava-logs", "rslave", FALSE)
    BY <1>2, TableRows
  <2>3. Mounts(d, log)["web"] = AppMounts(d, log) /\ r.container = "web" /\ "web" \in Containers
    BY <2>2 DEF Mounts, Containers, Row
  <2>4. log => Of1(FromHost("logs", "/run/enclava-logs"))
    BY <2>2 DEF Row, FromHost, Mount, Asked, MemoryVolumes, When
  <2>5. ~log => \A m \in AppMounts(d, log) : m.path # "/run/enclava-logs"
    BY PathGiven DEF AppMounts, When
  <2>6. ~r.required /\ r.destination = "/run/enclava-logs"
    BY <2>2 DEF Row
  <2> QED BY <2>1, <2>3, <2>4, <2>5, <2>6
<1>3. CASE i \in {3, 4}
  <2>1. r.destination \in {"/data", "/state"}
        /\ r = Row("attestation-proxy", "state-mount", r.destination, "rslave", TRUE)
    <3>1. CASE i = 3
      <4>1. r = Row("attestation-proxy", "state-mount", "/data", "rslave", TRUE)
        BY <3>1, TableRows
      <4>2. r.destination = "/data"
        BY <4>1 DEF Row
      <4> QED BY <4>1, <4>2
    <3>2. CASE i = 4
      <4>1. r = Row("attestation-proxy", "state-mount", "/state", "rslave", TRUE)
        BY <3>2, TableRows
      <4>2. r.destination = "/state"
        BY <4>1 DEF Row
      <4> QED BY <4>1, <4>2
    <3> QED BY <1>3, <3>1, <3>2
  <2>2. FromHost("state-mount", r.destination) \in ProxyMounts(d)
    BY <2>1 DEF ProxyMounts
  <2>3. /\ Mounts(d, log)["attestation-proxy"] = ProxyMounts(d)
        /\ r.container = "attestation-proxy" /\ "attestation-proxy" \in Containers
    BY <2>1 DEF Mounts, Containers, Row
  <2>4. r.volume = "state-mount" /\ r.propagation = "rslave"
    BY <2>1 DEF Row
  <2>5. Of1(FromHost("state-mount", r.destination))
    BY <2>4 DEF FromHost, Mount, Asked, MemoryVolumes
  <2>6. \E m \in ProxyMounts(d) : Of1(m)
    BY <2>2, <2>5
  <2>7. r.container \in Containers /\ \E m \in Mounts(d, log)[r.container] : Of1(m)
    BY <2>3, <2>6
  <2> QED BY <2>7
<1>4. CASE i \in {5, 6}
  <2>1. /\ <<r.volume, r.destination>> \in
              {<<"state-mount", "/state">>, <<"tls-state-mount", "/state/tls-state">>}
        /\ r = Row("enclava-init", r.volume, r.destination, "rshared", TRUE)
    <3>1. CASE i = 5
      <4>1. r = Row("enclava-init", "state-mount", "/state", "rshared", TRUE)
        BY <3>1, TableRows
      <4>2. r.volume = "state-mount" /\ r.destination = "/state"
        BY <4>1 DEF Row
      <4> QED BY <4>1, <4>2
    <3>2. CASE i = 6
      <4>1. r = Row("enclava-init", "tls-state-mount", "/state/tls-state", "rshared", TRUE)
        BY <3>2, TableRows
      <4>2. r.volume = "tls-state-mount" /\ r.destination = "/state/tls-state"
        BY <4>1 DEF Row
      <4> QED BY <4>1, <4>2
    <3> QED BY <1>4, <3>1, <3>2
  <2>2. BothWays(r.volume, r.destination) \in InitMounts(log)
    BY <2>1 DEF InitMounts
  <2>3. /\ Mounts(d, log)["enclava-init"] = InitMounts(log)
        /\ r.container = "enclava-init" /\ "enclava-init" \in Containers
    BY <2>1 DEF Mounts, Containers, Row
  <2>4. r.volume \in {"state-mount", "tls-state-mount"} /\ r.propagation = "rshared"
    BY <2>1 DEF Row
  <2>5. Of1(BothWays(r.volume, r.destination))
    BY <2>4 DEF BothWays, Mount, Asked, MemoryVolumes
  <2>6. \E m \in InitMounts(log) : Of1(m)
    BY <2>2, <2>5
  <2>7. r.container \in Containers /\ \E m \in Mounts(d, log)[r.container] : Of1(m)
    BY <2>3, <2>6
  <2> QED BY <2>7
<1>5. CASE i = 7
  <2>1. log => BothWays("logs", "/run/enclava-logs") \in InitMounts(log)
    BY DEF InitMounts, When
  <2>2. r = Row("enclava-init", "logs", "/run/enclava-logs", "rshared", FALSE)
    BY <1>5, TableRows
  <2>3. /\ Mounts(d, log)["enclava-init"] = InitMounts(log)
        /\ r.container = "enclava-init" /\ "enclava-init" \in Containers
    BY <2>2 DEF Mounts, Containers, Row
  <2>4. log => Of1(BothWays("logs", "/run/enclava-logs"))
    BY <2>2 DEF Row, BothWays, Mount, Asked, MemoryVolumes, When
  <2>5. ~log => \A m \in InitMounts(log) : m.path # "/run/enclava-logs"
    BY PathGiven DEF InitMounts, When
  <2>6. ~r.required /\ r.destination = "/run/enclava-logs"
    BY <2>2 DEF Row
  <2> QED BY <2>1, <2>3, <2>4, <2>5, <2>6
<1> QED BY <1>1, <1>2, <1>3, <1>4, <1>5

\* Every mount with a propagation has its row, and no path is one of the settings' mounts.
LEMMA PropagatedMounts ==
  ASSUME NEW d, NEW log \in BOOLEAN, NEW c \in Containers, NEW m \in Mounts(d, log)[c]
  PROVE  /\ m.propagation # "None" =>
              \E i \in 1..7 : Table[i].container = c /\ Table[i].destination = m.path
         /\ m.propagation \in {"None", "HostToContainer", "Bidirectional"}
         /\ m.path \notin Destinations
<1> USE DEF Mount, ReadOnly, Writable, FromHost, BothWays, When, Destinations, TokenDestinations
<1>1. ASSUME m \in AppMounts(d, log)
      PROVE  /\ m.propagation # "None" => m.path \in {"/state", "/run/enclava-logs"}
             /\ m.propagation \in {"None", "HostToContainer", "Bidirectional"}
             /\ m.path \notin Destinations
  BY <1>1 DEF AppMounts
<1>2. ASSUME m \in ProxyMounts(d)
      PROVE  /\ m.propagation # "None" => m.path \in {"/state", "/data"}
             /\ m.propagation \in {"None", "HostToContainer", "Bidirectional"}
             /\ m.path \notin Destinations
  BY <1>2 DEF ProxyMounts
<1>3. ASSUME m \in IngressMounts \/ m \in ToolsMounts(log)
      PROVE  m.propagation = "None" /\ m.path \notin Destinations
  BY <1>3 DEF IngressMounts, ToolsMounts
<1>4. ASSUME m \in InitMounts(log)
      PROVE  /\ m.propagation # "None" => m.path \in {"/state", "/state/tls-state", "/run/enclava-logs"}
             /\ m.propagation \in {"None", "HostToContainer", "Bidirectional"}
             /\ m.path \notin Destinations
  BY <1>4 DEF InitMounts
<1>5. /\ \A p \in {"/state", "/run/enclava-logs"} :
           \E i \in 1..7 : Table[i].container = "web" /\ Table[i].destination = p
      /\ \A p \in {"/state", "/data"} :
           \E i \in 1..7 : Table[i].container = "attestation-proxy" /\ Table[i].destination = p
      /\ \A p \in {"/state", "/state/tls-state", "/run/enclava-logs"} :
           \E i \in 1..7 : Table[i].container = "enclava-init" /\ Table[i].destination = p
  <2>1. /\ {1, 2, 3, 4, 5, 6, 7} \subseteq 1..7
        /\ Table[1].container = "web" /\ Table[1].destination = "/state"
        /\ Table[2].container = "web" /\ Table[2].destination = "/run/enclava-logs"
        /\ Table[3].container = "attestation-proxy" /\ Table[3].destination = "/data"
        /\ Table[4].container = "attestation-proxy" /\ Table[4].destination = "/state"
        /\ Table[5].container = "enclava-init" /\ Table[5].destination = "/state"
        /\ Table[6].container = "enclava-init" /\ Table[6].destination = "/state/tls-state"
        /\ Table[7].container = "enclava-init" /\ Table[7].destination = "/run/enclava-logs"
    BY TableRows DEF Row
  <2> QED BY <2>1
<1> QED BY <1>1, <1>2, <1>3, <1>4, <1>5, MountsOf

-----------------------------------------------------------------------------
(* genpolicy's answers.                                                    *)

\* The fields of a mount, and of the data of a policy.
IsMount(m) ==
  m = [container |-> m.container, copy |-> m.copy, destination |-> m.destination,
       type |-> m.type, source |-> m.source, options |-> m.options]
IsPolicy(p) ==
  p = [wellformed |-> p.wellformed, caps |-> p.caps, containers |-> p.containers,
       mounts |-> p.mounts]

\* A field of a mount that is replaced leaves the mount where it is.
SamePlace(m, n) == m.container = n.container /\ m.destination = n.destination
LEMMA StaysInPlace ==
  ASSUME NEW m, IsMount(m), NEW x
  PROVE  /\ IsMount([m EXCEPT !.options[2] = x]) /\ SamePlace([m EXCEPT !.options[2] = x], m)
         /\ IsMount([m EXCEPT !.options = x]) /\ SamePlace([m EXCEPT !.options = x], m)
         /\ IsMount([m EXCEPT !.copy = x]) /\ SamePlace([m EXCEPT !.copy = x], m)
         /\ IsMount([m EXCEPT !.type = x]) /\ SamePlace([m EXCEPT !.type = x], m)
         /\ IsMount([m EXCEPT !.source.kind = x]) /\ SamePlace([m EXCEPT !.source.kind = x], m)
  BY DEF IsMount, SamePlace

\* Where the Pod, or the settings, have a mount.
At(d, log, more, m) ==
  /\ m.container \in Containers
  /\ m.destination \in more \/ \E n \in Mounts(d, log)[m.container] : n.path = m.destination

\* The policy of the Pod has mounts in those places.
LEMMA PolicyMounts ==
  ASSUME NEW d, NEW log, NEW e, NEW more, NEW m \in PolicyOf(Manifest(d, log, e), more).mounts
  PROVE  IsMount(m) /\ At(d, log, more, m)
<1>1. Manifest(d, log, e).mounts = Mounts(d, log)
  BY DEF Manifest
<1>2. \/ \E c \in Containers : \E n \in Mounts(d, log)[c] : m = MountOf(c, n, Manifest(d, log, e))
      \/ \E c \in Containers : \E x \in more : m = ExtraMount(c, x)
  BY <1>1 DEF PolicyOf
<1>3. ASSUME NEW c \in Containers, NEW n \in Mounts(d, log)[c],
             m = MountOf(c, n, Manifest(d, log, e))
      PROVE  IsMount(m) /\ At(d, log, more, m)
  BY <1>3 DEF MountOf, IsMount, At
<1>4. ASSUME NEW c \in Containers, NEW x \in more, m = ExtraMount(c, x)
      PROVE  IsMount(m) /\ At(d, log, more, m)
  BY <1>4 DEF ExtraMount, IsMount, At
<1> QED BY <1>2, <1>3, <1>4

\* A changed field of a policy's data.
LEMMA PolicyParts ==
  ASSUME NEW p, IsPolicy(p), NEW x, NEW y
  PROVE  /\ IsPolicy([p EXCEPT !.wellformed = x]) /\ [p EXCEPT !.wellformed = x].mounts = p.mounts
         /\ IsPolicy([p EXCEPT !.caps = x]) /\ [p EXCEPT !.caps = x].mounts = p.mounts
         /\ [p EXCEPT !.caps = x].caps = x /\ [p EXCEPT !.caps = x].containers = p.containers
         /\ IsPolicy([p EXCEPT !.containers = x])
         /\ IsPolicy([p EXCEPT !.mounts = y]) /\ [p EXCEPT !.mounts = y].mounts = y
         /\ [p EXCEPT !.mounts = y].containers = p.containers
<1> DEFINE r(w, caps, cs, ms) ==
             [wellformed |-> w, caps |-> caps, containers |-> cs, mounts |-> ms]
<1>1. p = r(p.wellformed, p.caps, p.containers, p.mounts)
  BY DEF IsPolicy
<1>2. [p EXCEPT !.wellformed = x] = r(x, p.caps, p.containers, p.mounts)
  BY <1>1
<1>3. [p EXCEPT !.caps = x] = r(p.wellformed, x, p.containers, p.mounts)
  BY <1>1
<1>4. [p EXCEPT !.containers = x] = r(p.wellformed, p.caps, x, p.mounts)
  BY <1>1
<1>5. [p EXCEPT !.mounts = y] = r(p.wellformed, p.caps, p.containers, y)
  BY <1>1
<1>6. \A w, caps, cs, ms : /\ IsPolicy(r(w, caps, cs, ms))
                           /\ r(w, caps, cs, ms).caps = caps
                           /\ r(w, caps, cs, ms).containers = cs
                           /\ r(w, caps, cs, ms).mounts = ms
  BY DEF IsPolicy
<1> HIDE DEF r
<1> QED BY <1>2, <1>3, <1>4, <1>5, <1>6

\* A mount that settings may have.
Additional(m) == m.container \in Containers /\ m.destination \in Destinations
\* A mount where the policy p has one or settings may have one; an answer with such mounts.
Placed(p, m) == (\E n \in p.mounts : SamePlace(m, n)) \/ Additional(m)
OfPlaced(p, o) == IsPolicy(o) /\ \A m \in o.mounts : IsMount(m) /\ Placed(p, m)

\* A difference leaves every mount in the place of one of the policy, or adds one that
\* settings may have.
LEMMA DriftMounts ==
  ASSUME NEW p, IsPolicy(p), \A m \in p.mounts : IsMount(m), NEW out \in Drifts(p)
  PROVE  OfPlaced(p, out)
<1> USE DEF Placed, OfPlaced
<1>1. ASSUME NEW S, \A m \in S : IsMount(m) /\ \E n \in p.mounts : SamePlace(m, n)
      PROVE  \A m \in Doubled(S) : IsMount(m) /\ \E n \in p.mounts : SamePlace(m, n)
  <2> SUFFICES ASSUME NEW m \in S
               PROVE  LET c == [m EXCEPT !.copy = 2]
                      IN  IsMount(c) /\ \E n \in p.mounts : SamePlace(c, n)
    BY <1>1 DEF Doubled
  <2>1. PICK n \in p.mounts : IsMount(m) /\ SamePlace(m, n)
    BY <1>1
  <2>2. IsMount([m EXCEPT !.copy = 2]) /\ SamePlace([m EXCEPT !.copy = 2], m)
    BY <2>1, StaysInPlace
  <2> QED BY <2>1, <2>2 DEF SamePlace
<1>2. \A m \in p.mounts : IsMount(m) /\ SamePlace(m, m)
  BY DEF SamePlace
<1>3. OfPlaced(p, [p EXCEPT !.wellformed = FALSE]) /\ OfPlaced(p, [p EXCEPT !.caps = "$(privileged_caps)"])
  BY <1>2, PolicyParts
<1>4. ASSUME NEW cs, NEW ms, \A m \in ms : IsMount(m) /\ Placed(p, m)
      PROVE  OfPlaced(p, [p EXCEPT !.containers = cs, !.mounts = ms]) /\ OfPlaced(p, [p EXCEPT !.mounts = ms])
  <2> DEFINE o1 == [p EXCEPT !.containers = cs, !.mounts = ms]
             o2 == [p EXCEPT !.mounts = ms]
  <2>1. IsPolicy(o1) /\ o1.mounts = ms
    <3> DEFINE q == [p EXCEPT !.containers = cs]
    <3>1. IsPolicy(q)
      BY PolicyParts
    <3>2. o1 = [q EXCEPT !.mounts = ms]
      OBVIOUS
    <3> HIDE DEF q, o1
    <3> QED BY <3>1, <3>2, PolicyParts
  <2>2. IsPolicy(o2) /\ o2.mounts = ms
    BY PolicyParts
  <2> HIDE DEF o1, o2
  <2>3. OfPlaced(p, o1) /\ OfPlaced(p, o2)
    BY <1>4, <2>1, <2>2
  <2> QED BY <2>3 DEF o1, o2
<1>5. ASSUME NEW c
      PROVE  /\ OfPlaced(p, [p EXCEPT !.containers = {x \in @ : x.name # c}, !.mounts = @ \ Of(c, p)])
             /\ OfPlaced(p, [p EXCEPT !.containers = @ \cup {[name |-> c, copy |-> 2]},
                               !.mounts = @ \cup Doubled(Of(c, p))])
  <2>1. Of(c, p) \subseteq p.mounts
    BY DEF Of
  <2>2. \A m \in Doubled(Of(c, p)) : IsMount(m) /\ \E n \in p.mounts : SamePlace(m, n)
    BY <1>1, <1>2, <2>1
  <2>3. \A m \in p.mounts \cup Doubled(Of(c, p)) : IsMount(m) /\ \E n \in p.mounts : SamePlace(m, n)
    BY <1>2, <2>2
  <2>4. \A m \in p.mounts \ Of(c, p) : IsMount(m) /\ \E n \in p.mounts : SamePlace(m, n)
    BY <1>2
  <2> QED BY <1>4, <2>3, <2>4
<1>6. ASSUME NEW m \in p.mounts, NEW S, \A x \in S : IsMount(x) /\ SamePlace(x, m)
      PROVE  OfPlaced(p, [p EXCEPT !.mounts = (@ \ {m}) \cup S])
  <2>1. \A x \in (p.mounts \ {m}) \cup S : IsMount(x) /\ \E n \in p.mounts : SamePlace(x, n)
    BY <1>2, <1>6
  <2> QED BY <1>4, <2>1
<1>7. ASSUME NEW m \in p.mounts,
             NEW S \in {{}, Doubled({m}), {[m EXCEPT !.type = "tmpfs"]},
                        {[m EXCEPT !.source.kind = "other"]},
                        {[m EXCEPT !.options = <<"rbind", "rslave", "rw">>]}}
      PROVE  \A x \in S : IsMount(x) /\ SamePlace(x, m)
  <2>1. IsMount(m) /\ SamePlace(m, m)
    BY <1>2
  <2>2. /\ IsMount([m EXCEPT !.copy = 2]) /\ SamePlace([m EXCEPT !.copy = 2], m)
        /\ IsMount([m EXCEPT !.type = "tmpfs"]) /\ SamePlace([m EXCEPT !.type = "tmpfs"], m)
        /\ IsMount([m EXCEPT !.source.kind = "other"])
        /\ SamePlace([m EXCEPT !.source.kind = "other"], m)
        /\ IsMount([m EXCEPT !.options = <<"rbind", "rslave", "rw">>])
        /\ SamePlace([m EXCEPT !.options = <<"rbind", "rslave", "rw">>], m)
    BY <2>1, StaysInPlace
  <2>3. Doubled({m}) = {m, [m EXCEPT !.copy = 2]}
    BY DEF Doubled
  <2> QED BY <1>7, <2>1, <2>2, <2>3
<1>8. ASSUME NEW c \in Containers, NEW x \in Destinations
       PROVE  OfPlaced(p, [p EXCEPT !.mounts = @ \cup {ExtraMount(c, x)}])
  <2>1. IsMount(ExtraMount(c, x)) /\ Additional(ExtraMount(c, x))
    BY DEF ExtraMount, IsMount, Additional
  <2>2. \A m \in p.mounts \cup {ExtraMount(c, x)} : IsMount(m) /\ Placed(p, m)
    BY <1>2, <2>1
  <2> QED BY <1>4, <2>2
<1> HIDE DEF Placed, OfPlaced
<1>9. CASE out \in Altered(p)
  <2>1. \/ out \in {[p EXCEPT !.wellformed = FALSE], [p EXCEPT !.caps = "$(privileged_caps)"]}
        \/ \E c \in Containers :
             out = [p EXCEPT !.containers = {x \in @ : x.name # c}, !.mounts = @ \ Of(c, p)]
        \/ \E c \in Containers :
             out = [p EXCEPT !.containers = @ \cup {[name |-> c, copy |-> 2]},
                             !.mounts = @ \cup Doubled(Of(c, p))]
        \/ \E m \in p.mounts :
             \E S \in {{}, Doubled({m}), {[m EXCEPT !.type = "tmpfs"]},
                       {[m EXCEPT !.source.kind = "other"]},
                       {[m EXCEPT !.options = <<"rbind", "rslave", "rw">>]}} :
               out = [p EXCEPT !.mounts = (@ \ {m}) \cup S]
    BY <1>9 DEF Altered
  <2>2. CASE out \in {[p EXCEPT !.wellformed = FALSE], [p EXCEPT !.caps = "$(privileged_caps)"]}
    BY <1>3, <2>2
  <2>3. ASSUME NEW c,
               \/ out = [p EXCEPT !.containers = {x \in @ : x.name # c}, !.mounts = @ \ Of(c, p)]
               \/ out = [p EXCEPT !.containers = @ \cup {[name |-> c, copy |-> 2]},
                                  !.mounts = @ \cup Doubled(Of(c, p))]
        PROVE  OfPlaced(p, out)
    BY <1>5, <2>3
  <2>4. ASSUME NEW m \in p.mounts,
               NEW S \in {{}, Doubled({m}), {[m EXCEPT !.type = "tmpfs"]},
                          {[m EXCEPT !.source.kind = "other"]},
                          {[m EXCEPT !.options = <<"rbind", "rslave", "rw">>]}},
               out = [p EXCEPT !.mounts = (@ \ {m}) \cup S]
        PROVE  OfPlaced(p, out)
    <3>1. \A x \in S : IsMount(x) /\ SamePlace(x, m)
      BY <1>7
    <3> QED BY <1>6, <2>4, <3>1
  <2> QED BY <2>1, <2>2, <2>3, <2>4
<1>10. CASE out \in Extended(p)
  <2>1. PICK c \in Containers, x \in Destinations :
          out = [p EXCEPT !.mounts = @ \cup {ExtraMount(c, x)}]
    BY <1>10 DEF Extended
  <2> QED BY <1>8, <2>1
<1>11. OfPlaced(p, out)
  BY <1>9, <1>10 DEF Drifts
<1> QED BY <1>11

\* What genpolicy may answer for a Pod.
LEMMA AnsweredMounts ==
  ASSUME NEW d, NEW log, NEW e, NEW more \in SUBSET Destinations,
         NEW out \in {PolicyOf(Manifest(d, log, e), more)}
                       \cup Drifts(PolicyOf(Manifest(d, log, e), more))
  PROVE  IsPolicy(out) /\ \A m \in out.mounts : IsMount(m) /\ At(d, log, Destinations, m)
<1> DEFINE p == PolicyOf(Manifest(d, log, e), more)
<1>1. IsPolicy(p)
  BY DEF PolicyOf, IsPolicy
<1>2. \A m \in p.mounts : IsMount(m) /\ At(d, log, Destinations, m)
  <2>1. \A m \in p.mounts : IsMount(m) /\ At(d, log, more, m)
    BY PolicyMounts
  <2>2. \A m : At(d, log, more, m) => At(d, log, Destinations, m)
    BY DEF At
  <2> QED BY <2>1, <2>2
<1> HIDE DEF p
<1>3. CASE out \in Drifts(p)
  <2>1. OfPlaced(p, out)
    BY <1>1, <1>2, <1>3, DriftMounts
  <2>2. \A m : Additional(m) => At(d, log, Destinations, m)
    BY DEF Additional, At
  <2>3. \A m, n : At(d, log, Destinations, n) /\ SamePlace(m, n) => At(d, log, Destinations, m)
    BY DEF At, SamePlace
  <2> QED BY <1>2, <2>1, <2>2, <2>3 DEF OfPlaced, Placed
<1> QED BY <1>1, <1>2, <1>3 DEF p

-----------------------------------------------------------------------------
(* The table against genpolicy's answers.                                  *)

\* For a mount in a place of the Pod, the row for it says the propagation that the Pod
\* asks for; and the Pod asks for none where there is no row.
LEMMA RowsDeclared ==
  ASSUME NEW d, NEW log \in BOOLEAN, NEW more \in SUBSET Destinations,
         NEW m, At(d, log, more, m)
  PROVE  LET asked == Declared(Mounts(d, log)[m.container], m.destination)
         IN  /\ \A i \in 1..7 : IsFor(Table[i], m) =>
                  asked = Table[i].propagation /\ asked # "rprivate"
             /\ (\A i \in 1..7 : ~IsFor(Table[i], m)) => asked = "rprivate"
<1> DEFINE mounts == Mounts(d, log)[m.container]
           asked == Declared(mounts, m.destination)
<1>1. ASSUME NEW i \in 1..7, IsFor(Table[i], m)
      PROVE  asked = Table[i].propagation /\ asked # "rprivate"
  <2>1. /\ Table[i].propagation \in {"rslave", "rshared"}
        /\ Table[i].destination \notin Destinations
    <3>1. i \in {1, 2, 3, 4, 5, 6, 7}
      OBVIOUS
    <3> QED BY <3>1, TableRows DEF Row, Destinations, TokenDestinations
  <2>2. \E n \in mounts : n.path = m.destination
    BY <1>1, <2>1 DEF At, IsFor
  <2>3. PICK n \in mounts : n.path = m.destination /\ n.propagation = Asked(Table[i])
    <3>1. m.container = Table[i].container /\ m.destination = Table[i].destination
      BY <1>1 DEF IsFor
    <3> QED BY <2>2, <3>1, RowMounts
  <2>4. \A k \in mounts : k.path = m.destination => k = n
    BY <2>3, PathsApart DEF At
  <2>5. CASE Table[i].propagation = "rslave"
    <3>1. n.propagation = "HostToContainer"
      BY <2>3, <2>5 DEF Asked
    <3>2. ~\E k \in mounts : k.path = m.destination /\ k.propagation = "Bidirectional"
      BY <2>4, <3>1
    <3> QED BY <2>3, <2>5, <3>1, <3>2 DEF Declared
  <2>6. CASE Table[i].propagation = "rshared"
    <3>1. n.propagation = "Bidirectional"
      BY <2>3, <2>6 DEF Asked
    <3>2. ~\E k \in mounts : k.path = m.destination /\ k.propagation = "HostToContainer"
      BY <2>4, <3>1
    <3> QED BY <2>3, <2>6, <3>1, <3>2 DEF Declared
  <2> QED BY <2>1, <2>5, <2>6
<1>2. ASSUME \A i \in 1..7 : ~IsFor(Table[i], m)
      PROVE  asked = "rprivate"
  <2>1. \A n \in mounts : n.path = m.destination => n.propagation = "None"
    BY <1>2, PropagatedMounts DEF At, IsFor
  <2>2. /\ ~\E n \in mounts : n.path = m.destination /\ n.propagation = "HostToContainer"
        /\ ~\E n \in mounts : n.path = m.destination /\ n.propagation = "Bidirectional"
    BY <2>1
  <2> QED BY <2>2 DEF Declared
<1> QED BY <1>1, <1>2

\* A row's mount is there once and as expected, or is not required and not there.
FoundIn(p, r) == {m \in p.mounts : IsFor(r, m)}
RowFits(p, r) == \/ FoundIn(p, r) = {} /\ ~r.required
                 \/ \E m : FoundIn(p, r) = {m} /\ Expected(r, m)

\* In the policy of the Pod, every row fits.
LEMMA RowsFaithful ==
  ASSUME NEW d, NEW log \in BOOLEAN, NEW e,
         NEW more \in SUBSET Destinations, NEW i \in 1..7
  PROVE  RowFits(PolicyOf(Manifest(d, log, e), more), Table[i])
<1> DEFINE r == Table[i]
           man == Manifest(d, log, e)
           p == PolicyOf(man, more)
           found == {m \in p.mounts : IsFor(r, m)}
<1>1. man.mounts = Mounts(d, log) /\ man.memory = MemoryVolumes(log)
  BY DEF Manifest
<1>2. r.destination \notin Destinations
  <2>1. i \in {1, 2, 3, 4, 5, 6, 7}
    OBVIOUS
  <2> QED BY <2>1, TableRows DEF Row, Destinations, TokenDestinations
<1>3. \A m \in found : \E n \in Mounts(d, log)[r.container] :
        n.path = r.destination /\ m = MountOf(r.container, n, man)
  <2> SUFFICES ASSUME NEW m \in found
               PROVE  \E n \in Mounts(d, log)[r.container] :
                        n.path = r.destination /\ m = MountOf(r.container, n, man)
    OBVIOUS
  <2>1. \/ \E c \in Containers : \E n \in Mounts(d, log)[c] : m = MountOf(c, n, man)
        \/ \E c \in Containers : \E x \in more : m = ExtraMount(c, x)
    BY <1>1 DEF PolicyOf
  <2>2. m.container = r.container /\ m.destination = r.destination
    BY DEF IsFor
  <2>3. ASSUME NEW c \in Containers, NEW n \in Mounts(d, log)[c], m = MountOf(c, n, man)
        PROVE  c = r.container /\ n.path = r.destination
    BY <2>2, <2>3 DEF MountOf
  <2>4. ASSUME NEW c \in Containers, NEW x \in more, m = ExtraMount(c, x)
        PROVE  FALSE
    BY <1>2, <2>2, <2>4 DEF ExtraMount
  <2> QED BY <2>1, <2>3, <2>4
<1>4. \A n \in Mounts(d, log)[r.container] :
        r.container \in Containers /\ n.path = r.destination => MountOf(r.container, n, man) \in found
  <2> SUFFICES ASSUME r.container \in Containers,
                      NEW n \in Mounts(d, log)[r.container], n.path = r.destination
               PROVE  MountOf(r.container, n, man) \in found
    OBVIOUS
  <2>1. MountOf(r.container, n, man) \in p.mounts
    BY <1>1 DEF PolicyOf
  <2> QED BY <2>1 DEF MountOf, IsFor
<1>5. r.container \in Containers
  BY RowMounts
<1>6. ASSUME ~r.required, \A n \in Mounts(d, log)[r.container] : n.path # r.destination
      PROVE  found = {} /\ ~r.required
  BY <1>3, <1>6
<1>7. ASSUME NEW n \in Mounts(d, log)[r.container],
             n.path = r.destination, n.volume = r.volume, ~n.readOnly,
             n.volume \in MemoryVolumes(log)
      PROVE  \E m : found = {m} /\ Expected(r, m)
  <2>1. \A k \in Mounts(d, log)[r.container] : k.path = r.destination => k = n
    BY <1>5, <1>7, PathsApart
  <2>2. found = {MountOf(r.container, n, man)}
    BY <1>3, <1>4, <1>5, <1>7, <2>1
  <2>3. Expected(r, MountOf(r.container, n, man))
    BY <1>1, <1>7 DEF Expected, MountOf, SourceOf, Options
  <2> QED BY <2>2, <2>3
<1>8. (found = {} /\ ~r.required) \/ \E m : found = {m} /\ Expected(r, m)
  BY <1>6, <1>7, RowMounts
<1>9. found = FoundIn(p, r)
  BY DEF FoundIn
<1> HIDE DEF found, r, p, man
<1> QED BY <1>8, <1>9 DEF RowFits, r, p, man

-----------------------------------------------------------------------------
(* The corrections.                                                        *)

\* The mounts of the data once k rows of the table have been worked through.
Final(m) == [m EXCEPT !.options[2] = Declared(TheManifest.mounts[m.container], m.destination)]
Corrected(k) ==
  {IF \E i \in 1..k : IsFor(Table[i], m) THEN Final(m) ELSE m : m \in output.mounts}

\* The settings that genpolicy is given are made of the file and the drop-ins.
ExtrasGiven == extras \subseteq input.extras \cup input.dropIns
\* Of whatever genpolicy answered, every mount is in a place of the Pod or the settings.
OutputGiven ==
  pc \in {"parse", "correct", "relax", "label", "done"} =>
    \A m \in output.mounts : IsMount(m) /\ At(input.descriptor, input.log, Destinations, m)
\* Each loop starts at its first row; the corrections have got as far as row says.
RowReset == pc \in {"render", "prepare", "first", "retry", "parse"} => row = 1
DataGiven ==
  /\ pc = "parse" => data = output /\ IsPolicy(data)
  /\ pc = "correct" => /\ row \in 1..7 /\ IsPolicy(data)
                       /\ data.containers = output.containers
                       /\ data.mounts = Corrected(row - 1)
  /\ pc \in {"relax", "label", "done"} => IsPolicy(data) /\ data.mounts = Corrected(7)
  /\ pc = "done" => data.caps = "$(privileged_caps)"
\* A refused shape is another than that of the policy of the Pod.
Refusals == why = "shape" => pc = "failed" /\ output # PolicyOf(TheManifest, extras)

DataInv == InputGiven /\ ExtrasGiven /\ OutputGiven /\ RowReset /\ DataGiven /\ Refusals

\* The parts of an input that the corrections depend on.
LEMMA InputParts ==
  ASSUME NEW i \in Inputs
  PROVE  i.log \in BOOLEAN /\ i.extras \cup i.dropIns \in SUBSET Destinations
  BY InputsAssumption DEF Input

\* The mounts in the Pod of this run.
LEMMA ManifestMounts == TheManifest.mounts = Mounts(input.descriptor, input.log)
  BY DEF TheManifest, Manifest

\* What a mount of genpolicy's answer is corrected to.
LEMMA CorrectedTo ==
  ASSUME InputGiven, NEW m, IsMount(m), At(input.descriptor, input.log, Destinations, m)
  PROVE  LET asked == Declared(TheManifest.mounts[m.container], m.destination)
         IN  /\ \A i \in 1..7 : IsFor(Table[i], m) =>
                  /\ asked # "rprivate"
                  /\ Final(m) = [m EXCEPT !.options[2] = Table[i].propagation]
             /\ (\A i \in 1..7 : ~IsFor(Table[i], m)) => asked = "rprivate"
             /\ SamePlace(Final(m), m)
<1> DEFINE asked == Declared(TheManifest.mounts[m.container], m.destination)
<1>1. input.log \in BOOLEAN
  BY InputParts DEF InputGiven
<1>2. /\ \A i \in 1..7 : IsFor(Table[i], m) =>
           asked = Table[i].propagation /\ asked # "rprivate"
      /\ (\A i \in 1..7 : ~IsFor(Table[i], m)) => asked = "rprivate"
  BY <1>1, ManifestMounts, RowsDeclared
<1>3. Final(m) = [m EXCEPT !.options[2] = asked]
  BY DEF Final
<1>4. SamePlace(Final(m), m)
  BY <1>3, StaysInPlace
<1> HIDE DEF asked
<1> QED BY <1>2, <1>3, <1>4 DEF asked

\* The mounts that a row finds are as genpolicy wrote them.
LEMMA FoundFresh ==
  ASSUME DataInv, pc = "correct"
  PROVE  Found(Table[row]) = {m \in output.mounts : IsFor(Table[row], m)}
<1> DEFINE r == Table[row]
<1>1. /\ row \in 1..7 /\ data.mounts = Corrected(row - 1)
      /\ \A m \in output.mounts : IsMount(m) /\ At(input.descriptor, input.log, Destinations, m)
      /\ InputGiven /\ ExtrasGiven
  BY DEF DataInv, DataGiven, OutputGiven
<1>2. Found(r) = {m \in data.mounts : IsFor(r, m)}
  BY DEF Found, IsFor
<1>3. ASSUME NEW x \in data.mounts, IsFor(r, x)
      PROVE  x \in output.mounts
  <2>1. PICK m \in output.mounts :
          x = IF \E i \in 1..(row - 1) : IsFor(Table[i], m) THEN Final(m) ELSE m
    BY <1>1 DEF Corrected
  <2>2. SamePlace(Final(m), m)
    BY <1>1, CorrectedTo
  <2>3. IsFor(r, m)
    BY <1>3, <2>1, <2>2 DEF IsFor, SamePlace
  <2>4. ~\E i \in 1..(row - 1) : IsFor(Table[i], m)
    <3> SUFFICES ASSUME NEW i \in 1..(row - 1), IsFor(Table[i], m) PROVE FALSE
      OBVIOUS
    <3>1. i \in 1..7 /\ i # row
      BY <1>1
    <3> QED BY <1>1, <2>3, <3>1, RowsApart
  <2> QED BY <2>1, <2>4
<1>4. ASSUME NEW m \in output.mounts, IsFor(r, m)
      PROVE  m \in data.mounts
  <2>1. ~\E i \in 1..(row - 1) : IsFor(Table[i], m)
    <3> SUFFICES ASSUME NEW i \in 1..(row - 1), IsFor(Table[i], m) PROVE FALSE
      OBVIOUS
    <3>1. i \in 1..7 /\ i # row
      BY <1>1
    <3> QED BY <1>1, <1>4, <3>1, RowsApart
  <2> QED BY <1>1, <2>1 DEF Corrected
<1> QED BY <1>2, <1>3, <1>4

\* One row more.
LEMMA CorrectedNext ==
  ASSUME DataInv, pc = "correct"
  PROVE  Corrected(row) =
           (data.mounts \ Found(Table[row]))
             \cup {[m EXCEPT !.options[2] = Table[row].propagation] : m \in Found(Table[row])}
<1> DEFINE r == Table[row]
           Before(m) == \E i \in 1..(row - 1) : IsFor(Table[i], m)
           Upto(m) == \E i \in 1..row : IsFor(Table[i], m)
<1>1. /\ row \in 1..7 /\ data.mounts = Corrected(row - 1)
      /\ \A m \in output.mounts : IsMount(m) /\ At(input.descriptor, input.log, Destinations, m)
      /\ InputGiven /\ ExtrasGiven
  BY DEF DataInv, DataGiven, OutputGiven
<1>2. Found(r) = {m \in output.mounts : IsFor(r, m)}
  BY FoundFresh
<1>3. /\ data.mounts = {IF Before(m) THEN Final(m) ELSE m : m \in output.mounts}
      /\ Corrected(row) = {IF Upto(m) THEN Final(m) ELSE m : m \in output.mounts}
  BY <1>1 DEF Corrected
<1>4. ASSUME NEW m \in output.mounts
      PROVE  /\ Upto(m) <=> Before(m) \/ IsFor(r, m)
             /\ IsFor(r, m) => ~Before(m) /\ Final(m) = [m EXCEPT !.options[2] = r.propagation]
             /\ SamePlace(Final(m), m)
  <2>1. \A i : i \in 1..row <=> i \in 1..(row - 1) \/ i = row
    BY <1>1
  <2>2. \A i \in 1..(row - 1) : i \in 1..7 /\ i # row
    BY <1>1
  <2>3. IsFor(r, m) => ~Before(m)
    BY <1>1, <2>2, RowsApart
  <2>4. IsFor(r, m) => Final(m) = [m EXCEPT !.options[2] = r.propagation]
    BY <1>1, CorrectedTo
  <2>5. SamePlace(Final(m), m)
    BY <1>1, CorrectedTo
  <2> QED BY <2>1, <2>3, <2>4, <2>5
<1> DEFINE Next1(m) == [m EXCEPT !.options[2] = r.propagation]
<1>5. \A m \in output.mounts : IsFor(r, Final(m)) => IsFor(r, m)
  BY <1>4 DEF SamePlace, IsFor
<1> HIDE DEF r, Before, Upto, Next1
<1>6. ASSUME NEW x \in Corrected(row)
      PROVE  x \in (data.mounts \ Found(r)) \cup {Next1(m) : m \in Found(r)}
  <2>1. PICK m \in output.mounts : x = IF Upto(m) THEN Final(m) ELSE m
    BY <1>3, <1>6
  <2>2. CASE IsFor(r, m)
    BY <1>2, <1>4, <2>1, <2>2 DEF Next1
  <2>3. CASE ~IsFor(r, m)
    <3>1. x = IF Before(m) THEN Final(m) ELSE m
      BY <1>4, <2>1, <2>3
    <3>2. x \in data.mounts
      BY <1>3, <3>1
    <3>3. ~IsFor(r, x)
      BY <1>5, <2>3, <3>1
    <3> QED BY <1>2, <3>2, <3>3
  <2> QED BY <2>2, <2>3
<1>7. ASSUME NEW x \in (data.mounts \ Found(r)) \cup {Next1(m) : m \in Found(r)}
      PROVE  x \in Corrected(row)
  <2>1. CASE x \in data.mounts \ Found(r)
    <3>1. PICK m \in output.mounts : x = IF Before(m) THEN Final(m) ELSE m
      BY <1>3, <2>1
    <3>2. ~IsFor(r, m)
      BY <1>2, <1>4, <2>1, <3>1
    <3> QED BY <1>3, <1>4, <3>1, <3>2
  <2>2. CASE x \in {Next1(m) : m \in Found(r)}
    <3>1. PICK m \in output.mounts : IsFor(r, m) /\ x = Next1(m)
      BY <1>2, <2>2
    <3>2. x = Final(m) /\ Upto(m)
      BY <1>4, <3>1 DEF Next1
    <3> QED BY <1>3, <3>2
  <2> QED BY <1>7, <2>1, <2>2
<1>8. Corrected(row) = (data.mounts \ Found(r)) \cup {Next1(m) : m \in Found(r)}
  BY <1>6, <1>7
<1> QED BY <1>8 DEF r, Next1

\* A row never refuses the policy of the Pod.
LEMMA FaithfulRow ==
  ASSUME DataInv, pc = "correct", output = PolicyOf(TheManifest, extras)
  PROVE  One(Table[row]) /\ (Absent(Table[row]) \/ Correctable(Table[row]))
<1> DEFINE r == Table[row]
           found == {m \in output.mounts : IsFor(r, m)}
<1>1. row \in 1..7 /\ data.containers = output.containers /\ InputGiven /\ ExtrasGiven
  BY DEF DataInv, DataGiven
<1>2. Found(r) = found
  BY FoundFresh
<1>3. input.log \in BOOLEAN /\ extras \in SUBSET Destinations
  BY <1>1, InputParts DEF InputGiven, ExtrasGiven
<1>4. (found = {} /\ ~r.required) \/ \E m : found = {m} /\ Expected(r, m)
  <2>1. RowFits(PolicyOf(TheManifest, extras), r)
    BY <1>1, <1>3, RowsFaithful DEF TheManifest
  <2>2. FoundIn(output, r) = found
    BY DEF FoundIn
  <2> HIDE DEF found, r
  <2> QED BY <2>1, <2>2 DEF RowFits
<1>5. r.container \in Containers
  BY <1>1, <1>3, RowMounts
<1>6. One(r)
  <2>1. output.containers = {[name |-> c, copy |-> 1] : c \in Containers}
    BY DEF PolicyOf
  <2>2. {c \in data.containers : c.name = r.container} = {[name |-> r.container, copy |-> 1]}
    BY <1>1, <1>5, <2>1
  <2> QED BY <2>2, FS_Singleton DEF One
<1>7. Absent(r) \/ Correctable(r)
  <2>1. CASE found = {} /\ ~r.required
    BY <1>2, <2>1 DEF Absent
  <2>2. ASSUME NEW m, found = {m}, Expected(r, m)
        PROVE  Correctable(r)
    BY <1>2, <2>2, FS_Singleton DEF Correctable
  <2> QED BY <1>4, <2>1, <2>2
<1> QED BY <1>6, <1>7

\* A run starts with nothing to correct.
LEMMA InitDataInv == Init => DataInv
  BY DEF Init, DataInv, InputGiven, ExtrasGiven, OutputGiven, RowReset, DataGiven, Refusals

\* An answer of genpolicy is one for the Pod as rendered.
LEMMA AnswerGiven ==
  ASSUME DataInv, pc \in {"first", "retry"}, Answered, UNCHANGED <<input, extras, rules, row>>
  PROVE  DataInv'
<1>1. PICK out \in {PolicyOf(TheManifest, extras)} \cup Drifts(PolicyOf(TheManifest, extras)) :
        output' = out /\ data' = out /\ pc' = "parse" /\ UNCHANGED why
  BY DEF Answered
<1>2. IsPolicy(out) /\ \A m \in out.mounts : IsMount(m) /\ At(input.descriptor, input.log, Destinations, m)
  <2>1. extras \in SUBSET Destinations
    BY InputParts DEF DataInv, InputGiven, ExtrasGiven
  <2> QED BY <1>1, <2>1, AnsweredMounts DEF TheManifest
<1>3. why # "shape"
  BY DEF DataInv, Refusals
<1>4. InputGiven' /\ ExtrasGiven' /\ RowReset' /\ Refusals'
  BY <1>1, <1>3 DEF DataInv, InputGiven, ExtrasGiven, RowReset, Refusals
<1>5. OutputGiven'
  BY <1>1, <1>2 DEF OutputGiven
<1>6. DataGiven'
  BY <1>1, <1>2 DEF DataGiven
<1> QED BY <1>4, <1>5, <1>6 DEF DataInv

\* A step that leaves the data alone, and is not one that parses, corrects or finishes.
LEMMA DataKept ==
  ASSUME DataInv, UNCHANGED <<input, output, data>>,
         extras' = extras, pc' = pc, why' = why, row' = row
  PROVE  DataInv'
  BY DEF DataInv, InputGiven, ExtrasGiven, OutputGiven, RowReset, DataGiven, Refusals,
         TheManifest, Corrected, Final

\* A failure for another reason than the shape of the data.
LEMMA FailedOtherwise ==
  ASSUME DataInv, UNCHANGED <<input, extras>>, pc' = "failed", why' # "shape"
  PROVE  DataInv'
  BY DEF DataInv, InputGiven, ExtrasGiven, OutputGiven, RowReset, DataGiven, Refusals

\* A row is worked through, or refuses.
LEMMA CorrectKeeps == ASSUME DataInv, Correct PROVE DataInv'
<1> DEFINE r == Table[row]
<1>1. /\ pc = "correct" /\ row \in 1..7 /\ IsPolicy(data) /\ data.mounts = Corrected(row - 1)
      /\ data.containers = output.containers
      /\ UNCHANGED <<input, extras, output>> /\ why # "shape" /\ Len(Table) = 7
  BY TableRows DEF Correct, DataInv, DataGiven, Refusals
<1>2. InputGiven' /\ (pc' \in {"correct", "relax"} => ExtrasGiven' /\ OutputGiven')
  BY <1>1 DEF DataInv, InputGiven, ExtrasGiven, OutputGiven
<1>3. \A k : Corrected(k)' = Corrected(k)
  BY <1>1 DEF Corrected, Final, TheManifest
<1>4. ASSUME Advance(7, "relax"), UNCHANGED why, IsPolicy(data'),
             data'.containers = output.containers, data'.mounts = Corrected(row)
      PROVE  DataInv'
  <2>1. CASE row = 7
    <3>1. pc' = "relax" /\ row' = 1
      BY <1>4, <2>1 DEF Advance
    <3>2. data'.mounts = Corrected(7)'
      BY <1>3, <1>4, <2>1
    <3> QED BY <1>1, <1>2, <1>4, <3>1, <3>2 DEF DataInv, RowReset, DataGiven, Refusals
  <2>2. CASE row # 7
    <3>1. pc' = "correct" /\ row' = row + 1
      BY <1>1, <1>4, <2>2 DEF Advance
    <3>2. row' \in 1..7 /\ row' - 1 = row
      BY <1>1, <2>2, <3>1
    <3>3. (data.mounts = Corrected(row - 1))'
      BY <1>1, <1>4, <3>2 DEF Corrected, Final, TheManifest
    <3> QED BY <1>1, <1>2, <1>4, <3>1, <3>2, <3>3 DEF DataInv, RowReset, DataGiven, Refusals
  <2> QED BY <2>1, <2>2
<1>5. CASE One(r) /\ Absent(r) /\ Advance(7, "relax") /\ UNCHANGED <<why, data>>
  <2>1. Found(r) = {}
    BY <1>5 DEF Absent
  <2>2. Corrected(row) = data.mounts
    BY <1>1, <2>1, CorrectedNext
  <2> QED BY <1>1, <1>4, <1>5, <2>2
<1>6. CASE /\ One(r) /\ Correctable(r)
           /\ data' = [data EXCEPT !.mounts =
                (@ \ Found(r)) \cup {[m EXCEPT !.options[2] = r.propagation] : m \in Found(r)}]
           /\ Advance(7, "relax") /\ UNCHANGED why
  <2>1. data' = [data EXCEPT !.mounts = Corrected(row)]
    BY <1>1, <1>6, CorrectedNext
  <2>2. IsPolicy(data') /\ data'.mounts = Corrected(row) /\ data'.containers = data.containers
    <3> DEFINE o == [data EXCEPT !.mounts = Corrected(row)]
    <3>1. IsPolicy(data)
      BY <1>1
    <3>2. IsPolicy(o) /\ o.mounts = Corrected(row) /\ o.containers = data.containers
      BY <3>1, PolicyParts
    <3> QED BY <2>1, <3>2
  <2> QED BY <1>1, <1>4, <1>6, <2>2
<1>7. CASE ~(One(r) /\ (Absent(r) \/ Correctable(r))) /\ Fail("shape") /\ UNCHANGED <<data, row>>
  <2>1. output # PolicyOf(TheManifest, extras)
    BY <1>1, <1>7, FaithfulRow
  <2>2. Refusals'
    BY <1>1, <1>7, <2>1 DEF Fail, Refusals, TheManifest
  <2>3. ExtrasGiven' /\ OutputGiven' /\ RowReset' /\ DataGiven'
    BY <1>1, <1>7 DEF Fail, DataInv, ExtrasGiven, OutputGiven, RowReset, DataGiven
  <2> QED BY <1>2, <2>2, <2>3 DEF DataInv
<1> QED BY <1>1, <1>5, <1>6, <1>7 DEF Correct

\* Every other step, one by one.
LEMMA StepDataInv == DataInv /\ [Next]_vars => DataInv'
<1> SUFFICES ASSUME DataInv, [Next]_vars PROVE DataInv'
  OBVIOUS
<1> USE DEF Fail
<1>0. pc # "failed" => why # "shape"
  BY DEF DataInv, Refusals
<1>1. CASE Render
  <2>1. CASE ~Renders(input.descriptor, input.environment)
    BY <1>1, <2>1, FailedOtherwise DEF Render
  <2>2. CASE Renders(input.descriptor, input.environment)
    BY <1>0, <1>1, <2>2 DEF Render, DataInv, InputGiven, ExtrasGiven, OutputGiven, RowReset,
                            DataGiven, Refusals
  <2> QED BY <2>1, <2>2
<1>2. CASE Prepare
  <2>1. CASE input.settings = "unreadable"
    BY <1>2, <2>1, FailedOtherwise DEF Prepare
  <2>2. CASE input.settings # "unreadable"
    <3>1. /\ pc = "prepare" /\ pc' = "first" /\ UNCHANGED <<why, input, row>>
          /\ extras' \subseteq input.extras \cup input.dropIns
      BY <1>2, <2>2 DEF Prepare
    <3> QED BY <1>0, <3>1 DEF DataInv, InputGiven, ExtrasGiven, OutputGiven, RowReset,
                              DataGiven, Refusals
  <2> QED BY <2>1, <2>2
<1>3. CASE IoError
  BY <1>3, FailedOtherwise DEF IoError
<1>4. CASE First
  <2>1. PICK reachable \in BOOLEAN :
          /\ IF Works(input.creds, reachable) THEN Answered
             ELSE (pc' = "retry" /\ UNCHANGED why) /\ UNCHANGED <<output, data>>
          /\ UNCHANGED <<input, extras, rules, row>>
    BY <1>4 DEF First, Call
  <2>2. CASE Answered
    BY <1>4, <2>1, <2>2, AnswerGiven DEF First
  <2>3. CASE pc' = "retry" /\ UNCHANGED <<why, output, data>>
    BY <1>0, <1>4, <2>1, <2>3 DEF First, DataInv, InputGiven, ExtrasGiven, OutputGiven,
                                  RowReset, DataGiven, Refusals
  <2> QED BY <2>1, <2>2, <2>3
<1>5. CASE Retry
  <2>1. PICK reachable \in BOOLEAN :
          /\ IF Works("none", reachable) THEN Answered
             ELSE Fail("genpolicy") /\ UNCHANGED <<output, data>>
          /\ UNCHANGED <<input, extras, rules, row>>
    BY <1>5 DEF Retry, Call
  <2>2. CASE Answered
    BY <1>5, <2>1, <2>2, AnswerGiven DEF Retry
  <2>3. CASE Fail("genpolicy")
    BY <2>1, <2>3, FailedOtherwise
  <2> QED BY <2>1, <2>2, <2>3
<1>6. CASE Parse
  <2>1. pc = "parse" /\ data = output /\ IsPolicy(data) /\ row = 1
    BY <1>6 DEF Parse, DataInv, DataGiven, RowReset
  <2>2. CASE data.wellformed
    <3>1. pc' = "correct" /\ UNCHANGED <<why, input, extras, output, data, row>>
      BY <1>6, <2>2 DEF Parse
    <3>2. data.mounts = Corrected(0)
      <4>1. 1..0 = {}
        OBVIOUS
      <4> QED BY <2>1, <4>1 DEF Corrected
    <3>3. Corrected(0)' = Corrected(0)
      BY <3>1 DEF Corrected, Final, TheManifest
    <3>4. row' - 1 = 0
      BY <2>1, <3>1
    <3>5. DataGiven'
      BY <2>1, <3>1, <3>2, <3>3, <3>4 DEF DataGiven
    <3>6. InputGiven' /\ ExtrasGiven' /\ OutputGiven' /\ RowReset' /\ Refusals'
      BY <1>0, <2>1, <3>1 DEF DataInv, InputGiven, ExtrasGiven, OutputGiven, RowReset, Refusals
    <3> QED BY <3>5, <3>6 DEF DataInv
  <2>3. CASE ~data.wellformed
    <3>1. output # PolicyOf(TheManifest, extras)
      BY <2>1, <2>3 DEF PolicyOf
    <3>2. pc' = "failed" /\ UNCHANGED <<input, extras, output>>
      BY <1>6, <2>3 DEF Parse
    <3> QED BY <3>1, <3>2 DEF DataInv, InputGiven, ExtrasGiven, OutputGiven, RowReset,
                              DataGiven, Refusals, TheManifest
  <2> QED BY <2>2, <2>3
<1>7. CASE Correct
  BY <1>7, CorrectKeeps
<1>8. CASE RelaxRow
  <2>1. /\ pc = "relax" /\ pc' \in {"relax", "label"}
        /\ UNCHANGED <<input, why, extras, output, data>>
    BY <1>8 DEF RelaxRow, Advance
  <2>2. Corrected(7)' = Corrected(7)
    BY <2>1 DEF Corrected, Final, TheManifest
  <2> QED BY <1>0, <2>1, <2>2 DEF DataInv, InputGiven, ExtrasGiven, OutputGiven, RowReset,
                                  DataGiven, Refusals
<1>9. CASE Label
  <2>1. /\ pc = "label" /\ pc' = "done" /\ UNCHANGED <<input, why, extras, output>>
        /\ data' = [data EXCEPT !.caps = "$(privileged_caps)"]
        /\ IsPolicy(data) /\ data.mounts = Corrected(7)
    BY <1>9 DEF Label, DataInv, DataGiven
  <2>2. /\ IsPolicy(data') /\ data'.mounts = data.mounts /\ data'.caps = "$(privileged_caps)"
    <3> DEFINE o == [data EXCEPT !.caps = "$(privileged_caps)"]
    <3>1. IsPolicy(data)
      BY <2>1
    <3>2. IsPolicy(o) /\ o.mounts = data.mounts
      BY <3>1, PolicyParts
    <3>3. o.caps = "$(privileged_caps)"
      BY <3>1 DEF IsPolicy
    <3> QED BY <2>1, <3>2, <3>3
  <2>3. Corrected(7)' = Corrected(7)
    BY <2>1 DEF Corrected, Final, TheManifest
  <2> QED BY <1>0, <2>1, <2>2, <2>3 DEF DataInv, InputGiven, ExtrasGiven, OutputGiven,
                                        RowReset, DataGiven, Refusals
<1>10. CASE UNCHANGED vars
  BY <1>10, DataKept DEF vars
<1> QED BY <1>1, <1>2, <1>3, <1>4, <1>5, <1>6, <1>7, <1>8, <1>9, <1>10 DEF Next

\* No input, and no image, has an output of genpolicy for the Pod as rendered that the
\* corrections refuse.
THEOREM FaithfulCorrect == Spec => []FaithfulAccepted
<1>1. DataInv => FaithfulAccepted
  BY DEF DataInv, Refusals, FaithfulAccepted
<1> QED BY InitDataInv, StepDataInv, <1>1, PTL DEF Spec

\* Of whatever genpolicy answers, a finished policy holds every mount, with the
\* propagation that the Pod asks for where it asks for one, and nothing else.
THEOREM DataCorrect == Spec => []DataCorrected
<1>1. DataInv => DataCorrected
  <2> SUFFICES ASSUME DataInv, pc = "done" PROVE DataCorrected
    BY DEF DataCorrected
  <2> DEFINE Asked1(m) == Declared(TheManifest.mounts[m.container], m.destination)
  <2>1. /\ InputGiven /\ ExtrasGiven /\ data.mounts = Corrected(7)
        /\ \A m \in output.mounts : IsMount(m) /\ At(input.descriptor, input.log, Destinations, m)
        /\ data.caps = "$(privileged_caps)"
    BY DEF DataInv, OutputGiven, DataGiven
  <2>2. \A m \in output.mounts : (\E i \in 1..7 : IsFor(Table[i], m)) <=> Asked1(m) # "rprivate"
    BY <2>1, CorrectedTo
  <2>3. data.mounts = {IF Asked1(m) = "rprivate" THEN m ELSE Final(m) : m \in output.mounts}
    BY <2>1, <2>2 DEF Corrected
  <2> QED BY <2>1, <2>3 DEF DataCorrected, Final
<1> QED BY InitDataInv, StepDataInv, <1>1, PTL DEF Spec

-----------------------------------------------------------------------------
(* The environments.  A list is put together from pieces whose names come  *)
(* from sets that have none in common.                                     *)

\* A piece that is there under a condition.
LEMMA AlsoLists ==
  ASSUME NEW X, NEW s, Lists(s, X), NEW condition \in BOOLEAN
  PROVE  Lists(Also(condition, s), When(condition, X))
<1>1. CASE condition
  <2>1. Also(condition, s) = s /\ When(condition, X) = X
    BY <1>1 DEF Also, When
  <2> QED BY <2>1
<1>2. CASE ~condition
  <2>1. Also(condition, s) = <<>> /\ When(condition, X) = {}
    BY <1>2 DEF Also, When
  <2> QED BY <2>1 DEF Lists, Range
<1> QED BY <1>1, <1>2

ServiceNames == {ServiceEnv[i] : i \in 1..8}
LogNames == {LogEnv[i] : i \in 1..8}
LEMMA ServiceLists == Lists(ServiceEnv, ServiceNames)
  BY DEF Lists, ServiceEnv, ServiceNames, Range

LEMMA LogLists == Lists(LogEnv, LogNames) /\ LogNames \cap ServiceNames = {}
  BY DEF Lists, LogEnv, LogNames, ServiceEnv, ServiceNames, Range

\* What the proxy's list is made of, and who is in it: the group of the configuration files
\* exactly when they are not left to root.
LEMMA ProxyLists ==
  ASSUME NEW d, NEW e, d.api_signing_pubkey \in BOOLEAN, d.independent_verification \in BOOLEAN,
         e.amd_kds_base_url \in BOOLEAN, e.kbs_ca_cert \in BOOLEAN
  PROVE  \E names, X :
           /\ ProxyEnv(d, e) = Platform(names) /\ Lists(names, X)
           /\ "CAP_CONFIG_FILE_GID" \in X <=> ~UsesRootManagedConfig(d.oci)
<1> DEFINE p1 == <<"ATTESTATION_WORKLOAD_CONTAINER", "ATTESTATION_POD_NAME",
                   "ATTESTATION_POD_NAMESPACE", "ATTESTATION_PROFILE",
                   "ATTESTATION_RUNTIME_CLASS", "ATTESTATION_WORKLOAD_IMAGE",
                   "ATTESTATION_BIND", "ATTESTATION_TLS_BIND", "ATTESTATION_TLS_PORT",
                   "TEE_DOMAIN">>
           p2 == <<"CAP_API_SIGNING_PUBKEY">>
           p3 == <<"CAP_CONFIG_DIR", "CAP_CONFIG_READY_MARKER", "STORAGE_OWNERSHIP_MODE",
                   "INSTANCE_ID", "OWNER_CIPHERTEXT_BACKEND", "OWNER_SEED_HANDOFF_SLOTS",
                   "OWNERSHIP_MOUNT_PATH", "KBS_RESOURCE_URL", "KBS_RESOURCE_CACHE_SECONDS",
                   "KBS_RESOURCE_FAILURE_CACHE_SECONDS", "KBS_FETCH_RETRIES",
                   "KBS_FETCH_RETRY_SLEEP_SECONDS", "KBS_FETCH_MAX_SLEEP_SECONDS",
                   "KBS_FETCH_REQUEST_TIMEOUT_SECONDS">>
           p4 == <<"CAP_CONFIG_FILE_GID">>
           p5 == <<"AMD_KDS_BASE_URL">>
           p6 == <<"CAP_CONFIG_REQUIRED_KEYS">>
           p7 == <<"ENCLAVA_CONTAINER_NAME", "ENCLAVA_STARTED_DIR",
                   "ENCLAVA_INIT_UNLOCK_SOCKET">>
           p8 == <<"PROOF_TLS_CERT_PATH">>
           p9 == <<"KBS_RESOURCE_CA_CERT_PEM">>
           c2 == d.api_signing_pubkey
           c4 == ~UsesRootManagedConfig(d.oci)
           c5 == e.amd_kds_base_url
           c6 == RequiredConfigKeys(d.oci) # NoKeys
           c8 == d.independent_verification
           c9 == e.kbs_ca_cert
<1> DEFINE N1 == {p1[i] : i \in 1..10}
           N3 == {p3[i] : i \in 1..14}
           N7 == {p7[i] : i \in 1..3}
<1>1. /\ Lists(p1, N1) /\ Lists(p2, {"CAP_API_SIGNING_PUBKEY"}) /\ Lists(p3, N3)
      /\ Lists(p4, {"CAP_CONFIG_FILE_GID"}) /\ Lists(p5, {"AMD_KDS_BASE_URL"})
      /\ Lists(p6, {"CAP_CONFIG_REQUIRED_KEYS"}) /\ Lists(p7, N7)
      /\ Lists(p8, {"PROOF_TLS_CERT_PATH"}) /\ Lists(p9, {"KBS_RESOURCE_CA_CERT_PEM"})
  <2>1. Lists(p1, N1)
    BY DEF Lists, Range
  <2>2. Lists(p3, N3)
    BY DEF Lists, Range
  <2>3. Lists(p7, N7)
    BY DEF Lists, Range
  <2>4. \A x : Lists(<<x>>, {x})
    BY DEF Lists, Range
  <2> QED BY <2>1, <2>2, <2>3, <2>4
<1> DEFINE W2 == When(c2, {"CAP_API_SIGNING_PUBKEY"})
           W4 == When(c4, {"CAP_CONFIG_FILE_GID"})
           W5 == When(c5, {"AMD_KDS_BASE_URL"})
           W6 == When(c6, {"CAP_CONFIG_REQUIRED_KEYS"})
           W8 == When(c8, {"PROOF_TLS_CERT_PATH"})
           W9 == When(c9, {"KBS_RESOURCE_CA_CERT_PEM"})
<1>2. /\ Lists(Also(c2, p2), W2) /\ Lists(Also(c4, p4), W4) /\ Lists(Also(c5, p5), W5)
      /\ Lists(Also(c6, p6), W6) /\ Lists(Also(c8, p8), W8) /\ Lists(Also(c9, p9), W9)
  <2>1. c2 \in BOOLEAN /\ c4 \in BOOLEAN /\ c5 \in BOOLEAN /\ c6 \in BOOLEAN
        /\ c8 \in BOOLEAN /\ c9 \in BOOLEAN
    BY DEF UsesRootManagedConfig
  <2> HIDE DEF p2, p4, p5, p6, p8, p9, c2, c4, c5, c6, c8, c9
  <2> QED BY <1>1, <2>1, AlsoLists
<1>3. /\ W2 \subseteq {"CAP_API_SIGNING_PUBKEY"} /\ W4 \subseteq {"CAP_CONFIG_FILE_GID"}
      /\ W5 \subseteq {"AMD_KDS_BASE_URL"} /\ W6 \subseteq {"CAP_CONFIG_REQUIRED_KEYS"}
      /\ W8 \subseteq {"PROOF_TLS_CERT_PATH"} /\ W9 \subseteq {"KBS_RESOURCE_CA_CERT_PEM"}
      /\ "CAP_CONFIG_FILE_GID" \in W4 <=> c4
  BY DEF When
<1> DEFINE q2 == p1 \o Also(c2, p2)
           q3 == q2 \o p3
           q4 == q3 \o Also(c4, p4)
           q5 == q4 \o Also(c5, p5)
           q6 == q5 \o Also(c6, p6)
           q7 == q6 \o p7
           q8 == q7 \o Also(c8, p8)
           q9 == q8 \o Also(c9, p9)
           names == q9 \o ServiceEnv
           X2 == N1 \cup W2
           X3 == X2 \cup N3
           X4 == X3 \cup W4
           X5 == X4 \cup W5
           X6 == X5 \cup W6
           X7 == X6 \cup N7
           X8 == X7 \cup W8
           X9 == X8 \cup W9
           X  == X9 \cup ServiceNames
<1>4. N1 = {"ATTESTATION_WORKLOAD_CONTAINER", "ATTESTATION_POD_NAME",
            "ATTESTATION_POD_NAMESPACE", "ATTESTATION_PROFILE",
            "ATTESTATION_RUNTIME_CLASS", "ATTESTATION_WORKLOAD_IMAGE",
            "ATTESTATION_BIND", "ATTESTATION_TLS_BIND", "ATTESTATION_TLS_PORT", "TEE_DOMAIN"}
  OBVIOUS
<1>5. N3 = {"CAP_CONFIG_DIR", "CAP_CONFIG_READY_MARKER", "STORAGE_OWNERSHIP_MODE",
            "INSTANCE_ID", "OWNER_CIPHERTEXT_BACKEND", "OWNER_SEED_HANDOFF_SLOTS",
            "OWNERSHIP_MOUNT_PATH", "KBS_RESOURCE_URL", "KBS_RESOURCE_CACHE_SECONDS",
            "KBS_RESOURCE_FAILURE_CACHE_SECONDS", "KBS_FETCH_RETRIES",
            "KBS_FETCH_RETRY_SLEEP_SECONDS", "KBS_FETCH_MAX_SLEEP_SECONDS",
            "KBS_FETCH_REQUEST_TIMEOUT_SECONDS"}
  OBVIOUS
<1>6. N7 = {"ENCLAVA_CONTAINER_NAME", "ENCLAVA_STARTED_DIR", "ENCLAVA_INIT_UNLOCK_SOCKET"}
  OBVIOUS
<1>7. ServiceNames =
        {"KUBERNETES_SERVICE_PORT", "KUBERNETES_SERVICE_PORT_HTTPS", "KUBERNETES_PORT",
         "KUBERNETES_PORT_443_TCP", "KUBERNETES_PORT_443_TCP_PROTO",
         "KUBERNETES_PORT_443_TCP_PORT", "KUBERNETES_PORT_443_TCP_ADDR",
         "KUBERNETES_SERVICE_HOST"}
  BY DEF ServiceNames, ServiceEnv
<1>8. /\ N1 \cap W2 = {} /\ X2 \cap N3 = {} /\ X3 \cap W4 = {} /\ X4 \cap W5 = {}
      /\ X5 \cap W6 = {} /\ X6 \cap N7 = {} /\ X7 \cap W8 = {} /\ X8 \cap W9 = {}
      /\ X9 \cap ServiceNames = {}
      /\ "CAP_CONFIG_FILE_GID" \in X <=> c4
  <2> HIDE DEF N1, N3, N7, W2, W4, W5, W6, W8, W9, c4
  <2> QED BY <1>3, <1>4, <1>5, <1>6, <1>7
<1> HIDE DEF p1, p2, p3, p4, p5, p6, p7, p8, p9, N1, N3, N7, W2, W4, W5, W6, W8, W9
<1> HIDE DEF X2, X3, X4, X5, X6, X7, X8, X9, c2, c4, c5, c6, c8, c9
<1>9. Lists(names, X)
  <2>2. Lists(q2, X2)
    BY <1>1, <1>2, <1>8, ListsConcat DEF X2
  <2> HIDE DEF q2
  <2>3. Lists(q3, X3)
    BY <1>1, <1>8, <2>2, ListsConcat DEF X3
  <2> HIDE DEF q3
  <2>4. Lists(q4, X4)
    BY <1>2, <1>8, <2>3, ListsConcat DEF X4
  <2> HIDE DEF q4
  <2>5. Lists(q5, X5)
    BY <1>2, <1>8, <2>4, ListsConcat DEF X5
  <2> HIDE DEF q5
  <2>6. Lists(q6, X6)
    BY <1>2, <1>8, <2>5, ListsConcat DEF X6
  <2> HIDE DEF q6
  <2>7. Lists(q7, X7)
    BY <1>1, <1>8, <2>6, ListsConcat DEF X7
  <2> HIDE DEF q7
  <2>8. Lists(q8, X8)
    BY <1>2, <1>8, <2>7, ListsConcat DEF X8
  <2> HIDE DEF q8
  <2>9. Lists(q9, X9)
    BY <1>2, <1>8, <2>8, ListsConcat DEF X9
  <2> HIDE DEF q9
  <2> QED BY <1>8, <2>9, ServiceLists, ListsConcat
<1>10. ProxyEnv(d, e) = Platform(names)
  BY DEF ProxyEnv, p1, p2, p3, p4, p5, p6, p7, p8, p9, c2, c4, c5, c6, c8, c9
<1> HIDE DEF names, X
<1> QED BY <1>8, <1>9, <1>10 DEF c4

LEMMA IngressLists == \E names, X : IngressEnv = Platform(names) /\ Lists(names, X)
<1> DEFINE p == <<"POD_NAME", "POD_NAMESPACE", "CADDY_SEED_PATH", "VOLUME_MOUNT_POINT",
                  "XDG_DATA_HOME", "XDG_CONFIG_HOME", "HOME", "ENCLAVA_CONTAINER_NAME",
                  "ENCLAVA_STARTED_DIR", "ENCLAVA_INIT_READY_FILE">>
           N == {p[i] : i \in 1..10}
<1>1. Lists(p, N)
  BY DEF Lists, Range
<1>2. N \cap ServiceNames = {}
  BY DEF ServiceNames, ServiceEnv
<1>3. IngressEnv = Platform(p \o ServiceEnv)
  BY DEF IngressEnv
<1> HIDE DEF p, N
<1> QED BY <1>1, <1>2, <1>3, ServiceLists, ListsConcat

LEMMA InitLists ==
  ASSUME NEW log \in BOOLEAN
  PROVE  \E names, X : InitEnv(log) = Platform(names) /\ Lists(names, X)
<1> DEFINE p == <<"ENCLAVA_INIT_CONFIG", "ENCLAVA_INIT_STAY_ALIVE", "ENCLAVA_INIT_READY_FILE",
                  "ENCLAVA_INIT_STARTED_DIR", "ENCLAVA_INIT_UNLOCK_SOCKET_GID",
                  "ENCLAVA_INIT_WAIT_FOR_CONTAINERS", "KBS_FETCH_RETRIES",
                  "KBS_FETCH_RETRY_SLEEP_SECONDS", "KBS_FETCH_REQUEST_TIMEOUT_SECONDS">>
           q == <<"ENCLAVA_LOG_RELAY_BIND", "ENCLAVA_LOG_RELAY_CONTAINER",
                  "ENCLAVA_LOG_RELAY_SPOOL_PATH">>
           N == {p[i] : i \in 1..9}
           M == {q[i] : i \in 1..3}
           W == When(log, M)
<1>1. Lists(p, N) /\ Lists(q, M)
  BY DEF Lists, Range
<1>2. N \cap W = {} /\ (N \cup W) \cap ServiceNames = {}
  BY DEF ServiceNames, ServiceEnv, When
<1>3. InitEnv(log) = Platform((p \o Also(log, q)) \o ServiceEnv)
  BY DEF InitEnv
<1> HIDE DEF p, q, N, M
<1>4. Lists(Also(log, q), W)
  BY <1>1, AlsoLists
<1> HIDE DEF W
<1> DEFINE r == p \o Also(log, q)
<1>5. Lists(r, N \cup W)
  BY <1>1, <1>2, <1>4, ListsConcat
<1> HIDE DEF r
<1>6. Lists(r \o ServiceEnv, (N \cup W) \cup ServiceNames)
  BY <1>2, <1>5, ServiceLists, ListsConcat
<1> QED BY <1>3, <1>6 DEF r

LEMMA PlatformPartLists ==
  ASSUME NEW log \in BOOLEAN
  PROVE  \E X : Lists(Also(log, LogEnv) \o ServiceEnv, X)
<1>1. Lists(Also(log, LogEnv), When(log, LogNames)) /\ When(log, LogNames) \subseteq LogNames
  BY LogLists, AlsoLists DEF When
<1>2. When(log, LogNames) \cap ServiceNames = {}
  BY <1>1, LogLists
<1> QED BY <1>1, <1>2, ServiceLists, ListsConcat

\* What the platform sets is named once: in a list it sets alone, and after what the
\* descriptor sets.
SetOnce(env) ==
  \A i, j \in DOMAIN env : i < j /\ env[i].by = "platform" => env[i].name # env[j].name

LEMMA PlatformOnce ==
  ASSUME NEW names, NEW X, Lists(names, X)
  PROVE  SetOnce(Platform(names))
<1>1. DOMAIN names \subseteq Int
  BY DEF Lists
<1> QED BY <1>1 DEF Lists, SetOnce, Platform, Var

LEMMA AppOnce ==
  ASSUME NEW vars1, NEW n \in Nat, vars1 = [i \in 1..n |-> vars1[i]],
         \A i \in 1..n : vars1[i].by = "descriptor",
         NEW names, NEW X, Lists(names, X)
  PROVE  SetOnce(vars1 \o Platform(names))
<1> DEFINE p == Platform(names)
<1>1. names \in Seq(X) /\ DOMAIN names = 1..Len(names) /\ Len(names) \in Nat
  BY DEF Lists
<1>2. p \in Seq(Range(p)) /\ Len(p) = Len(names)
  BY <1>1 DEF Platform, Range
<1>3. vars1 \in Seq(Range(vars1)) /\ Len(vars1) = n
  BY DEF Range
<1> DEFINE u == vars1 \o p
<1>4. /\ DOMAIN u = 1..(n + Len(names))
      /\ \A i \in 1..(n + Len(names)) : u[i] = IF i <= n THEN vars1[i] ELSE p[i - n]
  <2> HIDE DEF p
  <2> QED BY <1>1, <1>2, <1>3
<1>5. SetOnce(p)
  BY PlatformOnce
<1> HIDE DEF u
<1> SUFFICES ASSUME NEW i \in DOMAIN u, NEW j \in DOMAIN u, i < j, u[i].by = "platform"
             PROVE  u[i].name # u[j].name
  BY DEF SetOnce, u
<1>6. ~(i <= n)
  BY <1>1, <1>4
<1>7. i - n \in 1..Len(names) /\ j - n \in 1..Len(names) /\ i - n < j - n /\ ~(j <= n)
  BY <1>1, <1>4, <1>6
<1>8. u[i] = p[i - n] /\ u[j] = p[j - n] /\ i - n \in DOMAIN p /\ j - n \in DOMAIN p
  <2>1. DOMAIN p = 1..Len(names)
    BY <1>1 DEF Platform
  <2> HIDE DEF p
  <2> QED BY <1>4, <1>6, <1>7, <2>1
<1> HIDE DEF p
<1> QED BY <1>5, <1>7, <1>8 DEF SetOnce

\* The parts of an input that the environments depend on.
LEMMA EnvironmentParts ==
  ASSUME NEW i \in Inputs
  PROVE  /\ i.log \in BOOLEAN
         /\ i.descriptor.api_signing_pubkey \in BOOLEAN
         /\ i.descriptor.independent_verification \in BOOLEAN
         /\ i.environment.amd_kds_base_url \in BOOLEAN /\ i.environment.kbs_ca_cert \in BOOLEAN
         /\ i.descriptor.oci.env \in Seq([name : STRING, value : KeyText])
  BY InputsAssumption DEF Input, Descriptor, Environment, OciRuntimeSpec

LEMMA ProxyOf ==
  ASSUME NEW i \in Inputs
  PROVE  \E names, X :
           /\ ProxyEnv(i.descriptor, i.environment) = Platform(names) /\ Lists(names, X)
           /\ "CAP_CONFIG_FILE_GID" \in X <=> ~UsesRootManagedConfig(i.descriptor.oci)
<1> DEFINE d == i.descriptor
           e == i.environment
<1>1. /\ d.api_signing_pubkey \in BOOLEAN /\ d.independent_verification \in BOOLEAN
      /\ e.amd_kds_base_url \in BOOLEAN /\ e.kbs_ca_cert \in BOOLEAN
  BY EnvironmentParts
<1> HIDE DEF d, e
<1>2. \E names, X :
        /\ ProxyEnv(d, e) = Platform(names) /\ Lists(names, X)
        /\ "CAP_CONFIG_FILE_GID" \in X <=> ~UsesRootManagedConfig(d.oci)
  BY <1>1, ProxyLists
<1> QED BY <1>2 DEF d, e

\* Whatever the descriptor: what the platform sets for a container of the Pod is what the
\* container sees, no later entry of its environment has the name.
THEOREM EnvironmentCorrect == Spec => []PlatformEnvironment
<1>1. InputGiven => PlatformEnvironment
  <2> SUFFICES ASSUME input \in Inputs, NEW c \in Containers
               PROVE  SetOnce(TheManifest.env[c])
    BY DEF InputGiven, PlatformEnvironment, SetOnce
  <2> DEFINE d == input.descriptor
             e == input.environment
             env == Environments(d, input.log, e)[c]
  <2>1. TheManifest.env[c] = env
    BY DEF TheManifest, Manifest
  <2>2. CASE c = "web"
    <3> DEFINE own == [i \in DOMAIN d.oci.env |-> Var(d.oci.env[i].name, "descriptor")]
               names == Also(input.log, LogEnv) \o ServiceEnv
    <3>1. env = own \o Platform(names)
      BY <2>2 DEF Environments, Containers, AppEnv
    <3>2. PICK X : Lists(names, X)
      BY EnvironmentParts, PlatformPartLists
    <3>3. PICK n \in Nat : DOMAIN d.oci.env = 1..n
      BY EnvironmentParts
    <3>4. own = [i \in 1..n |-> own[i]] /\ \A i \in 1..n : own[i].by = "descriptor"
      BY <3>3 DEF Var
    <3> HIDE DEF own, names, env
    <3> QED BY <2>1, <3>1, <3>2, <3>4, AppOnce
  <2>3. CASE c = "attestation-proxy"
    <3>1. env = ProxyEnv(d, e)
      BY <2>3 DEF Environments, Containers
    <3>2. PICK names, X : ProxyEnv(d, e) = Platform(names) /\ Lists(names, X)
      BY ProxyOf
    <3> HIDE DEF env
    <3> QED BY <2>1, <3>1, <3>2, PlatformOnce
  <2>4. CASE c = "tenant-ingress"
    <3>1. env = IngressEnv
      BY <2>4 DEF Environments, Containers
    <3>2. PICK names, X : IngressEnv = Platform(names) /\ Lists(names, X)
      BY IngressLists
    <3> HIDE DEF env
    <3> QED BY <2>1, <3>1, <3>2, PlatformOnce
  <2>5. CASE c = "enclava-tools"
    <3>1. env = <<>>
      BY <2>5 DEF Environments, Containers
    <3> QED BY <2>1, <3>1 DEF SetOnce
  <2>6. CASE c = "enclava-init"
    <3>1. env = InitEnv(input.log)
      BY <2>6 DEF Environments, Containers
    <3>2. PICK names, X : InitEnv(input.log) = Platform(names) /\ Lists(names, X)
      BY EnvironmentParts, InitLists
    <3> HIDE DEF env
    <3> QED BY <2>1, <3>1, <3>2, PlatformOnce
  <2> QED BY <2>2, <2>3, <2>4, <2>5, <2>6 DEF Containers
<1> QED BY InputKept, <1>1, PTL

LEMMA ProfileParts ==
  ASSUME NEW oci, UsesRootManagedConfig(oci)
  PROVE  /\ oci.security_context.run_as_user = 0 /\ oci.security_context.run_as_group = 0
         /\ Len(oci.capabilities.add) # 0
<1>1. CASE IsProfile(oci, TRUE, FALSE, 5, PLATFORM_MANAGED_SSH_RELAY_CAPS)
  BY <1>1 DEF IsProfile
<1>2. CASE IsProfile(oci, FALSE, TRUE, 6, ROOTFUL_SUDO_CAPS)
  BY <1>2 DEF IsProfile
<1> QED BY <1>1, <1>2, Zenon DEF UsesRootManagedConfig

\* Whoever manages its configuration as root runs as root, and a context that the floor lets
\* escalate is one of these.
LEMMA RootManaged ==
  ASSUME NEW i \in Inputs
  PROVE  LET oci == i.descriptor.oci
             web == AppSecurityContext(oci)
         IN  /\ UsesRootManagedConfig(oci) => web.run_as_user = 0 /\ web.run_as_group = 0
             /\ SecurityFloor(oci) /\ web.allow_privilege_escalation
                  => UsesRootManagedConfig(oci)
<1> DEFINE oci == i.descriptor.oci
           web == AppSecurityContext(oci)
           sec == oci.security_context
<1>1. /\ sec \in SecurityContext
      /\ oci.capabilities.add \in Seq(Capability)
  BY SpecParts DEF Capabilities
<1>2. ASSUME UsesRootManagedConfig(oci) PROVE web.run_as_user = 0 /\ web.run_as_group = 0
  <2>1. Len(oci.capabilities.add) # 0 /\ sec.run_as_user = 0 /\ sec.run_as_group = 0
    BY <1>2, ProfileParts
  <2>2. ~HasLegacyUnsetSecurity(oci)
    BY <2>1 DEF HasLegacyUnsetSecurity
  <2> QED BY <2>1, <2>2 DEF AppSecurityContext, Context
<1>3. ASSUME SecurityFloor(oci), web.allow_privilege_escalation PROVE UsesRootManagedConfig(oci)
  <2>1. ~HasLegacyUnsetSecurity(oci)
    BY <1>3 DEF AppSecurityContext, Context
  <2>2. sec.allow_privilege_escalation
    BY <1>3, <2>1 DEF AppSecurityContext, Context
  <2>3. UsesRootfulSudo(oci)
    BY <1>3, <2>2 DEF SecurityFloor
  <2>4. sec = [run_as_user |-> 0, run_as_group |-> 0, read_only_root_fs |-> FALSE,
               allow_privilege_escalation |-> TRUE, privileged |-> FALSE]
    BY <1>1, <2>3 DEF UsesRootfulSudo, SecurityContext
  <2> QED BY <2>3, <2>4 DEF UsesRootManagedConfig, IsProfile, UsesRootfulSudo,
                           CapabilitiesMatchRootfulSudo
<1> QED BY <1>2, <1>3

\* Whatever the descriptor: the application can read the files that the proxy writes for it,
\* by its group or as root, and these belong to root when it can gain privileges.
THEOREM ConfigCorrect == Spec => []ConfigReadable
<1>1. InputGiven => ConfigReadable
  <2> SUFFICES ASSUME input \in Inputs PROVE ConfigReadable
    BY DEF InputGiven
  <2> DEFINE oci == input.descriptor.oci
             grouped == \E v \in Range(TheManifest.env["attestation-proxy"]) :
                          v.name = "CAP_CONFIG_FILE_GID"
  <2>1. PICK names, X :
          /\ ProxyEnv(input.descriptor, input.environment) = Platform(names)
          /\ Lists(names, X)
          /\ "CAP_CONFIG_FILE_GID" \in X <=> ~UsesRootManagedConfig(oci)
    BY ProxyOf
  <2>2. TheManifest.env["attestation-proxy"] = Platform(names)
    BY <2>1 DEF TheManifest, Manifest, Environments, Containers
  <2>3. \A x : (\E v \in Range(Platform(names)) : v.name = x) <=> x \in Range(names)
    <3> SUFFICES ASSUME NEW x
                 PROVE  (\E v \in Range(Platform(names)) : v.name = x) <=> x \in Range(names)
      OBVIOUS
    <3>1. \A k \in DOMAIN names : Platform(names)[k].name = names[k]
      BY DEF Platform, Var
    <3>2. DOMAIN Platform(names) = DOMAIN names
      BY DEF Platform
    <3> QED BY <3>1, <3>2 DEF Range
  <2>4. grouped <=> ~UsesRootManagedConfig(oci)
    BY <2>1, <2>2, <2>3 DEF Lists
  <2>5. TheManifest.contexts["web"] = AppSecurityContext(oci)
    BY DEF TheManifest, Manifest, Contexts, Containers
  <2> HIDE DEF grouped
  <2>6. LET web == TheManifest.contexts["web"]
        IN  /\ ~grouped => web.run_as_user = 0 /\ web.run_as_group = 0
            /\ Signable /\ web.allow_privilege_escalation => ~grouped
    BY <2>4, <2>5, RootManaged DEF Signable
  <2> QED BY <2>6 DEF ConfigReadable, grouped
<1> QED BY InputKept, <1>1, PTL

-----------------------------------------------------------------------------
(* The rules.                                                              *)

LEMMA RelaxationRows ==
  /\ DOMAIN Relaxations = 1..5 /\ Len(Relaxations) = 5
  /\ Relaxations[1] = <<"pidns">> /\ Relaxations[2] = <<"rootfs">>
  /\ Relaxations[3] = <<"mount", "fsgroup", "storage">>
  /\ Relaxations[4] = <<"sandbox">> /\ Relaxations[5] = <<"count">>
  BY DEF Relaxations

\* The helpers of the checks K: heads and bodies, in which nothing calls a helper, each head
\* once.
Block(b, K) ==
  /\ b \in Seq(Line) /\ Len(b) > 0
  /\ b[1].is = "define" /\ b[Len(b)].is # "define"
  /\ \A i \in DOMAIN b : InHelper(b, i)
  /\ \A i \in DOMAIN b : b[i].is \in {"define", "check", "other"}
  /\ \A i \in DOMAIN b : b[i].is \in {"define", "check"} => b[i].of \in K
  /\ \A k \in K : \E j \in DOMAIN b : \A i \in DOMAIN b : b[i] = Text("define", k) <=> i = j

LEMMA HelperLines ==
  ASSUME NEW k \in Checks
  PROVE  \E y \in Line : /\ Helper(k) = <<Text("define", k), y>> /\ Helper(k) \in Seq(Line)
                         /\ y.is \in {"check", "other"} /\ (y.is = "check" => y.of = k)
<1> DEFINE y == IF k \in Verbatim THEN Text("check", k) ELSE Text("other", "-")
<1>1. /\ y \in Line /\ Text("define", k) \in Line
      /\ y.is \in {"check", "other"} /\ (y.is = "check" => y.of = k)
  BY DEF Text, Line
<1>2. Helper(k) = <<Text("define", k), y>>
  BY DEF Helper
<1> HIDE DEF y
<1> QED BY <1>1, <1>2

LEMMA OneHelper ==
  ASSUME NEW k \in Checks
  PROVE  Block(Helpers(<<k>>), {k})
<1>1. PICK y \in Line : /\ Helper(k) = <<Text("define", k), y>> /\ Helper(k) \in Seq(Line)
                        /\ y.is \in {"check", "other"} /\ (y.is = "check" => y.of = k)
  BY HelperLines
<1>2. Helpers(<<k>>) = <<Text("define", k), y>>
  <2>1. Helpers(<<k>>) = FlattenSeq(<<Helper(k)>>)
    BY DEF Helpers
  <2> QED BY <1>1, <2>1, FlattenOne
<1>3. Text("define", k) \in Line
  BY DEF Text, Line
<1> DEFINE b == <<Text("define", k), y>>
<1>4. Block(b, {k})
  <2>1. b \in Seq(Line) /\ Len(b) = 2 /\ DOMAIN b = {1, 2} /\ b[1] = Text("define", k) /\ b[2] = y
    BY <1>3
  <2>2. Text("define", k).is = "define" /\ Text("define", k).of = k
    BY DEF Text
  <2> HIDE DEF b
  <2>3. \A i \in DOMAIN b : InHelper(b, i)
    BY <2>1, <2>2 DEF InHelper
  <2>4. \A i \in DOMAIN b : b[i] = Text("define", k) <=> i = 1
    BY <1>1, <2>1, <2>2
  <2> QED BY <1>1, <2>1, <2>2, <2>3, <2>4 DEF Block
<1> QED BY <1>2, <1>4

LEMMA ThreeHelpers ==
  ASSUME NEW k \in Checks, NEW m \in Checks, NEW n \in Checks, k # m, k # n, m # n
  PROVE  Block(Helpers(<<k, m, n>>), {k, m, n})
<1>1. PICK y \in Line : /\ Helper(k) = <<Text("define", k), y>> /\ Helper(k) \in Seq(Line)
                        /\ y.is \in {"check", "other"} /\ (y.is = "check" => y.of = k)
  BY HelperLines
<1>2. PICK z \in Line : /\ Helper(m) = <<Text("define", m), z>> /\ Helper(m) \in Seq(Line)
                        /\ z.is \in {"check", "other"} /\ (z.is = "check" => z.of = m)
  BY HelperLines
<1>3. PICK w \in Line : /\ Helper(n) = <<Text("define", n), w>> /\ Helper(n) \in Seq(Line)
                        /\ w.is \in {"check", "other"} /\ (w.is = "check" => w.of = n)
  BY HelperLines
<1> DEFINE b == <<Text("define", k), y, Text("define", m), z, Text("define", n), w>>
<1>4. Helpers(<<k, m, n>>) = b
  <2>1. Helpers(<<k, m, n>>) = FlattenSeq(<<Helper(k), Helper(m), Helper(n)>>)
    BY DEF Helpers
  <2>2. Helpers(<<k, m, n>>) = (Helper(k) \o Helper(m)) \o Helper(n)
    <3>1. Helper(k) \in Seq(Line) /\ Helper(m) \in Seq(Line) /\ Helper(n) \in Seq(Line)
      BY <1>1, <1>2, <1>3
    <3>2. FlattenSeq(<<Helper(k), Helper(m), Helper(n)>>) = Cat(Cat(Helper(k), Helper(m)), Helper(n))
      BY <3>1, FlattenThree
    <3> QED BY <2>1, <3>2 DEF Cat
  <2> QED BY <1>1, <1>2, <1>3, <2>2
<1>5. Text("define", k) \in Line /\ Text("define", m) \in Line /\ Text("define", n) \in Line
  BY DEF Text, Line
<1>6. Block(b, {k, m, n})
  <2>1. /\ b \in Seq(Line) /\ Len(b) = 6 /\ DOMAIN b = 1..6 /\ b[1] = Text("define", k)
        /\ b[2] = y /\ b[3] = Text("define", m) /\ b[4] = z /\ b[5] = Text("define", n)
        /\ b[6] = w
    BY <1>5
  <2>2. \A x : Text("define", x).is = "define" /\ Text("define", x).of = x
    BY DEF Text
  <2> HIDE DEF b
  <2>3. \A i \in DOMAIN b : InHelper(b, i)
    <3>1. \A i \in DOMAIN b : b[i].is = "define" \/ (i > 1 /\ b[i - 1].is = "define")
      BY <2>1, <2>2
    <3> QED BY <3>1 DEF InHelper
  <2>4. /\ \A i \in DOMAIN b : b[i] = Text("define", k) <=> i = 1
        /\ \A i \in DOMAIN b : b[i] = Text("define", m) <=> i = 3
        /\ \A i \in DOMAIN b : b[i] = Text("define", n) <=> i = 5
    BY <1>1, <1>2, <1>3, <2>1, <2>2
  <2>5. /\ \A i \in DOMAIN b : b[i].is \in {"define", "check", "other"}
        /\ \A i \in DOMAIN b : b[i].is \in {"define", "check"} => b[i].of \in {k, m, n}
    BY <1>1, <1>2, <1>3, <2>1, <2>2
  <2>6. 1 \in DOMAIN b /\ 3 \in DOMAIN b /\ 5 \in DOMAIN b
    BY <2>1
  <2>7. \A q \in {k, m, n} :
          \E j \in DOMAIN b : \A i \in DOMAIN b : b[i] = Text("define", q) <=> i = j
    BY <2>4, <2>6
  <2>8. Len(b) > 0 /\ b[1].is = "define" /\ b[Len(b)].is # "define"
    BY <1>3, <2>1, <2>2
  <2> QED BY <2>1, <2>3, <2>5, <2>7, <2>8 DEF Block
<1> QED BY <1>4, <1>6

LEMMA HelpersBlock ==
  ASSUME NEW n \in DOMAIN Relaxations
  PROVE  Block(Helpers(Relaxations[n]), ToSet(Relaxations[n]))
<1>1. /\ "pidns" \in Checks /\ "rootfs" \in Checks /\ "mount" \in Checks
      /\ "fsgroup" \in Checks /\ "storage" \in Checks /\ "sandbox" \in Checks
      /\ "count" \in Checks
  BY DEF Checks
<1>2. /\ \A k : ToSet(<<k>>) = {k}
      /\ \A k, l, m : ToSet(<<k, l, m>>) = {k, l, m}
  BY DEF ToSet
<1>3. Block(Helpers(<<"mount", "fsgroup", "storage">>), {"mount", "fsgroup", "storage"})
  BY <1>1, ThreeHelpers
<1> QED BY <1>1, <1>2, <1>3, OneHelper, RelaxationRows

\* u is text with block inserted after position at.
InsertedAt(u, text, block, at) ==
  /\ u \in Seq(Line) /\ Len(u) = Len(text) + Len(block)
  /\ \A i \in 1..at : u[i] = text[i]
  /\ \A i \in 1..Len(block) : u[at + i] = block[i]
  /\ \A i \in (at + 1)..Len(text) : u[i + Len(block)] = text[i]

\* A block is inserted right after a default line, or in front when there is none.
LEMMA InsertedLines ==
  ASSUME NEW text \in Seq(Line), NEW block \in Seq(Line)
  PROVE  \E at \in 0..Len(text) :
           /\ InsertedAt(Inserted(text, block), text, block, at)
           /\ at # 0 => text[at].is = "default"
           /\ Has(text, "default", "-") => at # 0
<1> DEFINE I == {i \in 1..Len(text) : text[i].is = "default"}
           at == IF I # {} THEN Min(I) ELSE 0
           u == SubSeq(text, 1, at) \o block \o SubSeq(text, at + 1, Len(text))
<1>1. Inserted(text, block) = u
  BY DEF Inserted, SelectInSeq
<1>2. at \in 0..Len(text) /\ (at # 0 => text[at].is = "default") /\ (I # {} => at # 0)
  <2>1. CASE I = {}
    BY <2>1
  <2>2. CASE I # {}
    <3>1. I \in SUBSET Nat
      OBVIOUS
    <3>2. Min(I) \in I
      <4> HIDE DEF I
      <4> QED BY <2>2, <3>1, MinProperty
    <3>3. at = Min(I)
      BY <2>2
    <3> HIDE DEF at
    <3> QED BY <3>2, <3>3
  <2> QED BY <2>1, <2>2
<1>3. Has(text, "default", "-") => I # {}
  BY DEF Has, Text
<1> HIDE DEF I, at
<1>4. InsertedAt(u, text, block, at)
  <2> DEFINE front == SubSeq(text, 1, at)
             back  == SubSeq(text, at + 1, Len(text))
  <2>1. /\ front \in Seq(Line) /\ Len(front) = at /\ \A i \in 1..at : front[i] = text[i]
    BY <1>2
  <2>2. /\ back \in Seq(Line) /\ Len(back) = Len(text) - at
        /\ \A i \in 1..(Len(text) - at) : back[i] = text[at + i]
    BY <1>2
  <2> HIDE DEF front, back
  <2> DEFINE f == front \o block
             w == f \o back
  <2>3. /\ f \in Seq(Line) /\ Len(f) = at + Len(block)
        /\ \A i \in 1..at : f[i] = text[i]
        /\ \A i \in 1..Len(block) : f[at + i] = block[i]
    BY <1>2, <2>1
  <2> HIDE DEF f
  <2>8. /\ w \in Seq(Line) /\ Len(w) = Len(f) + Len(back)
        /\ \A i \in 1..Len(f) : w[i] = f[i]
        /\ \A i \in 1..Len(back) : w[Len(f) + i] = back[i]
    <3>1. f \in Seq(Line) /\ back \in Seq(Line)
      BY <2>2, <2>3
    <3> QED BY <3>1
  <2> HIDE DEF w
  <2>4. /\ w \in Seq(Line) /\ Len(w) = at + Len(block) + (Len(text) - at)
        /\ \A i \in 1..(at + Len(block)) : w[i] = f[i]
        /\ \A i \in 1..(Len(text) - at) : w[at + Len(block) + i] = back[i]
    BY <2>2, <2>3, <2>8
  <2>5. \A i \in (at + 1)..Len(text) : w[i + Len(block)] = text[i]
    <3> SUFFICES ASSUME NEW i \in (at + 1)..Len(text) PROVE w[i + Len(block)] = text[i]
      OBVIOUS
    <3>1. i - at \in 1..(Len(text) - at) /\ at + (i - at) = i
          /\ at + Len(block) + (i - at) = i + Len(block)
      BY <1>2
    <3> QED BY <2>2, <2>4, <3>1
  <2>6. \A i \in 1..at : w[i] = text[i]
    <3>1. \A i \in 1..at : i \in 1..(at + Len(block)) /\ f[i] = text[i]
      BY <1>2, <2>3
    <3> QED BY <2>4, <3>1
  <2>7. \A i \in 1..Len(block) : w[at + i] = block[i]
    <3>1. \A i \in 1..Len(block) : at + i \in 1..(at + Len(block)) /\ f[at + i] = block[i]
      BY <1>2, <2>3
    <3> QED BY <2>4, <3>1
  <2>9. Len(w) = Len(text) + Len(block)
    BY <1>2, <2>4
  <2> QED BY <2>4, <2>5, <2>6, <2>7, <2>9 DEF InsertedAt, w, f, front, back
<1> HIDE DEF u
<1> QED BY <1>1, <1>2, <1>3, <1>4

LEMMA ReplacedType ==
  ASSUME NEW text \in Seq(Line), NEW K \in SUBSET Checks
  PROVE  Replaced(text, K) \in Seq(Line)
<1>1. \A k \in Checks : Text("use", k) \in Line
  BY DEF Text, Line
<1>2. \A i \in DOMAIN text :
        (IF text[i].is = "check" /\ text[i].of \in K THEN Text("use", text[i].of) ELSE text[i])
          \in Line
  BY <1>1
<1> QED BY <1>2 DEF Replaced

LEMMA RowChecks ==
  ASSUME NEW n \in DOMAIN Relaxations
  PROVE  ToSet(Relaxations[n]) \in SUBSET Checks
  BY RelaxationRows DEF ToSet, Checks

LEMMA RelaxType ==
  ASSUME NEW text \in Seq(Line), NEW n \in DOMAIN Relaxations
  PROVE  Relax(text, Relaxations[n]) \in Seq(Line)
<1> DEFINE K == ToSet(Relaxations[n])
           b == Helpers(Relaxations[n])
           t == Replaced(text, K)
<1>1. t \in Seq(Line)
  BY ReplacedType, RowChecks
<1>2. b \in Seq(Line)
  BY HelpersBlock DEF Block
<1>3. Inserted(t, b) \in Seq(Line)
  <2> HIDE DEF t, b
  <2> QED BY <1>1, <1>2, InsertedLines DEF InsertedAt
<1> QED BY <1>3 DEF Relax

-----------------------------------------------------------------------------
(* Types.                                                                  *)

\* The calls of genpolicy before each label, and the rows of each table.
Counted ==
  /\ pc \in {"render", "prepare", "first"} => attempts = 0
  /\ pc = "retry" => attempts = 1
  /\ pc \notin {"correct", "relax"} /\ pc # "failed" => row = 1
  /\ pc = "relax" => row \in DOMAIN Relaxations

TypeInv == TypeOK /\ InputGiven /\ Counted

LEMMA InitTypeInv == Init => TypeInv
<1> SUFFICES ASSUME Init PROVE TypeInv
  OBVIOUS
<1>1. input.descriptor \in Descriptor /\ input.rules \in Seq(Line)
  BY InputsAssumption DEF Init, Input
<1>2. why # "-" <=> pc = "failed"
  BY DEF Init
<1>3. TypeOK
  <2>1. /\ pc = "render" /\ why = "-" /\ extras = {} /\ attempts = 0
        /\ outage = FALSE /\ data = output /\ rules = input.rules /\ row = 1
    BY DEF Init
  <2>2. rules \in Seq(Line)
    BY <1>1, <2>1
  <2>3. outage \in BOOLEAN
    BY <2>1
  <2>4. data.containers = output.containers
    BY <2>1, Zenon
  <2>5. pc = "render" /\ why = "-" /\ extras \subseteq input.extras \cup input.dropIns /\ attempts = 0 /\ row = 1
    BY <2>1
  <2> QED BY <1>1, <2>2, <2>3, <2>4, <2>5 DEF TypeOK
<1> QED BY <1>3 DEF Init, TypeInv, InputGiven, Counted

LEMMA StepTypeInv == TypeInv /\ DataInv /\ [Next]_vars => TypeInv'
<1> SUFFICES ASSUME TypeInv, DataInv, [Next]_vars PROVE TypeInv'
  OBVIOUS
<1> USE DEF TypeInv, InputGiven
<1>1. CASE Render
  BY <1>1 DEF Render, Fail, TypeOK, Counted
<1>2. CASE Prepare
  BY <1>2 DEF Prepare, Fail, TypeOK, Counted
<1>3. CASE IoError
  BY <1>3 DEF IoError, Fail, TypeOK, Counted
<1>4. CASE First
  BY <1>4 DEF First, Call, Answered, Fail, TypeOK, Counted
<1>5. CASE Retry
  BY <1>5 DEF Retry, Call, Answered, Fail, TypeOK, Counted
<1>6. CASE Parse
  BY <1>6 DEF Parse, Fail, TypeOK, Counted
<1>7. CASE Correct
  <2>1. pc = "correct" /\ IsPolicy(data)
    BY <1>7 DEF Correct, DataInv, DataGiven
  <2>2. data'.containers = data.containers
    <3>1. data' = data \/ \E y : data' = [data EXCEPT !.mounts = y]
      BY <1>7 DEF Correct
    <3>2. \A y : [data EXCEPT !.mounts = y].containers = data.containers
      <4> TAKE y
      <4> DEFINE o == [data EXCEPT !.mounts = y]
      <4>1. IsPolicy(o) /\ o.mounts = y /\ o.containers = data.containers
        BY <2>1, PolicyParts
      <4> QED BY <4>1
    <3> QED BY <3>1, <3>2
  <2>3. /\ UNCHANGED <<input, extras, attempts, outage, output, rules>>
        /\ \/ Advance(Len(Table), "relax") /\ why' = why
           \/ pc' = "failed" /\ why' = "shape" /\ row' = row
    BY <1>7 DEF Correct, Fail
  <2>7. \/ pc' \in {"correct", "relax"} /\ why' = why /\ row' \in 1..7
           /\ (pc' = "relax" => row' = 1)
        \/ pc' = "failed" /\ why' = "shape" /\ row' = row
    BY <2>1, <2>3, TableRows DEF Advance, TypeOK
  <2>4. 1 \in DOMAIN Relaxations
    BY RelaxationRows
  <2>5. TypeOK'
    BY <2>1, <2>2, <2>3, <2>7 DEF TypeOK
  <2>6. Counted'
    BY <2>1, <2>3, <2>4, <2>7 DEF Counted
  <2> QED BY <2>3, <2>5, <2>6
<1>8. CASE RelaxRow
  <2>1. row \in 1..5 /\ row \in DOMAIN Relaxations /\ rules' \in Seq(Line)
    BY <1>8, RelaxationRows, RelaxType DEF RelaxRow, TypeOK, Counted
  <2>2. /\ \/ pc' = "relax" /\ row' = row + 1 /\ row # 5
           \/ pc' = "label" /\ row' = 1
        /\ pc = "relax" /\ UNCHANGED <<input, why, extras, attempts, outage, output, data>>
    BY <1>8, RelaxationRows DEF RelaxRow, Advance
  <2>3. TypeOK'
    BY <2>1, <2>2 DEF TypeOK
  <2>4. Counted'
    BY <2>1, <2>2, RelaxationRows DEF Counted
  <2> QED BY <2>2, <2>3, <2>4
<1>9. CASE Label
  <2>1. pc = "label" /\ IsPolicy(data)
    BY <1>9 DEF Label, DataInv, DataGiven
  <2>2. data'.containers = data.containers
    BY <1>9, <2>1, PolicyParts DEF Label
  <2>3. rules' \in Seq(Line)
    <3>1. Text("marker", "-") \in Line
      BY DEF Text, Line
    <3> QED BY <1>9, <3>1 DEF Label, TypeOK
  <2>4. TypeOK'
    BY <1>9, <2>1, <2>2, <2>3 DEF Label, TypeOK
  <2>5. Counted'
    BY <1>9 DEF Label, Counted
  <2> QED BY <1>9, <2>4, <2>5 DEF Label
<1>10. CASE UNCHANGED vars
  BY <1>10 DEF vars, TypeOK, Counted
<1> QED BY <1>1, <1>2, <1>3, <1>4, <1>5, <1>6, <1>7, <1>8, <1>9, <1>10 DEF Next

LEMMA TypeInvKept == Spec => [](TypeInv /\ DataInv)
<1>1. Init => TypeInv /\ DataInv
  BY InitTypeInv, InitDataInv
<1>2. TypeInv /\ DataInv /\ [Next]_vars => (TypeInv /\ DataInv)'
  BY StepTypeInv, StepDataInv
<1> QED BY <1>1, <1>2, PTL DEF Spec

\* Every variable keeps its type, genpolicy is called at most twice, and a run names the
\* step that failed exactly when it failed.
THEOREM TypeCorrect == Spec => []TypeOK
BY TypeInvKept, PTL DEF TypeInv

-----------------------------------------------------------------------------
(* What a relaxation does to the rules.                                    *)

\* The positions outside the helpers.
Kept(text) == {i \in DOMAIN text : ~InHelper(text, i)}
ReplacedLine(line, K) ==
  IF line.is = "check" /\ line.of \in K THEN Text("use", line.of) ELSE line

LEMMA KeptFinite ==
  ASSUME NEW text \in Seq(Line)
  PROVE  Kept(text) \subseteq Int /\ IsFiniteSet(Kept(text)) /\ Kept(text) \subseteq DOMAIN text
<1>1. Kept(text) \subseteq 1..Len(text)
  BY DEF Kept
<1>2. 1 \in Int /\ Len(text) \in Int
  OBVIOUS
<1>3. IsFiniteSet(1..Len(text))
  BY <1>2, FS_Interval
<1>4. IsFiniteSet(Kept(text))
  BY <1>1, <1>3, FS_Subset
<1> QED BY <1>1, <1>4

LEMMA OwnPlaces ==
  ASSUME NEW text
  PROVE  Own(text) = [n \in 1..Cardinality(Kept(text)) |-> text[Place(Kept(text), n)]]
  BY DEF Own, Kept, Place, UpTo

LEMMA ReplacedLines ==
  ASSUME NEW text, NEW K
  PROVE  /\ DOMAIN Replaced(text, K) = DOMAIN text
         /\ Replaced(text, K) = [i \in DOMAIN text |-> ReplacedLine(text[i], K)]
  BY DEF Replaced, ReplacedLine

\* What is outside the helpers of u are the lines outside those of text, replaced.
LEMMA OwnReplaced ==
  ASSUME NEW text \in Seq(Line), NEW u \in Seq(Line), NEW K, NEW p,
         Onto(p, Kept(text), Kept(u)),
         \A i \in DOMAIN text : u[p[i]] = ReplacedLine(text[i], K)
  PROVE  Own(u) = Replaced(Own(text), K)
<1> DEFINE keep == Kept(text)
           kept == Kept(u)
           c == Cardinality(keep)
<1>1. keep \subseteq Int /\ kept \subseteq Int /\ IsFiniteSet(keep) /\ keep \subseteq DOMAIN text
  BY KeptFinite
<1>2. Cardinality(kept) = c
  BY <1>1, RankKept
<1>3. /\ Own(text) = [n \in 1..c |-> text[Place(keep, n)]]
      /\ Own(u) = [n \in 1..c |-> u[Place(kept, n)]]
  BY <1>2, OwnPlaces
<1>4. Replaced(Own(text), K) = [n \in 1..c |-> ReplacedLine(text[Place(keep, n)], K)]
  <2> DEFINE o == Own(text)
  <2> HIDE DEF keep, kept, c
  <2>1. DOMAIN o = 1..c /\ \A n \in 1..c : o[n] = text[Place(keep, n)]
    BY <1>3
  <2> HIDE DEF o
  <2>2. Replaced(o, K) = [n \in DOMAIN o |-> ReplacedLine(o[n], K)]
    BY ReplacedLines
  <2>3. Replaced(o, K) = [n \in 1..c |-> ReplacedLine(text[Place(keep, n)], K)]
    BY <2>1, <2>2
  <2> QED BY <2>3 DEF o
<1>5. ASSUME NEW n \in 1..c
      PROVE  u[Place(kept, n)] = ReplacedLine(text[Place(keep, n)], K)
  <2>1. Place(kept, n) = p[Place(keep, n)]
    BY <1>1, PlaceKept
  <2>2. Place(keep, n) \in DOMAIN text
    BY <1>1, PlaceExists
  <2> QED BY <2>1, <2>2
<1> HIDE DEF keep, kept, c
<1> QED BY <1>3, <1>4, <1>5

LEMMA ReplacedTwice ==
  ASSUME NEW s, NEW A, NEW B
  PROVE  Replaced(Replaced(s, A), B) = Replaced(s, A \cup B)
<1>1. \A line : ReplacedLine(ReplacedLine(line, A), B) = ReplacedLine(line, A \cup B)
  BY DEF ReplacedLine, Text
<1> DEFINE t == Replaced(s, A)
<1>2. DOMAIN t = DOMAIN s /\ \A i \in DOMAIN s : t[i] = ReplacedLine(s[i], A)
  BY ReplacedLines
<1> HIDE DEF t
<1>3. Replaced(t, B) = [i \in DOMAIN s |-> ReplacedLine(t[i], B)]
  BY <1>2, ReplacedLines
<1>4. Replaced(s, A \cup B) = [i \in DOMAIN s |-> ReplacedLine(s[i], A \cup B)]
  BY ReplacedLines
<1> QED BY <1>1, <1>2, <1>3, <1>4 DEF t

\* Where a line of text is after the insertion of a block.
Moved(text, block, at) ==
  [i \in DOMAIN text |-> IF i <= at THEN i ELSE i + Len(block)]

\* Every line of text keeps its place relative to the helpers, and what is new is a helper.
LEMMA InsertedPlaces ==
  ASSUME NEW text \in Seq(Line), NEW block, NEW K, Block(block, K), NEW at \in 0..Len(text),
         NEW u, InsertedAt(u, text, block, at), at # 0 => text[at].is = "default"
  PROVE  LET p == Moved(text, block, at)
         IN  /\ \A i \in DOMAIN text :
                  /\ p[i] \in DOMAIN u /\ u[p[i]] = text[i]
                  /\ InHelper(u, p[i]) <=> InHelper(text, i)
                  /\ p[i] # 1 =>
                       \/ i # 1 /\ u[p[i] - 1] = text[i - 1]
                       \/ u[p[i] - 1].is # "define"
             /\ \A q \in DOMAIN u :
                  \/ \E i \in DOMAIN text : q = p[i]
                  \/ /\ InHelper(u, q)
                     /\ \E j \in DOMAIN block : q = at + j /\ u[q] = block[j]
             /\ \A j \in DOMAIN block : at + j \in DOMAIN u /\ u[at + j] = block[j]
             /\ \A i, k \in DOMAIN text : i <= k <=> p[i] <= p[k]
<1> DEFINE p == Moved(text, block, at)
           n == Len(text)
           b == Len(block)
<1>1. /\ n \in Nat /\ b \in Nat /\ b > 0 /\ at \in Nat /\ at <= n
      /\ DOMAIN text = 1..n /\ DOMAIN block = 1..b /\ DOMAIN u = 1..(n + b)
      /\ block[1].is = "define" /\ block[b].is # "define"
  BY DEF Block, InsertedAt
<1>2. /\ \A i \in 1..at : u[i] = text[i]
      /\ \A i \in 1..b : u[at + i] = block[i]
      /\ \A i \in (at + 1)..n : u[i + b] = text[i]
  BY DEF InsertedAt
<1>3. \A i \in 1..n : p[i] = IF i <= at THEN i ELSE i + b
  BY <1>1 DEF Moved
<1>4. \A j \in 1..b : InHelper(block, j)
  BY <1>1 DEF Block
<1> HIDE DEF n, b, p
<1>5. ASSUME NEW i \in 1..n
      PROVE  /\ p[i] \in 1..(n + b) /\ u[p[i]] = text[i]
             /\ p[i] # 1 => \/ i # 1 /\ u[p[i] - 1] = text[i - 1]
                            \/ u[p[i] - 1].is # "define"
             /\ (u[p[i]].is = "define" \/ (p[i] > 1 /\ u[p[i] - 1].is = "define"))
                <=> (text[i].is = "define" \/ (i > 1 /\ text[i - 1].is = "define"))
  <2>1. CASE i <= at
    <3>1. i \in 1..at /\ p[i] = i /\ i \in 1..(n + b) /\ (i # 1 => i - 1 \in 1..at)
      BY <1>1, <1>3, <2>1
    <3> QED BY <1>2, <3>1
  <2>2. CASE i > at + 1
    <3>1. /\ i \in (at + 1)..n /\ p[i] = i + b /\ i + b \in 1..(n + b) /\ i + b > 1 /\ i > 1
          /\ i - 1 \in (at + 1)..n /\ (i - 1) + b = (i + b) - 1
      BY <1>1, <1>3, <2>2
    <3>2. u[i + b] = text[i] /\ u[(i + b) - 1] = text[i - 1]
      BY <1>2, <3>1
    <3> QED BY <3>1, <3>2
  <2>3. CASE i = at + 1
    <3>1. /\ i \in (at + 1)..n /\ p[i] = i + b /\ i + b \in 1..(n + b) /\ i + b > 1
          /\ (i + b) - 1 = at + b /\ b \in 1..b
      BY <1>1, <1>3, <2>3
    <3>2. u[i + b] = text[i] /\ u[(i + b) - 1] = block[b]
      BY <1>2, <3>1
    <3>3. i > 1 => at # 0 /\ text[i - 1].is = "default"
      BY <1>1, <2>3
    <3> QED BY <1>1, <3>1, <3>2, <3>3
  <2> QED BY <1>1, <2>1, <2>2, <2>3
<1>6. ASSUME NEW j \in 1..b
      PROVE  /\ at + j \in 1..(n + b) /\ u[at + j] = block[j]
             /\ u[at + j].is = "define" \/ (at + j > 1 /\ u[(at + j) - 1].is = "define")
  <2>1. at + j \in 1..(n + b) /\ u[at + j] = block[j]
    BY <1>1, <1>2
  <2>2. block[j].is = "define" \/ (j > 1 /\ block[j - 1].is = "define")
    BY <1>4 DEF InHelper
  <2>3. j > 1 => j - 1 \in 1..b /\ at + (j - 1) = (at + j) - 1 /\ at + j > 1
    BY <1>1
  <2> QED BY <1>2, <2>1, <2>2, <2>3
<1>7. ASSUME NEW q \in 1..(n + b)
      PROVE  (\E i \in 1..n : q = p[i]) \/ (\E j \in 1..b : q = at + j)
  <2>1. CASE q <= at
    <3>1. q \in 1..n /\ p[q] = q
      BY <1>1, <1>3, <2>1
    <3> QED BY <3>1
  <2>2. CASE q > at /\ q <= at + b
    <3>1. q - at \in 1..b /\ q = at + (q - at)
      BY <1>1, <2>2
    <3> QED BY <3>1
  <2>3. CASE q > at + b
    <3>1. q - b \in 1..n /\ p[q - b] = q
      BY <1>1, <1>3, <2>3
    <3> QED BY <3>1
  <2> QED BY <1>1, <2>1, <2>2, <2>3
<1>8. \A i, k \in 1..n : i <= k <=> p[i] <= p[k]
  BY <1>1, <1>3
<1>9. /\ \A i \in DOMAIN text :
           /\ p[i] \in DOMAIN u /\ u[p[i]] = text[i]
           /\ InHelper(u, p[i]) <=> InHelper(text, i)
           /\ p[i] # 1 => \/ i # 1 /\ u[p[i] - 1] = text[i - 1]
                          \/ u[p[i] - 1].is # "define"
  BY <1>1, <1>5 DEF InHelper
<1>10. \A q \in DOMAIN u :
         \/ \E i \in DOMAIN text : q = p[i]
         \/ InHelper(u, q) /\ \E j \in DOMAIN block : q = at + j /\ u[q] = block[j]
  <2> SUFFICES ASSUME NEW q \in DOMAIN u, ~\E i \in DOMAIN text : q = p[i]
               PROVE  InHelper(u, q) /\ \E j \in DOMAIN block : q = at + j /\ u[q] = block[j]
    OBVIOUS
  <2>1. PICK j \in 1..b : q = at + j
    BY <1>1, <1>7
  <2>2. u[q] = block[j] /\ (u[q].is = "define" \/ (q > 1 /\ u[q - 1].is = "define"))
    BY <1>6, <2>1
  <2>3. j \in DOMAIN block
    BY <1>1
  <2>4. InHelper(u, q)
    BY <2>2 DEF InHelper
  <2> QED BY <2>1, <2>2, <2>3, <2>4
<1>11. \A j \in DOMAIN block : at + j \in DOMAIN u /\ u[at + j] = block[j]
  BY <1>1, <1>6
<1> QED BY <1>1, <1>8, <1>9, <1>10, <1>11 DEF p

-----------------------------------------------------------------------------
(* The relaxed rules, one relaxation after the other.                      *)

Once(text, x) == \E i \in DOMAIN text : \A j \in DOMAIN text : text[j] = x <=> i = j
NoSelfCall(text) ==
  \A i \in DOMAIN text \ {1} :
    ~(text[i - 1].is = "define" /\ text[i] = Text("use", text[i - 1].of))
SameLines(text, given, k) ==
  \A is \in {"check", "use", "define"} : Has(text, is, k) <=> Has(given, is, k)

\* The text is what the given rules become once the checks in done are relaxed; of the
\* checks in left nothing has changed.
RelaxedTo(text, given, done, left) ==
  /\ text \in Seq(Line) /\ done \cap left = {}
  /\ Own(text) = Replaced(Own(given), done)
  /\ \A k \in left : SameLines(text, given, k)
  /\ \A k \in done : Has(given, "check", k) => Once(text, Text("define", k))
  /\ NoSelfCall(text)
  /\ Has(given, "default", "-") => Has(text, "default", "-") /\ text[1] = given[1]

Done(n) == {k \in Checks : \E i \in DOMAIN Relaxations :
              i <= n /\ k \in ToSet(Relaxations[i]) /\ ~Named(input.rules, Relaxations[i])}
Left(n) == {k \in Checks : \E i \in DOMAIN Relaxations :
              i > n /\ k \in ToSet(Relaxations[i])}

\* The rules before, during and after the relaxations.
RulesGiven ==
  /\ pc \in {"render", "prepare", "first", "retry", "parse", "correct"} => rules = input.rules
  /\ pc = "relax" => RelaxedTo(rules, input.rules, Done(row - 1), Left(row - 1))
  /\ pc = "label" => RelaxedTo(rules, input.rules, Done(5), Left(5))
  /\ pc = "done" => \E text \in Seq(Line) :
                      /\ rules = <<Text("marker", "-")>> \o text
                      /\ RelaxedTo(text, input.rules, Done(5), Left(5))

LEMMA LineParts ==
  /\ \A a, b, k, m : Text(a, k) = Text(b, m) <=> a = b /\ k = m
  /\ \A a, k : Text(a, k).is = a /\ Text(a, k).of = k
  /\ \A line \in Line : line = Text(line.is, line.of)
  BY DEF Text, Line

\* Nothing but the checks K changes when they are replaced.
LEMMA ReplacedLinesKept ==
  ASSUME NEW text \in Seq(Line), NEW K \in SUBSET Checks,
         \A i \in DOMAIN text : text[i].is = "define" => text[i].of \notin K
  PROVE  LET t == Replaced(text, K)
         IN  /\ t \in Seq(Line) /\ DOMAIN t = DOMAIN text
             /\ Kept(t) = Kept(text)
             /\ \A k : k \notin K => SameLines(t, text, k)
             /\ \A k : Has(t, "define", k) <=> Has(text, "define", k)
             /\ \A k \in Checks : Once(text, Text("define", k)) => Once(t, Text("define", k))
             /\ Has(text, "default", "-") => Has(t, "default", "-")
             /\ NoSelfCall(text) => NoSelfCall(t)
<1> DEFINE t == Replaced(text, K)
<1>1. /\ t \in Seq(Line) /\ DOMAIN t = DOMAIN text
      /\ \A i \in DOMAIN text : t[i] = ReplacedLine(text[i], K)
  <2>1. t \in Seq(Line)
    BY ReplacedType
  <2> QED BY <2>1, ReplacedLines
<1> HIDE DEF t
<1>2. \A i \in DOMAIN text : \A is, k :
        (is # "use" \/ k \notin K) /\ (is # "check" \/ k \notin K)
          => (t[i] = Text(is, k) <=> text[i] = Text(is, k))
  <2> SUFFICES ASSUME NEW i \in DOMAIN text, NEW is, NEW k,
                      is # "use" \/ k \notin K, is # "check" \/ k \notin K
               PROVE  t[i] = Text(is, k) <=> text[i] = Text(is, k)
    OBVIOUS
  <2>1. CASE text[i].is = "check" /\ text[i].of \in K
    <3>1. t[i] = Text("use", text[i].of)
      BY <1>1, <2>1 DEF ReplacedLine
    <3> QED BY <2>1, <3>1, LineParts
  <2>2. CASE ~(text[i].is = "check" /\ text[i].of \in K)
    BY <1>1, <2>2 DEF ReplacedLine
  <2> QED BY <2>1, <2>2
<1>3. \A i \in DOMAIN text : t[i].is = "define" <=> text[i].is = "define"
  BY <1>1, LineParts DEF ReplacedLine
<1>4. Kept(t) = Kept(text)
  <2>1. \A i \in DOMAIN text : i > 1 => i - 1 \in DOMAIN text
    OBVIOUS
  <2>2. \A i \in DOMAIN text : InHelper(t, i) <=> InHelper(text, i)
    BY <1>3, <2>1 DEF InHelper
  <2> QED BY <1>1, <2>2 DEF Kept
<1>5. \A k : k \notin K => SameLines(t, text, k)
  BY <1>1, <1>2 DEF SameLines, Has
<1>6. \A k : Has(t, "define", k) <=> Has(text, "define", k)
  BY <1>1, <1>2 DEF Has
<1>7. \A k \in Checks : Once(text, Text("define", k)) => Once(t, Text("define", k))
  BY <1>1, <1>2 DEF Once
<1>8. Has(text, "default", "-") => Has(t, "default", "-")
  BY <1>1, <1>2 DEF Has
<1>9. ASSUME NoSelfCall(text) PROVE NoSelfCall(t)
  <2> SUFFICES ASSUME NEW i \in DOMAIN t \ {1}, t[i - 1].is = "define",
                      t[i] = Text("use", t[i - 1].of)
               PROVE  FALSE
    BY DEF NoSelfCall
  <2>1. i \in DOMAIN text \ {1} /\ i - 1 \in DOMAIN text
    BY <1>1
  <2>2. text[i - 1].is = "define" /\ t[i - 1] = text[i - 1]
    BY <1>1, <1>3, <2>1, LineParts DEF ReplacedLine
  <2>3. text[i - 1].of \notin K
    BY <2>1, <2>2
  <2>4. text[i] = Text("use", text[i - 1].of)
    BY <1>2, <2>1, <2>2, <2>3
  <2> QED BY <1>9, <2>1, <2>2, <2>4 DEF NoSelfCall
<1> QED BY <1>1, <1>4, <1>5, <1>6, <1>7, <1>8, <1>9 DEF t

\* Neither does the insertion of the helpers of K change anything else.
LEMMA InsertedLinesKept ==
  ASSUME NEW text \in Seq(Line), NEW K \in SUBSET Checks, NEW block, Block(block, K),
         \A k \in K : ~Has(text, "define", k),
         NEW at \in 0..Len(text), NEW u, InsertedAt(u, text, block, at),
         at # 0 => text[at].is = "default"
  PROVE  /\ \A k : k \notin K => SameLines(u, text, k)
         /\ \A k \in K : Once(u, Text("define", k))
         /\ \A k \in Checks \ K : Once(text, Text("define", k)) => Once(u, Text("define", k))
         /\ Has(text, "default", "-") => Has(u, "default", "-")
         /\ NoSelfCall(text) => NoSelfCall(u)
         /\ at # 0 => u[1] = text[1]
         /\ Own(u) = Own(text)
<1> DEFINE p == Moved(text, block, at)
<1>1. /\ \A i \in DOMAIN text :
           /\ p[i] \in DOMAIN u /\ u[p[i]] = text[i]
           /\ InHelper(u, p[i]) <=> InHelper(text, i)
           /\ p[i] # 1 =>
                \/ i # 1 /\ u[p[i] - 1] = text[i - 1]
                \/ u[p[i] - 1].is # "define"
      /\ \A q \in DOMAIN u :
           \/ \E i \in DOMAIN text : q = p[i]
           \/ /\ InHelper(u, q)
              /\ \E j \in DOMAIN block : q = at + j /\ u[q] = block[j]
      /\ \A j \in DOMAIN block : at + j \in DOMAIN u /\ u[at + j] = block[j]
      /\ \A i, k \in DOMAIN text : i <= k <=> p[i] <= p[k]
  BY InsertedPlaces
<1>2. u \in Seq(Line) /\ DOMAIN block \subseteq Int /\ at \in Int
  BY DEF InsertedAt, Block
<1>3. at # 0 => p[1] = 1 /\ 1 \in DOMAIN text
  BY DEF Moved
<1> HIDE DEF p
<1>4. \A is, k : (is \in {"define", "check"} => k \notin K) /\ is # "other" =>
        \A j \in DOMAIN block : block[j] # Text(is, k)
  BY LineParts DEF Block
<1>5. \A is, k : (is \in {"define", "check"} => k \notin K) /\ is # "other" =>
        (Has(u, is, k) <=> Has(text, is, k))
  BY <1>1, <1>4 DEF Has
<1>6. \A k : k \notin K => SameLines(u, text, k)
  BY <1>5 DEF SameLines
<1>7. Has(text, "default", "-") => Has(u, "default", "-")
  BY <1>5
<1>8. ASSUME NEW k \in K PROVE Once(u, Text("define", k))
  <2>1. PICK j \in DOMAIN block : \A i \in DOMAIN block : block[i] = Text("define", k) <=> i = j
    BY DEF Block
  <2>2. \A i \in DOMAIN text : text[i] # Text("define", k)
    BY DEF Has
  <2>3. \A q \in DOMAIN u : u[q] = Text("define", k) <=> at + j = q
    <3> SUFFICES ASSUME NEW q \in DOMAIN u PROVE u[q] = Text("define", k) <=> at + j = q
      OBVIOUS
    <3>1. CASE \E i \in DOMAIN text : q = p[i]
      <4>1. u[q] # Text("define", k)
        BY <1>1, <2>2, <3>1
      <4>2. u[at + j] = Text("define", k)
        BY <1>1, <2>1
      <4> QED BY <4>1, <4>2
    <3>2. CASE \E i \in DOMAIN block : q = at + i /\ u[q] = block[i]
      <4>1. PICK i \in DOMAIN block : q = at + i /\ u[q] = block[i]
        BY <3>2
      <4>2. i = j <=> at + j = q
        BY <1>2, <4>1
      <4> QED BY <2>1, <4>1, <4>2
    <3> QED BY <1>1, <3>1, <3>2
  <2>4. at + j \in DOMAIN u
    BY <1>1
  <2> QED BY <2>3, <2>4 DEF Once
<1>9. ASSUME NEW k \in Checks \ K, Once(text, Text("define", k))
      PROVE  Once(u, Text("define", k))
  <2>1. PICK i \in DOMAIN text : \A j \in DOMAIN text : text[j] = Text("define", k) <=> i = j
    BY <1>9 DEF Once
  <2>2. \A j \in DOMAIN block : block[j] # Text("define", k)
    BY <1>4
  <2>3. \A q \in DOMAIN u : u[q] = Text("define", k) <=> p[i] = q
    BY <1>1, <2>1, <2>2
  <2> QED BY <1>1, <2>3 DEF Once
<1>10. ASSUME NoSelfCall(text) PROVE NoSelfCall(u)
  <2> SUFFICES ASSUME NEW q \in DOMAIN u \ {1}, u[q - 1].is = "define",
                      u[q] = Text("use", u[q - 1].of)
               PROVE  FALSE
    BY DEF NoSelfCall
  <2>1. \A j \in DOMAIN block : block[j] # u[q]
    BY <1>4
  <2>2. PICK i \in DOMAIN text : q = p[i]
    BY <1>1, <2>1
  <2>3. i # 1 /\ u[q - 1] = text[i - 1] /\ u[q] = text[i]
    BY <1>1, <2>2
  <2> QED BY <1>10, <2>3 DEF NoSelfCall
<1>11. at # 0 => u[1] = text[1]
  BY <1>1, <1>3
<1>12. Own(u) = Own(text)
  <2>1. Onto(p, Kept(text), Kept(u))
    BY <1>1 DEF Onto, Kept
  <2>2. \A i \in DOMAIN text : u[p[i]] = ReplacedLine(text[i], {})
    BY <1>1 DEF ReplacedLine
  <2>3. Own(u) = Replaced(Own(text), {})
    BY <1>2, <2>1, <2>2, OwnReplaced
  <2>4. Replaced(Own(text), {}) = Own(text)
    BY DEF Replaced, Own
  <2> QED BY <2>3, <2>4
<1> QED BY <1>6, <1>7, <1>8, <1>9, <1>10, <1>11, <1>12

\* One relaxation, of the checks K, that finds its helpers nowhere in the given rules.
LEMMA OneRelaxation ==
  ASSUME NEW text, NEW given \in Seq(Line), NEW done, NEW left, RelaxedTo(text, given, done, left),
         NEW K \in SUBSET Checks, K \subseteq left, done \subseteq Checks,
         NEW block, Block(block, K),
         \A k \in K : ~Has(given, "use", k) /\ ~Has(given, "define", k),
         given # <<>> => given[1].is # "check"
  PROVE  RelaxedTo(Inserted(Replaced(text, K), block), given, done \cup K, left \ K)
<1> DEFINE t == Replaced(text, K)
           u == Inserted(t, block)
<1>1. /\ text \in Seq(Line) /\ done \cap left = {} /\ NoSelfCall(text)
      /\ Own(text) = Replaced(Own(given), done)
      /\ \A k \in left : SameLines(text, given, k)
      /\ \A k \in done : Has(given, "check", k) => Once(text, Text("define", k))
      /\ Has(given, "default", "-") => Has(text, "default", "-") /\ text[1] = given[1]
  BY DEF RelaxedTo
<1>2. \A k \in K : ~Has(text, "define", k)
  BY <1>1 DEF SameLines
<1>3. \A i \in DOMAIN text : text[i].is = "define" => text[i].of \notin K
  BY <1>1, <1>2, LineParts DEF Has
<1>4. /\ t \in Seq(Line) /\ DOMAIN t = DOMAIN text
      /\ Kept(t) = Kept(text)
      /\ \A k : k \notin K => SameLines(t, text, k)
      /\ \A k : Has(t, "define", k) <=> Has(text, "define", k)
      /\ \A k \in Checks : Once(text, Text("define", k)) => Once(t, Text("define", k))
      /\ Has(text, "default", "-") => Has(t, "default", "-")
      /\ NoSelfCall(t)
  BY <1>1, <1>3, ReplacedLinesKept
<1>5. Own(t) = Replaced(Own(text), K)
  <2> DEFINE p == [i \in DOMAIN text |-> i]
  <2>1. Kept(text) \subseteq DOMAIN text
    BY DEF Kept
  <2>2. Onto(p, Kept(text), Kept(t))
    BY <1>4, <2>1 DEF Onto
  <2>3. \A i \in DOMAIN text : t[p[i]] = ReplacedLine(text[i], K)
    BY ReplacedLines
  <2> HIDE DEF p, t
  <2> QED BY <1>1, <1>4, <2>2, <2>3, OwnReplaced
<1>6. given # <<>> => (text[1] = given[1] /\ 1 \in DOMAIN text => t[1] = given[1])
  BY <1>1, ReplacedLines DEF ReplacedLine
<1> HIDE DEF t
<1>7. block \in Seq(Line) /\ \A k \in K : ~Has(t, "define", k)
  BY <1>2, <1>4 DEF Block
<1>8. PICK at \in 0..Len(t) :
        /\ InsertedAt(u, t, block, at)
        /\ at # 0 => t[at].is = "default"
        /\ Has(t, "default", "-") => at # 0
  BY <1>4, <1>7, InsertedLines
<1> HIDE DEF u
<1>9. /\ \A k : k \notin K => SameLines(u, t, k)
      /\ \A k \in K : Once(u, Text("define", k))
      /\ \A k \in Checks \ K : Once(t, Text("define", k)) => Once(u, Text("define", k))
      /\ Has(t, "default", "-") => Has(u, "default", "-")
      /\ NoSelfCall(u)
      /\ at # 0 => u[1] = t[1]
      /\ Own(u) = Own(t)
  BY <1>4, <1>7, <1>8, InsertedLinesKept
<1>10. Own(u) = Replaced(Own(given), done \cup K)
  BY <1>1, <1>5, <1>9, ReplacedTwice
<1>11. \A k \in left \ K : SameLines(u, given, k)
  BY <1>1, <1>4, <1>9 DEF SameLines
<1>12. \A k \in done \cup K : Has(given, "check", k) => Once(u, Text("define", k))
  BY <1>1, <1>4, <1>9
<1>13. Has(given, "default", "-") => Has(u, "default", "-") /\ u[1] = given[1]
  <2> SUFFICES ASSUME Has(given, "default", "-")
               PROVE  Has(u, "default", "-") /\ u[1] = given[1]
    OBVIOUS
  <2>1. given # <<>>
    BY DEF Has
  <2>2. 1 \in DOMAIN text
    BY <1>1 DEF Has
  <2> QED BY <1>1, <1>4, <1>6, <1>8, <1>9, <2>1, <2>2
<1>14. u \in Seq(Line)
  BY <1>8 DEF InsertedAt
<1>15. (done \cup K) \cap (left \ K) = {}
  BY <1>1
<1> QED BY <1>9, <1>10, <1>11, <1>12, <1>13, <1>14, <1>15 DEF RelaxedTo, u, t

\* A relaxation of checks of which the text has none changes nothing.
LEMMA NothingToRelax ==
  ASSUME NEW text, NEW given \in Seq(Line), NEW done, NEW left, RelaxedTo(text, given, done, left),
         NEW K \in SUBSET Checks, K \subseteq left,
         \A k \in K : ~Has(text, "check", k)
  PROVE  RelaxedTo(text, given, done \cup K, left \ K)
<1>1. /\ text \in Seq(Line) /\ done \cap left = {} /\ NoSelfCall(text)
      /\ Own(text) = Replaced(Own(given), done)
      /\ \A k \in left : SameLines(text, given, k)
      /\ \A k \in done : Has(given, "check", k) => Once(text, Text("define", k))
      /\ Has(given, "default", "-") => Has(text, "default", "-") /\ text[1] = given[1]
  BY DEF RelaxedTo
<1>2. Replaced(Own(text), K) = Own(text)
  <2> DEFINE keep == Kept(text)
             c == Cardinality(keep)
             o == Own(text)
  <2>1. keep \subseteq Int /\ IsFiniteSet(keep) /\ keep \subseteq DOMAIN text
    BY <1>1, KeptFinite
  <2>2. o = [n \in 1..c |-> text[Place(keep, n)]]
    BY OwnPlaces
  <2>3. \A i \in DOMAIN text : ReplacedLine(text[i], K) = text[i]
    BY <1>1, LineParts DEF ReplacedLine, Has
  <2>4. \A n \in 1..c : Place(keep, n) \in DOMAIN text
    BY <2>1, PlaceExists
  <2> HIDE DEF keep, c
  <2>5. DOMAIN o = 1..c /\ \A n \in 1..c : ReplacedLine(o[n], K) = o[n]
    BY <2>2, <2>3, <2>4
  <2>6. o = [n \in 1..c |-> o[n]]
    BY <2>2
  <2> HIDE DEF o
  <2>7. Replaced(o, K) = [n \in DOMAIN o |-> ReplacedLine(o[n], K)]
    BY ReplacedLines
  <2>8. Replaced(o, K) = o
    BY <2>5, <2>6, <2>7
  <2> QED BY <2>8 DEF o
<1>3. Own(text) = Replaced(Own(given), done \cup K)
  BY <1>1, <1>2, ReplacedTwice
<1>4. \A k \in K : ~Has(given, "check", k)
  BY <1>1 DEF SameLines
<1> QED BY <1>1, <1>3, <1>4 DEF RelaxedTo

LEMMA DoneNext ==
  ASSUME NEW n \in 1..5
  PROVE  LET K == ToSet(Relaxations[n])
         IN  /\ Left(n) = Left(n - 1) \ K /\ K \subseteq Left(n - 1) /\ K \in SUBSET Checks
             /\ Done(n) = IF Named(input.rules, Relaxations[n]) THEN Done(n - 1)
                                                                 ELSE Done(n - 1) \cup K
             /\ Relaxations[n][1] \in K
             /\ \A k : k \in K <=> \E i \in DOMAIN Relaxations[n] : Relaxations[n][i] = k
<1> DEFINE S == [i \in 1..5 |-> ToSet(Relaxations[i])]
           N == {i \in 1..5 : Named(input.rules, Relaxations[i])}
<1>1. /\ \A i \in 1..5 : S[i] \subseteq Checks
      /\ \A i, j \in 1..5 : i # j => S[i] \cap S[j] = {}
  <2>1. /\ S[1] = {"pidns"} /\ S[2] = {"rootfs"} /\ S[3] = {"mount", "fsgroup", "storage"}
        /\ S[4] = {"sandbox"} /\ S[5] = {"count"}
    BY RelaxationRows DEF ToSet
  <2> HIDE DEF S
  <2> QED BY <2>1 DEF Checks
<1>2. \A m : Left(m) = {k \in Checks : \E i \in 1..5 : i > m /\ k \in S[i]}
  BY RelaxationRows DEF Left
<1>3. \A m : Done(m) = {k \in Checks : \E i \in 1..5 : i <= m /\ k \in S[i] /\ i \notin N}
  BY RelaxationRows DEF Done
<1>4. ToSet(Relaxations[n]) = S[n]
  OBVIOUS
<1>5. /\ Relaxations[n][1] \in ToSet(Relaxations[n])
      /\ \A k : k \in ToSet(Relaxations[n])
                  <=> \E i \in DOMAIN Relaxations[n] : Relaxations[n][i] = k
  BY RelaxationRows DEF ToSet
<1>8. n \in N <=> Named(input.rules, Relaxations[n])
  OBVIOUS
<1> HIDE DEF S, N
<1>6. Left(n) = Left(n - 1) \ S[n] /\ S[n] \subseteq Left(n - 1)
  BY <1>1, <1>2
<1>7. Done(n) = IF n \in N THEN Done(n - 1) ELSE Done(n - 1) \cup S[n]
  <2>1. \A i \in 1..5 : i <= n <=> i <= n - 1 \/ i = n
    OBVIOUS
  <2> DEFINE A == Done(n)
             B == Done(n - 1)
  <2>2. /\ A = {k \in Checks : \E i \in 1..5 : i <= n /\ k \in S[i] /\ i \notin N}
        /\ B = {k \in Checks : \E i \in 1..5 : i <= n - 1 /\ k \in S[i] /\ i \notin N}
    BY <1>3
  <2> HIDE DEF A, B
  <2>3. \A k : k \in A <=> k \in B \/ (n \notin N /\ k \in S[n])
    BY <1>1, <2>1, <2>2
  <2>4. A = IF n \in N THEN B ELSE B \cup S[n]
    BY <2>3
  <2> QED BY <2>4 DEF A, B
<1> QED BY <1>1, <1>4, <1>5, <1>6, <1>7, <1>8

\* A row of the relaxations takes the rules one relaxation further.
LEMMA RelaxStep ==
  ASSUME input \in Inputs, NEW n \in 1..5, NEW text,
         RelaxedTo(text, input.rules, Done(n - 1), Left(n - 1))
  PROVE  RelaxedTo(Relax(text, Relaxations[n]), input.rules, Done(n), Left(n))
<1> DEFINE G == input.rules
           r == Relaxations[n]
           K == ToSet(r)
<1>1. /\ Left(n) = Left(n - 1) \ K /\ K \subseteq Left(n - 1) /\ K \in SUBSET Checks
      /\ Done(n) = IF Named(G, r) THEN Done(n - 1) ELSE Done(n - 1) \cup K
      /\ r[1] \in K /\ \A k : k \in K <=> \E i \in DOMAIN r : r[i] = k
  BY DoneNext
<1>2. G \in Seq(Line) /\ (G # <<>> => G[1].is # "check")
      /\ ((\E i \in DOMAIN r : Has(G, "use", r[i]) \/ Has(G, "define", r[i]))
            => Has(G, "use", r[1]) \/ Has(G, "define", r[1]))
  BY InputsAssumption, RulesAssumption, RelaxationRows DEF Input, RulesFile
<1>3. Block(Helpers(r), K)
  BY HelpersBlock, RelaxationRows
<1>4. Done(n - 1) \subseteq Checks
  BY DEF Done
<1> HIDE DEF G, r, K
<1>5. /\ \A k \in Left(n - 1) : SameLines(text, G, k)
  BY DEF RelaxedTo, G
<1>6. Named(text, r) <=> Named(G, r)
  BY <1>1, <1>5 DEF Named, SameLines
<1>7. (\E i \in DOMAIN r : Has(text, "check", r[i])) <=> \E k \in K : Has(text, "check", k)
  BY <1>1
<1>8. CASE Named(G, r)
  <2>1. Relax(text, r) = text
    BY <1>6, <1>8 DEF Relax, Applies
  <2>2. /\ text \in Seq(Line) /\ Done(n - 1) \cap Left(n - 1) = {} /\ NoSelfCall(text)
        /\ Own(text) = Replaced(Own(G), Done(n - 1))
        /\ \A k \in Done(n - 1) : Has(G, "check", k) => Once(text, Text("define", k))
        /\ Has(G, "default", "-") => Has(text, "default", "-") /\ text[1] = G[1]
    BY DEF RelaxedTo, G
  <2>3. Done(n) = Done(n - 1) /\ Left(n) \subseteq Left(n - 1)
    BY <1>1, <1>8
  <2>4. RelaxedTo(text, G, Done(n), Left(n))
    BY <1>5, <2>2, <2>3 DEF RelaxedTo
  <2> QED BY <2>1, <2>4 DEF G, r
<1>9. CASE ~Named(G, r) /\ ~\E k \in K : Has(text, "check", k)
  <2>1. Relax(text, r) = text
    BY <1>7, <1>9 DEF Relax, Applies
  <2>2. RelaxedTo(text, G, Done(n - 1) \cup K, Left(n - 1) \ K)
    BY <1>1, <1>2, <1>9, NothingToRelax DEF G
  <2> QED BY <1>1, <1>9, <2>1, <2>2 DEF G, r
<1>10. CASE ~Named(G, r) /\ \E k \in K : Has(text, "check", k)
  <2>1. Relax(text, r) = Inserted(Replaced(text, K), Helpers(r))
    BY <1>6, <1>7, <1>10 DEF Relax, Applies, K
  <2>2. \A k \in K : ~Has(G, "use", k) /\ ~Has(G, "define", k)
    BY <1>1, <1>2, <1>10 DEF Named
  <2>3. RelaxedTo(Inserted(Replaced(text, K), Helpers(r)), G, Done(n - 1) \cup K, Left(n - 1) \ K)
    BY <1>1, <1>2, <1>3, <1>4, <2>2, OneRelaxation DEF G
  <2> QED BY <1>1, <1>10, <2>1, <2>3 DEF G, r
<1> QED BY <1>8, <1>9, <1>10

LEMMA NoneRelaxed ==
  ASSUME input \in Inputs
  PROVE  RelaxedTo(input.rules, input.rules, Done(0), Left(0))
<1>1. input.rules \in Seq(Line) /\ RulesFile(input.rules)
  BY InputsAssumption, RulesAssumption DEF Input
<1>2. Done(0) = {}
  BY RelaxationRows DEF Done
<1>3. Own(input.rules) = Replaced(Own(input.rules), {})
  BY DEF Replaced, Own
<1>4. NoSelfCall(input.rules)
  BY <1>1 DEF RulesFile, NoSelfCall
<1> QED BY <1>1, <1>2, <1>3, <1>4 DEF RelaxedTo, SameLines

LEMMA StepRulesGiven == TypeInv /\ RulesGiven /\ [Next]_vars => RulesGiven'
<1> SUFFICES ASSUME TypeInv, RulesGiven, [Next]_vars PROVE RulesGiven'
  OBVIOUS
<1>1. input \in Inputs
  BY DEF TypeInv, InputGiven
<1> DEFINE early == {"render", "prepare", "first", "retry", "parse", "correct"}
<1>2. CASE pc \in early /\ pc' \in early \cup {"failed"} /\ rules' = rules /\ input' = input
  BY <1>2 DEF RulesGiven
<1>3. CASE Render \/ Prepare \/ IoError \/ First \/ Retry \/ Parse
  <2>1. pc \in early /\ pc' \in early \cup {"failed"} /\ rules' = rules /\ input' = input
    BY <1>3 DEF Render, Prepare, IoError, First, Retry, Parse, Fail, Call, Answered
  <2> QED BY <1>2, <2>1
<1>4. CASE Correct
  <2>1. /\ pc = "correct" /\ rules' = rules /\ input' = input
        /\ pc' \in {"correct", "failed"} \/ (pc' = "relax" /\ row' = 1)
    BY <1>4 DEF Correct, Advance, Fail
  <2>2. CASE pc' # "relax"
    BY <1>2, <2>1, <2>2
  <2>3. CASE pc' = "relax" /\ row' = 1
    <3>1. rules' = input.rules /\ row' - 1 = 0
      BY <2>1, <2>3 DEF RulesGiven
    <3>2. Done(0)' = Done(0) /\ Left(0)' = Left(0)
      BY <2>1 DEF Done, Left, Named
    <3>3. RelaxedTo(rules', input'.rules, Done(0)', Left(0)')
      BY <1>1, <2>1, <3>1, <3>2, NoneRelaxed
    <3> QED BY <2>3, <3>1, <3>3 DEF RulesGiven
  <2> QED BY <2>1, <2>2, <2>3
<1>5. CASE RelaxRow
  <2>1. /\ pc = "relax" /\ rules' = Relax(rules, Relaxations[row]) /\ input' = input
        /\ row \in 1..5
        /\ \/ row # 5 /\ pc' = "relax" /\ row' = row + 1
           \/ row = 5 /\ pc' = "label"
    BY <1>5, RelaxationRows DEF RelaxRow, Advance, TypeInv, TypeOK, Counted
  <2>2. RelaxedTo(rules', input.rules, Done(row), Left(row))
    BY <1>1, <2>1, RelaxStep DEF RulesGiven
  <2>3. \A n : Done(n)' = Done(n) /\ Left(n)' = Left(n)
    BY <2>1 DEF Done, Left, Named
  <2>4. CASE row # 5 /\ pc' = "relax" /\ row' = row + 1
    <3>1. row' - 1 = row
      BY <2>1, <2>4
    <3>2. Done(row - 1)' = Done(row) /\ Left(row - 1)' = Left(row)
      BY <2>1, <3>1 DEF Done, Left, Named
    <3>3. RelaxedTo(rules', input'.rules, Done(row - 1)', Left(row - 1)')
      BY <2>1, <2>2, <3>2
    <3> QED BY <2>4, <3>3 DEF RulesGiven
  <2>5. CASE row = 5 /\ pc' = "label"
    BY <2>1, <2>2, <2>3, <2>5 DEF RulesGiven
  <2> QED BY <2>1, <2>4, <2>5
<1>6. CASE Label
  <2>1. /\ pc = "label" /\ pc' = "done" /\ input' = input
        /\ rules' = <<Text("marker", "-")>> \o rules
    BY <1>6 DEF Label
  <2>2. RelaxedTo(rules, input.rules, Done(5), Left(5))
    BY <2>1 DEF RulesGiven
  <2>3. Done(5)' = Done(5) /\ Left(5)' = Left(5)
    BY <2>1 DEF Done, Left, Named
  <2>4. rules \in Seq(Line)
    BY <2>2 DEF RelaxedTo
  <2> QED BY <2>1, <2>2, <2>3, <2>4 DEF RulesGiven
<1>7. CASE UNCHANGED vars
  <2>1. \A n : Done(n)' = Done(n) /\ Left(n)' = Left(n)
    BY <1>7 DEF vars, Done, Left, Named
  <2>2. UNCHANGED <<pc, rules, input, row>>
    BY <1>7 DEF vars
  <2>3. Done(row - 1)' = Done(row - 1) /\ Left(row - 1)' = Left(row - 1)
    BY <2>2 DEF Done, Left, Named
  <2> QED BY <2>1, <2>2, <2>3 DEF RulesGiven
<1> QED BY <1>3, <1>4, <1>5, <1>6, <1>7 DEF Next

LEMMA OnceCounted ==
  ASSUME NEW text, NEW x, Once(text, x)
  PROVE  Cardinality({i \in DOMAIN text : text[i] = x}) = 1
<1>1. PICK i \in DOMAIN text : \A j \in DOMAIN text : text[j] = x <=> i = j
  BY DEF Once
<1>2. {j \in DOMAIN text : text[j] = x} = {i}
  BY <1>1
<1> QED BY <1>2, FS_Singleton

\* Whatever the rules and the policy data: what the normalisers make of the rules is marked,
\* differs outside the helpers by the replaced checks alone, has each helper these call
\* exactly once, lets none call itself, and keeps its first line when there is a default.
THEOREM RulesCorrect == Spec => []RulesRelaxed
<1>1. Init => RulesGiven
  BY DEF Init, RulesGiven
<1>2. RulesGiven => RulesRelaxed
  <2> SUFFICES ASSUME RulesGiven, pc = "done"
               PROVE  LET text == Tail(rules)
                      IN  /\ Head(rules) = Text("marker", "-")
                          /\ Own(text) = Replaced(Own(input.rules), Relaxed)
                          /\ \A k \in Relaxed : Has(input.rules, "check", k) =>
                               Cardinality({i \in DOMAIN text : text[i] = Text("define", k)}) = 1
                          /\ NoSelfCall(text)
                          /\ Has(input.rules, "default", "-") =>
                               Head(text) = Head(input.rules)
    BY DEF RulesRelaxed, NoSelfCall
  <2>1. PICK text \in Seq(Line) :
          /\ rules = <<Text("marker", "-")>> \o text
          /\ RelaxedTo(text, input.rules, Done(5), Left(5))
    BY DEF RulesGiven
  <2>2. Head(rules) = Text("marker", "-") /\ Tail(rules) = text
    <3> DEFINE m == Text("marker", "-")
    <3>1. m \in Line
      BY DEF Text, Line
    <3> HIDE DEF m
    <3>2. Head(<<m>> \o text) = m /\ Tail(<<m>> \o text) = text
      BY <3>1
    <3> QED BY <2>1, <3>2 DEF m
  <2>3. Done(5) = Relaxed
    BY RelaxationRows DEF Done, Relaxed
  <2>4. \A k \in Relaxed : Has(input.rules, "check", k) =>
          Cardinality({i \in DOMAIN text : text[i] = Text("define", k)}) = 1
    BY <2>1, <2>3, OnceCounted DEF RelaxedTo
  <2>5. Has(input.rules, "default", "-") => Head(text) = Head(input.rules)
    BY <2>1 DEF RelaxedTo
  <2> QED BY <2>1, <2>2, <2>3, <2>4, <2>5 DEF RelaxedTo
<1>3. TypeInv /\ RulesGiven /\ [Next]_vars => RulesGiven'
  BY StepRulesGiven
<1> QED BY <1>1, <1>2, <1>3, TypeInvKept, PTL DEF Spec
=============================================================================
