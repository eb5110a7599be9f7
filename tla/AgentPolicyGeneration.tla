------------------------ MODULE AgentPolicyGeneration ------------------------
(***************************************************************************)
(* One run of the genpolicy adapter (genpolicy.rs,                         *)
(* run_with_log_encryption): the Pod is rendered, genpolicy is called, a   *)
(* second time without credentials when it fails, and its output is        *)
(* corrected: the mounts of the policy data one row of a table after the   *)
(* other, then the rules one relaxation after the other.  Runs share no    *)
(* file and no memory.                                                     *)
(***************************************************************************)
EXTENDS PodManifest, FiniteSets

CONSTANT Inputs    \* what the runs considered start from

\* The checks of Kata's rules that CAP relaxes.
Checks == {"pidns", "rootfs", "mount", "fsgroup", "storage", "sandbox", "count"}
\* A line of the rules: check k is Kata's check, use k the call of CAP's helper in its
\* place, define k the head of that helper.
Line == [is : {"package", "default", "marker", "other"}, of : {"-"}]
          \cup [is : {"check", "use", "define"}, of : Checks]
Text(is, k) == [is |-> is, of |-> k]

TokenDestinations == {"kubernetes-token", "azure-token"}
\* What settings may have mounted in every container.
Destinations == TokenDestinations \cup {"resolv"}

\* extras: destinations that the settings file mounts; dropIns: those that the files of
\* genpolicy-settings.d add; without a directory, extras are genpolicy's own settings.
\* mentions: helpers whose name a value of the descriptor contains, and so the policy data;
\* creds: of the registry, as the service's environment holds them; accepts: genpolicy has
\* no objection to the Pod.
Input == [descriptor : Descriptor, log : BOOLEAN, environment : Environment,
          settings : {"none", "unreadable", "usable"},
          extras : SUBSET Destinations, dropIns : SUBSET Destinations,
          rules : Seq(Line), mentions : SUBSET Checks,
          creds : {"none", "valid", "rejected"}, public : BOOLEAN, accepts : BOOLEAN]

ASSUME InputsAssumption == Inputs \subseteq Input

VARIABLES
  input, pc, why,  \* why: the step that failed
  extras,          \* what the settings that genpolicy is given mount in every container
  attempts,        \* calls of genpolicy so far
  outage,          \* history: the registry was away during a call
  output,          \* history: the policy data as genpolicy wrote them
  data,            \* the policy data
  rules,           \* the policy's rules
  row              \* of the table being worked through
vars == <<input, pc, why, extras, attempts, outage, output, data, rules, row>>

TheManifest == Manifest(input.descriptor, input.log, input.environment)

-----------------------------------------------------------------------------
(* genpolicy's output.  A Memory volume is mounted from the sandbox's      *)
(* ephemeral directory, always rprivate; copies tell doubles apart.        *)

Options(propagation, m) == <<"rbind", propagation, IF m.readOnly THEN "ro" ELSE "rw">>
SourceOf(volume, manifest) ==
  [kind |-> IF volume \in manifest.memory THEN "ephemeral" ELSE "shared", name |-> volume]

MountOf(c, m, manifest) ==
  [container |-> c, copy |-> 1, destination |-> m.path, type |-> "bind",
   source |-> SourceOf(m.volume, manifest), options |-> Options("rprivate", m)]
ExtraMount(c, d) ==
  [container |-> c, copy |-> 1, destination |-> d, type |-> "bind",
   source |-> [kind |-> "shared", name |-> d], options |-> <<"rbind", "rprivate", "ro">>]

PolicyOf(manifest, more) ==
  [wellformed |-> TRUE,
   caps       |-> "CAP_$(privileged_caps)",
   containers |-> {[name |-> c, copy |-> 1] : c \in Containers},
   mounts     |-> (UNION {{MountOf(c, m, manifest) : m \in manifest.mounts[c]} : c \in Containers})
                    \cup {ExtraMount(c, d) : c \in Containers, d \in more}]

Of(c, policy) == {m \in policy.mounts : m.container = c}
Doubled(S) == S \cup {[x EXCEPT !.copy = 2] : x \in S}
Altered(policy) ==
  {[policy EXCEPT !.wellformed = FALSE], [policy EXCEPT !.caps = "$(privileged_caps)"]}
  \cup {[policy EXCEPT !.containers = {x \in @ : x.name # c}, !.mounts = @ \ Of(c, policy)] :
          c \in Containers}
  \cup {[policy EXCEPT !.containers = @ \cup {[name |-> c, copy |-> 2]},
                       !.mounts = @ \cup Doubled(Of(c, policy))] : c \in Containers}
  \cup UNION {LET Instead(S) == [policy EXCEPT !.mounts = (@ \ {m}) \cup S]
              IN  {Instead({}), Instead(Doubled({m})), Instead({[m EXCEPT !.type = "tmpfs"]}),
                   Instead({[m EXCEPT !.source.kind = "other"]}),
                   Instead({[m EXCEPT !.options = <<"rbind", "rslave", "rw">>]})} :
              m \in policy.mounts}
Extended(policy) ==
  {[policy EXCEPT !.mounts = @ \cup {ExtraMount(c, d)}] : c \in Containers, d \in Destinations}
\* What another release of genpolicy, or other settings, might answer: one difference.
Drifts(policy) == Altered(policy) \cup Extended(policy)

\* Whether a call succeeds: the image's layers must be readable.
Works(creds, reachable) ==
  /\ reachable /\ input.accepts
  /\ creds # "rejected"
  /\ input.public \/ creds = "valid"

-----------------------------------------------------------------------------
(* The corrections.                                                        *)

Row(c, volume, path, propagation, required) ==
  [container |-> c, volume |-> volume, destination |-> path, propagation |-> propagation,
   required |-> required]
\* Mutant: the two propagations of /state are exchanged.
TableSwapped ==
  <<Row("web", "state-mount", "/state", "rshared", TRUE),
    Row("enclava-init", "state-mount", "/state", "rslave", TRUE)>>
\* Mutant: the log mount is required.
TableStrict == <<Row("web", "logs", "/run/enclava-logs", "rslave", TRUE)>>
Table ==
  <<Row("web", "state-mount", "/state", "rslave", TRUE),
    Row("web", "logs", "/run/enclava-logs", "rslave", FALSE),
    Row("attestation-proxy", "state-mount", "/data", "rslave", TRUE),
    Row("attestation-proxy", "state-mount", "/state", "rslave", TRUE),
    Row("enclava-init", "state-mount", "/state", "rshared", TRUE),
    Row("enclava-init", "tls-state-mount", "/state/tls-state", "rshared", TRUE),
    Row("enclava-init", "logs", "/run/enclava-logs", "rshared", FALSE)>>

Expected(r, m) ==
  /\ m.source = [kind |-> "ephemeral", name |-> r.volume]
  /\ m.type = "bind"
  /\ m.options = <<"rbind", "rprivate", "rw">>

\* One relaxation: the check lines replaced, and the helpers they then call.  A helper
\* in Verbatim repeats the check's line in its body.
Relaxations ==
  <<<<"pidns">>, <<"rootfs">>, <<"mount", "fsgroup", "storage">>, <<"sandbox">>, <<"count">>>>
Verbatim == {"pidns", "mount", "storage", "sandbox"}
Helper(k) == <<Text("define", k), IF k \in Verbatim THEN Text("check", k) ELSE Text("other", "-")>>
Helpers(r) == FlattenSeq([i \in DOMAIN r |-> Helper(r[i])])

Has(text, is, k) == \E i \in DOMAIN text : text[i] = Text(is, k)
Replaced(text, K) ==
  [i \in DOMAIN text |-> IF text[i].is = "check" /\ text[i].of \in K
                         THEN Text("use", text[i].of) ELSE text[i]]
\* insert_policy_helper: after the first default line, else in front.
Inserted(text, block) ==
  LET at == SelectInSeq(text, LAMBDA line : line.is = "default")
  IN  SubSeq(text, 1, at) \o block \o SubSeq(text, at + 1, Len(text))

\* The text already names the helper of r's first check.
Named(text, r) == r[1] \in input.mentions \/ Has(text, "use", r[1]) \/ Has(text, "define", r[1])
Applies(text, r) == ~Named(text, r) /\ \E i \in DOMAIN r : Has(text, "check", r[i])
\* Mutant: the helper is inserted before the checks are replaced.
RelaxLate(text, r) ==
  IF Applies(text, r) THEN Replaced(Inserted(text, Helpers(r)), ToSet(r)) ELSE text
Relax(text, r) ==
  IF Applies(text, r) THEN Inserted(Replaced(text, ToSet(r)), Helpers(r)) ELSE text

-----------------------------------------------------------------------------
(* The rules files there are: Kata's, where only CAP has added helpers.    *)

\* Never a check in front, no helper that calls itself, and of the helpers of a relaxation
\* none without the first, which the adapter looks for.
RulesFile(text) ==
  /\ text # <<>> => text[1].is # "check"
  /\ \A i \in DOMAIN text \ {1} :
       ~(text[i - 1].is = "define" /\ text[i] = Text("use", text[i - 1].of))
  /\ \A n \in DOMAIN Relaxations :
       LET r == Relaxations[n]
           Calls(k) == Has(text, "use", k) \/ Has(text, "define", k)
       IN  (\E i \in DOMAIN r : Calls(r[i])) => Calls(r[1])
ASSUME RulesAssumption == \A i \in Inputs : RulesFile(i.rules)

-----------------------------------------------------------------------------
NoData == [wellformed |-> FALSE, caps |-> "-", containers |-> {}, mounts |-> {}]

Init == /\ input \in Inputs
        /\ pc = "render" /\ why = "-"
        /\ extras = {}
        /\ attempts = 0 /\ outage = FALSE
        /\ output = NoData /\ data = NoData
        /\ rules = input.rules
        /\ row = 1

Fail(step) == pc' = "failed" /\ why' = step

Render == /\ pc = "render"
          /\ IF Renders(input.descriptor, input.environment)
             THEN pc' = "prepare" /\ UNCHANGED why
             ELSE Fail("manifest")
          /\ UNCHANGED <<input, extras, attempts, outage, output, data, rules, row>>

\* The directory, the Pod's file, and a copy of the settings: of the file without the token
\* mounts, of the drop-ins as they are.
Prepare == /\ pc = "prepare"
           /\ IF input.settings = "unreadable"
              THEN Fail("io") /\ UNCHANGED extras
              ELSE /\ pc' = "first" /\ UNCHANGED why
                   /\ extras' = IF input.settings = "usable"
                                THEN (input.extras \ TokenDestinations) \cup input.dropIns
                                ELSE input.extras
           /\ UNCHANGED <<input, attempts, outage, output, data, rules, row>>

\* Any write of a file, and the start of the binary, may fail.
IoError == /\ pc \in {"prepare", "first", "retry"}
           /\ Fail("io")
           /\ UNCHANGED <<input, extras, attempts, outage, output, data, rules, row>>

Answered == \E out \in {PolicyOf(TheManifest, extras)} \cup Drifts(PolicyOf(TheManifest, extras)) :
              /\ output' = out /\ data' = out
              /\ pc' = "parse" /\ UNCHANGED why
Call(creds, Otherwise) ==
  \E reachable \in BOOLEAN :
    /\ attempts' = attempts + 1
    /\ outage' = (outage \/ ~reachable)
    /\ IF Works(creds, reachable) THEN Answered ELSE Otherwise /\ UNCHANGED <<output, data>>
    /\ UNCHANGED <<input, extras, rules, row>>

First == pc = "first" /\ Call(input.creds, pc' = "retry" /\ UNCHANGED why)
\* Mutant: the second call uses the same credentials.
RetrySame == pc = "retry" /\ Call(input.creds, Fail("genpolicy"))
\* Mutant: as many calls as it takes.
RetryForever == pc = "retry" /\ Call("none", UNCHANGED <<pc, why>>)
Retry == pc = "retry" /\ Call("none", Fail("genpolicy"))

Parse == /\ pc = "parse"
         /\ IF data.wellformed THEN pc' = "correct" /\ UNCHANGED why ELSE Fail("shape")
         /\ UNCHANGED <<input, extras, attempts, outage, output, data, rules, row>>

Found(r) == {m \in data.mounts : m.container = r.container /\ m.destination = r.destination}
One(r) == Cardinality({c \in data.containers : c.name = r.container}) = 1
Absent(r) == Found(r) = {} /\ ~r.required
Correctable(r) == Cardinality(Found(r)) = 1 /\ \A m \in Found(r) : Expected(r, m)

\* normalize_guest_memory_mount_propagation: one row of the table.
Advance(last, next) == IF row = last THEN pc' = next /\ row' = 1
                                     ELSE row' = row + 1 /\ UNCHANGED pc
Correct ==
  /\ pc = "correct"
  /\ LET r == Table[row]
     IN  \/ /\ One(r) /\ Absent(r)
            /\ Advance(Len(Table), "relax") /\ UNCHANGED <<why, data>>
         \/ /\ One(r) /\ Correctable(r)
            /\ data' = [data EXCEPT !.mounts =
                          (@ \ Found(r)) \cup {[m EXCEPT !.options[2] = r.propagation] : m \in Found(r)}]
            /\ Advance(Len(Table), "relax") /\ UNCHANGED why
         \/ /\ ~(One(r) /\ (Absent(r) \/ Correctable(r)))
            /\ Fail("shape") /\ UNCHANGED <<data, row>>
  /\ UNCHANGED <<input, extras, attempts, outage, output, rules>>

\* normalize_cap_generated_policy: its five normalisers of the rules, in their order.
RelaxRow == /\ pc = "relax"
            /\ rules' = Relax(rules, Relaxations[row])
            /\ Advance(Len(Relaxations), "label")
            /\ UNCHANGED <<input, why, extras, attempts, outage, output, data>>

Label == /\ pc = "label"
         /\ rules' = <<Text("marker", "-")>> \o rules
         /\ data' = [data EXCEPT !.caps = "$(privileged_caps)"]
         /\ pc' = "done"
         /\ UNCHANGED <<input, why, extras, attempts, outage, output, row>>

Next == Render \/ Prepare \/ IoError \/ First \/ Retry \/ Parse \/ Correct \/ RelaxRow \/ Label
Spec == Init /\ [][Next]_vars

-----------------------------------------------------------------------------
(* Properties.                                                             *)

\* Every variable has its type; genpolicy is called at most twice, and a run names the
\* step that failed exactly when it failed.
TypeOK ==
  /\ input.descriptor \in Descriptor
  /\ pc \in {"render", "prepare", "first", "retry", "parse", "correct", "relax", "label",
             "done", "failed"}
  /\ why \in {"-", "manifest", "io", "genpolicy", "shape"} /\ (why # "-" <=> pc = "failed")
  /\ extras \subseteq input.extras \cup input.dropIns
  /\ attempts \in 0..2 /\ outage \in BOOLEAN
  /\ data.containers = output.containers
  /\ rules \in Seq(Line)
  /\ row \in 1..7

\* The Pod that is written is closed: every mounted volume is declared once, no container
\* mounts two volumes at one path, and what its command names is mounted in it, for the
\* container that prepares the directories of the others writable.
ManifestClosed ==
  pc = "prepare" =>
    /\ TheManifest.memory \cap TheManifest.maps = {}
    /\ \A c \in Containers :
         /\ \A m \in TheManifest.mounts[c] : m.volume \in TheManifest.memory \cup TheManifest.maps
         /\ \A m, n \in TheManifest.mounts[c] : m.path = n.path => m = n
         /\ \A p \in TheManifest.commands[c] :
              \E m \in TheManifest.mounts[c] : m.path = p /\ (c = "enclava-tools" => ~m.readOnly)

\* The floor that policy.rs puts under a descriptor before it signs confines the Pod that
\* is rendered here: of its containers only enclava-init is privileged, of the others only the
\* application can gain privileges, and then with exactly the rootful-sudo capabilities.
Signable == SecurityFloor(input.descriptor.oci)
PrivilegeConfined ==
  pc = "prepare" /\ Signable =>
    \A c \in Containers \ {"enclava-init"} :
      LET context == TheManifest.contexts[c]
      IN  /\ ~context.privileged
          /\ context.allow_privilege_escalation =>
               c = "web" /\ context.run_as_user = 0 /\ ExactlySudo(context.add)

\* What the platform sets for a container is what the container sees: no later entry of its
\* environment, of the descriptor or of another function of the adapter, has the same name.
PlatformEnvironment ==
  pc = "prepare" =>
    \A c \in Containers :
      LET env == TheManifest.env[c]
      IN  \A i, j \in DOMAIN env : i < j /\ env[i].by = "platform" => env[i].name # env[j].name

\* The application can read the configuration that the proxy writes for it: the files have
\* its group, or it runs as root; and an application that the floor lets gain privileges
\* is one for which the proxy leaves the files to root.
ConfigReadable ==
  pc = "prepare" =>
    LET web     == TheManifest.contexts["web"]
        grouped == \E v \in Range(TheManifest.env["attestation-proxy"]) :
                     v.name = "CAP_CONFIG_FILE_GID"
    IN  /\ ~grouped => web.run_as_user = 0 /\ web.run_as_group = 0
        /\ Signable /\ web.allow_privilege_escalation => ~grouped

\* The size of the virtual machine agrees with the memory limit in the Pod.
ShapeMatches == pc = "prepare" => (TheManifest.vm = "1536" <=> Below(TheManifest.limit))

\* How the Pod asks that path to be mounted in c, in genpolicy's words.
Declared(mounts, path) ==
  CASE \E m \in mounts : m.path = path /\ m.propagation = "HostToContainer" -> "rslave"
    [] \E m \in mounts : m.path = path /\ m.propagation = "Bidirectional"   -> "rshared"
    [] OTHER -> "rprivate"

\* A finished policy holds exactly genpolicy's mounts, none of them altered but the ones
\* for which the Pod asks a propagation, and these with that propagation, whatever the
\* settings and genpolicy mount besides; the capabilities' placeholder as CAP writes it.
DataCorrected ==
  pc = "done" =>
    /\ LET mounts == TheManifest.mounts
       IN  data.mounts = {IF Declared(mounts[m.container], m.destination) = "rprivate" THEN m
                          ELSE [m EXCEPT !.options[2] = Declared(mounts[m.container], m.destination)] :
                            m \in output.mounts}
    /\ data.caps = "$(privileged_caps)"

\* The output that genpolicy gives for the Pod as rendered is never refused.
FaithfulAccepted == why = "shape" => output # PolicyOf(TheManifest, extras)

\* With a registry that always answers, a run fails in genpolicy only when genpolicy
\* objects to the Pod or the image is private and the credentials do not open it:
\* credentials that the registry rejects never stand in the way of a public image.
CredentialsOptional ==
  why = "genpolicy" /\ ~outage => ~input.accepts \/ (~input.public /\ input.creds # "valid")

InHelper(text, i) == text[i].is = "define" \/ (i > 1 /\ text[i - 1].is = "define")
Own(text) == LET keep == {i \in DOMAIN text : ~InHelper(text, i)}
             IN  [n \in 1..Cardinality(keep) |->
                    text[CHOOSE i \in keep : Cardinality({j \in keep : j <= i}) = n]]
\* Replaced by the normalisers, given the rules they started from.
Relaxed == {k \in Checks : \E i \in DOMAIN Relaxations :
              k \in ToSet(Relaxations[i]) /\ ~Named(input.rules, Relaxations[i])}

\* The relaxed rules: marked; outside the helpers the rules as given, with every check
\* replaced by its helper unless the text named that helper before; each helper that the
\* replaced checks call is there once; no helper calls itself; and the package clause stays
\* in front when there is a default line to insert after.
RulesRelaxed ==
  pc = "done" =>
    LET text == Tail(rules)
    IN  /\ Head(rules) = Text("marker", "-")
        /\ Own(text) = Replaced(Own(input.rules), Relaxed)
        /\ \A k \in Relaxed : Has(input.rules, "check", k) =>
             Cardinality({i \in DOMAIN text : text[i] = Text("define", k)}) = 1
        /\ \A i \in DOMAIN text \ {1} :
             ~(text[i - 1].is = "define" /\ text[i] = Text("use", text[i - 1].of))
        /\ Has(input.rules, "default", "-") => Head(text) = Head(input.rules)

\* docs/genpolicy-adapter.md:18-20: the Pod is derived from the signed descriptor's image
\* digest.
ImageAsSigned == pc = "done" => TheManifest.image = input.descriptor.image_digest
=============================================================================
