# Verification of the Enclava signing service

TLA+ models, TLC runs and TLAPS proofs for the `policy-templates` repository: the
`signing-service` that keeps the owner key of each organisation, generates the agent policy
of a deployment with Kata's `genpolicy`, renders the Trustee resource policy, and signs
both. File names without a directory are under `src/signing-service/src/`.

    tlasany M.tla                          # parse
    tlc -workers 2 -config X.cfg M         # one run; PROJECT.json pairs cfg and module
    tlapm M.tla                            # check the proofs of a ...Proofs module

## 1. Inventory

| Part | Source | State | Operations | Modelled in |
|---|---|---|---|---|
| Owner database | `owner_store.rs` | SQLite tables `owners`, `owner_events`; one connection per call | `bootstrap_owner`, `owner_status`, `get_owner`, `require_owner`, `rotate_owner` | `OwnerStore`, abstractly `OwnerRegistry` |
| Owner handlers | `main.rs` 315-523 | locals of a request | `bootstrap_org`, `owner_status`, `rotate_owner` | `OwnerStore` |
| Signing endpoints | `main.rs` 207-265, `policy.rs` | locals of a request, key material | `generate_agent_policy`, `sign_policy` | `SigningService` |
| policy-artifact command | `bin/policy-artifact.rs` | none | one artifact per run, without the service | `SigningService` |
| Keyring, descriptor | `keyring.rs`, `descriptor.rs`, `canonical.rs` | none | verify, find deployer, hash; CE-v1 encoding | `SigningService`, `CanonicalForms`, `CanonicalEncoding`, `SignedStatements` |
| Policy rendering | `policy.rs` 271-440, `templates/` | none | fill slots, validate values, OCI floor | `SigningService`, `PolicyRendering`, `SecurityProfile`, `SignedStatements` |
| genpolicy adapter | `genpolicy.rs` 192-732 | a temporary directory per run | render, copy settings, call, call again, correct data, relax rules | `AgentPolicyGeneration` |
| Pod manifest | `genpolicy.rs` 734-1575 | environment variables, read-only | `render_pod_manifest` | `PodContainers`, `PodManifest` |
| Caddy hand-off script | `genpolicy.rs` 52-95 | shell variables, child process, certificate files | wait, validate, run, watch, restart | `CaddyHandoff` |
| Start and authentication | `main.rs` 118-205, 267-313 | token hashes, which routes exist | environment flags, bearer tokens | `ServiceLifecycle` |
| Resource policy | `templates/*.rego` | evaluated by Trustee | release a resource or not | not modelled |
| Build, CI, deployment | `Dockerfile`, `deploy/`, `.github/` | - | replacement, probes, token rotation | the Deployment in `ServiceLifecycle` |

How the parts interact:

- Handlers run concurrently on tokio workers. They share the database and nothing else; a
  store call opens its own connection, so two handlers meet inside SQLite.
- `sign_policy` reads the owner, verifies keyring and descriptor under it, runs genpolicy
  (seconds), compares the result with what the deployer signed, renders, signs. Rotations
  and redeployments go on meanwhile.
- A deployer first asks `/agent-policy` for the policy, signs a descriptor that carries its
  hash, then asks `/sign`, or runs the command. Each of the three generates anew.
- The adapter calls genpolicy as a process on a manifest file and rewrites what it prints.
- The manifest starts, in the deployed Pod, the script that shares certificate files with a
  TLS broker and a caddy child.
- Kubernetes replaces the process by a new one that is ready first, and kills one whose
  `/healthz` does not answer; a process sees the settings it was started with. genpolicy
  runs on the worker thread of its request.
- Owners, deployers and the service sign with keys of one kind, over one encoding; a
  signature is presented by whoever holds it.

What is hard about it:

- a check against a row read on one connection, and a write in another's transaction;
- SQLite's deferred transactions, whose upgrade to a write fails at once on a stale
  snapshot, and whose failure is an answer to the caller;
- a crash or a store error between the two writes of a transaction, or after the commit;
- retries of directives and bootstraps whose answer was lost;
- keys and releases that change between the steps of one request, and between requests
  that depend on each other;
- a retry that runs genpolicy with other credentials; output that may have any shape;
- five text rewritings in sequence, whose insertions contain what they replace;
- tokens read once per process, from two variables, while a rotation goes on; workers
  blocked by a call without a limit of time, `/healthz` with them;
- lists that are sorted before they are signed, hashes that leave out fields, slots
  replaced in text that holds earlier values;
- one security profile recognised at three places, an environment that two parties write;
- a shell script with three loops, a child that may die, hang or ignore TERM, and files
  replaced one at a time.

What makes each part correct:

| Part | Properties |
|---|---|
| Owner database and handlers | `AuditTrail`, `ChainAuthorised`, `AckTruthful`, `HistoryGrows`, `RegistrySpec` (refinement), `EveryRequestAnswered` |
| Signing endpoints, keyring, descriptor, command | `ArtifactAuthorised`, `ArtifactFaithful`, `SoundSigned` |
| Encoding, canonical forms | `OneReading`, `AcceptedAsSigned`, `ArtifactIdentifies` |
| Policy rendering | `RenderedAsMeant`, `EscalationIsSudo` |
| Pod manifest | `ManifestClosed`, `ShapeMatches`, `PrivilegeConfined`, `PlatformEnvironment`, `ConfigReadable` |
| genpolicy adapter | `DataCorrected`, `FaithfulAccepted`, `CredentialsOptional`, `RulesRelaxed` |
| Start, authentication, Deployment | `CallerServed`, `RetiredRefused`, `RoutesEquipped`, `Recovers`, `RotationEnds` |
| Caddy script | `OneCaddy`, `StopsJustified`, `RenewalServed` |

`PROJECT.json` lists the hazards behind them at their lines, each with the properties that
would catch it, or with the reason why none does.

## 2. Plan

| Step | Modules | Content | State |
|---|---|---|---|
| 1 | `OwnerRegistry`, `OwnerStore`, `OwnerStoreProofs` | the database, its abstraction, refinement, proofs | done |
| 2 | `SigningService`, `SigningServiceProofs` | signing against rotations and redeployments, proofs | done |
| 3 | `CaddyHandoff`, `CaddyHandoffProofs` | the script, proofs | done |
| 4 | `AgentPolicyGeneration`, `AgentPolicyGenerationProofs` | one run of the adapter, proofs | done |
| 5 | `PodContainers`, `PodManifest` | mounts, volumes, commands, shape; security contexts and environments | done |
| 6 | `CanonicalEncoding`, `CanonicalForms`, `PolicyRendering`, `SecurityProfile`, `SignedStatements` and proofs | CE-v1 has one reading; what a signature can be used for; slots replaced one after the other; the floor | done |
| 7 | `ServiceLifecycle`, `ServiceLifecycleProofs` | start, routes, tokens, blocked workers, the Deployment | done |
| 8 | `ResourcePolicy` | the template's rules | left out, see section 7 |

`SigningService` composes with `OwnerRegistry` by INSTANCE, which `OwnerStore` is shown to
implement; `PodContainers` and `SignedStatements` extend `SecurityProfile`,
`AgentPolicyGeneration` extends `PodManifest`, `SignedStatements` extends `CanonicalForms`
and `PolicyRendering` and rests on what `CanonicalEncoding` shows. The proof modules share
`CommonLemmas`. Every safety property of the runs is proved; what is left to the runs alone
is liveness (section 5).

## 3. Modules

### OwnerRegistry

A set of links `[org, version, key, by]`. A bootstrap adds version 1 of an organisation
without any; a rotation adds, in one step, the successor of the newest link, put there by
that link's key, with another key.

### OwnerStore

| Variable | Code |
|---|---|
| `owners`, `events` | the tables, as committed |
| `writer` | which transaction holds SQLite's write lock |
| `pc`, `req`, `reply` | a handler's position, request, answer |
| `current` | the owner `rotate_owner` (handler) read before it calls the store |
| `mark`, `base` | the snapshot of the handler's transaction: how many events, which row |
| `authority` | history: who signed for each event |

| Action | Code |
|---|---|
| `Receive`, `Reject`, `Deliver` | a request arrives; is refused for its own content; its answer leaves |
| `ReadStatus` | `owner_status`: one SELECT |
| `Authorise` | `rotate_owner` (handler): signature, `require_owner`, authority test |
| `BootstrapRead`, `RotateRead` | the transaction's SELECTs, which fix its snapshot, and every early return after them |
| `WriteOwner` | INSERT or UPDATE of the row: upgrade to a writer, or BUSY |
| `WriteEvent` | INSERT of the event |
| `Commit` | the commit |
| `StoreError` | any statement fails, the transaction is dropped and rolls back |
| `Crash` | the process dies: uncommitted work and answers are gone |

Assumed of SQLite: a deferred transaction reads one snapshot from its first SELECT on; the
upgrade to a writer fails at once when another connection writes or has committed since;
commit is atomic and durable. Decoding of keys is the `malformed` form of a request, a
signature is whether it verifies.

### SigningService

`chain` is the owner database as an `OwnerRegistry`; `release` the running release
(template and genpolicy pin); per handler `pc`, `req`, `runs` (the release that serves it),
`trusted` (the owner it read), `policy` (what genpolicy returned), `reply`. `stale` is
history: the links that had been replaced when the request arrived.

`BeginPreview` (`/agent-policy`), `LoadOwner` (`/sign`) and `TakeOwner` (the command) start
a request; `VerifyInputs`, `Generate` and `SignVerified` are the three stages of
`policy.rs` with all their checks in order; `StoreError`, `Deliver` end it. `OwnerChange`
is a bootstrap or rotation of any organisation, `Redeploy` replaces the process and loses
any of its requests. A text is named by what determines it: spec, log encryption, release.
That genpolicy's output depends on nothing else supposes image references by digest, and
that registry credentials only decide whether it succeeds.

### CanonicalEncoding

`ce_v1_bytes`, called for the statement that was signed and for the one that is verified:
`given` are the records of the two calls, `done` is the position of the loop, `out` the
bytes, `panicked` an `expect` of a length conversion. `Advance` is a turn of the loop in
both calls, `Panic` the failed conversion. Bytes, the widths of the two lengths and their
big-endian representation are constants of which only what `u16` and `u32` guarantee is
assumed: distinct numbers have distinct representations of one width.

### CanonicalForms, PolicyRendering, SecurityProfile

Operators, without state. `CanonicalForms` has the `canonical_*` functions of `descriptor.rs`,
`keyring.rs`, `main.rs` and `policy.rs` as the lists of records they encode; a hash stands
for its preimage. `PolicyRendering` is `render_template` on texts of atoms, where a slot's
marker, other opening braces, a quote and a line end are told apart from letters: its eight
replacements are a function of their number, each over the text that already holds earlier
values. `SecurityProfile`
is `validate_oci_security_floor` with `capabilities_match_rootful_sudo`, which compares a
count and a membership without regard to letter case.

### SignedStatements

One key, which may be owner, deployer and signer at once. `signed` is what it has signed,
`accepted` the statement last accepted on a signature, `made` the artifacts. `Sign` is a
holder of the key, `Present` any of the three signature checks with any signature made so
far, `MakeArtifact` is `sign_verified_policy` with its checks in conjunction. What the
verifications ask besides the signature is in `SigningService`. Two statements mean the same
(`SameMeaning`) when they agree in every field and list, but for the order of environment
variables and resources of different names and of members of different users: that order is
sorted away before the signature, on purpose.

### ServiceLifecycle

| Variable | Code |
|---|---|
| `settings` | the environment that the Secret and the ConfigMap give the next process |
| `pods` | per pod: gone, down, or a process with its settings, readiness and blocked workers |
| `fresh` | the pod that a replacement waits for |
| `stage`, `current`, `next`, `caller` | the rotation of the token, as `kubernetes.yaml` 10-12 describes it |

`Start` succeeds as `main` does: `Starts` is every refusal on the way to the listener,
`LoadsKey` is `load_signing_key_material`, `Routes` the two routers, `Trusted` the two token
variables, `Status` the authentication layer. `Generate` takes a worker and `Generated`
gives it back, if genpolicy ends. `ReadinessProbe`, `LivenessProbe`, `Crash` and `Replace`
are the Deployment; `Widen`, `SwitchCaller`, `Narrow` and `Settle` the operator's steps.

### PodContainers, PodManifest and AgentPolicyGeneration

`PodContainers` gives what the five containers run as and see: security contexts, with the
fallback for a context that was never set, the two profiles the adapter recognises, the
required configuration keys, and the names of the environment variables in their order,
with who set each. `PodManifest` adds mounts, volumes, the mounted directories that commands
name, and the shape, as functions of the descriptor, of whether logs are encrypted, and of
the process environment, and the conditions under which rendering fails. Ports, the figures
of the sidecars' resources and constant annotations are left out.

`AgentPolicyGeneration` is one run; runs share nothing. `pc` goes through `render`,
`prepare`, `first`, `retry`, `parse`, `correct`, `relax`, `label`; `row` counts inside the
two loops. `Render` fails as `render_pod_manifest` does; `Prepare` copies the settings: of
`genpolicy-settings.json` without the token mounts (`extras`), and the files of
`genpolicy-settings.d` as they are, which may mount one again (`dropIns`); `First` and
`Retry` are the calls of genpolicy, the second with empty credentials after any failure of
the first; `Parse` and `Correct` are `normalize_guest_memory_mount_propagation`, a row of
its table per step; `RelaxRow` is one normaliser of the rules; `Label` puts the marker in
front and restores the placeholder. `IoError` fails any write or process start.

genpolicy is external: it answers the policy of the manifest and of what its settings mount
in every container, or that with one difference (a container missing or doubled, a mount
missing, added, doubled or of another source, type or option, no readable data, another form
of the placeholder). Of a drop-in only what it adds to those mounts is in the model. Rules
are a sequence of lines: package, default, check, call of a helper, head of a helper,
others. A helper is its head and one body line, which repeats the check's line where the
code's helper does.

### CaddyHandoff

Every line of the script is an action; `turns` is whichever counter the loop at `pc` uses.
The broker writes `crt` and `key` separately; caddy loads a pair (`Load`), dies or obeys
a TERM (`Die`); the kubelet restarts the container (`Restart`); `Terminate` is its
deletion. A certificate is its version, so `cksum` tells two apart. `kills` is history.

## 4. Runs

| Run | Bounds | States | Shows |
|---|---|---|---|
| `owner_store` | 2 organisations, 3 keys, 2 handlers, `MaxEvents` 3 (up to 4 are committed), symmetry | 190 550 | safety of the database, and that it implements `OwnerRegistry` |
| `owner_store_live` | 1 organisation, 2 keys, 2 handlers, `MaxEvents` 3, fair | 47 311 | every request is answered |
| `owner_store_replay` | as above | violation | finding 1 |
| `owner_store_bootstrap_busy` | as above | violation | finding 2 |
| `signing_service` | 2 organisations, 2 keys, 3 specs, 2 releases, 1 handler, 3 links | 336 114 | artifacts are authorised and faithful, sound requests signed |
| `signing_command` | as above | violation | finding 3 |
| `agent_policy` | 319 inputs, every single difference of genpolicy's output | 155 851 | the adapter and the manifest |
| `agent_policy_image` | as above | violation | finding 4 |
| `caddy_handoff` | the script's own 300, 60 and 30 turns, 4 certificates | 16 944 | the script, safety and liveness |
| `signed_statements` | 197 descriptors, 80 keyrings, 16 rotations, one signed by hand | 836 | what a signature and an artifact stand for |
| `canonical_encoding` | lists of up to 2 of 24 records, in bits; lengths up to 1 and 3 | 863 521 | CE-v1 has one reading |
| `service_lifecycle` | 2 tokens, 2 workers, 2 pods, 69 settings, fair | 14 767 | the token's rotation, the routes, recovery |

Why the bounds are enough. Four events hold a bootstrap, a rotation, a rotation back and
one more, so a directive can be repeated after its key has returned. Two handlers are what
a conflict of transactions takes: a third could only be refused by the same lock. Two
organisations share the lock and the snapshot and nothing else; what happens inside a chain
is in the runs with one. Handlers of `SigningService` share only `chain` and `release`, which
other actions change freely, so one handler sees all there is to see (the proofs are for any
number); three links are a rotation during a request and one before it. Requests, adapter
inputs and statements deviate from a sound one in one respect, or two where they interact,
since every guard looks at one respect. A signature is compared with one statement at a
time, so one that is signed by hand is enough beside those the service signs; statements of
all kinds meet it. With one bit for a label's length and two for a value's, labels and values
of every length that fits, and of one that does not, are in the run of the encoding, on both
sides. A replacement has two pods; two workers are one that is blocked and one that is not;
two tokens are those of a rotation, which can be repeated in the other direction.

`MaxEvents`, `MaxLinks`, `MaxVersion` and `MaxSigned` are the only bounds in the modules.
`CHECK_DEADLOCK FALSE` stands where the system, or what the run follows of it, ends: no
request after `MaxEvents`, an adapter run that is over, a deleted Pod, two calls of the
encoding that have returned, all statements signed and presented, a service whose settings
keep it from starting.

Fairness. A handler that runs keeps running (weak fairness of its own steps): a tokio
worker executes it without waiting for another handler, as no statement waits on a lock
once the upgrade fails at once. Store errors, crashes and new requests are not fair. In
the script the shell, a caddy that starts and the kubelet are fair; that caddy obeys TERM
and that the broker renews is not assumed: `RenewalServed` holds by the KILL after the
grace period. In `ServiceLifecycle` the kubelet starts and probes, the Deployment's
controller replaces and the operator finishes what was begun. Of genpolicy nothing is
assumed. What needs a process that is up or ready (`ReadinessProbe`, `Replace`, `Narrow`) is
strongly fair, since a crash disables it: a process that crashed every time before the probe
or the controller could see it ready would never be replaced, whatever the code did.

Each property of a passing run has a mutant in `PROJECT.json`, a plausible defect of one
definition under which the run must find it violated; the mutated bodies stand beside the
definitions in the modules, under a comment `Mutant:`.

## 5. Proofs

All for every value of the constants, from the named ASSUMEs of the modules only (`NoKey`
is no key, `NoHandler` no handler, bounds are naturals, and the like).

**OwnerStoreProofs** (`TypeCorrect`, `TrailCorrect`, `ChainCorrect`, `AckCorrect`,
`HistoryCorrect`, `StoreRefinesRegistry`). `AuditTrail` alone is not inductive: a commit
preserves it only if the row was computed from the row it replaces. The invariant adds
`LockHeld` (only the holder of the lock is past its first write), `SnapshotsFresh` (a
snapshot as long as the trail shows the present row, and a writer's snapshot is that long),
`RotationsChecked` and `WritesJustified` (what the handler and the SELECTs established is
still known at the commit). The refinement then follows: a commit is a `Bootstrap` or a
`Rotate`, every other step leaves the chain alone.

**SigningServiceProofs** (`TypeCorrect`, `AuthorityCorrect`, `FaithfulCorrect`,
`SoundCorrect`). The invariant says per handler where what it holds came from: the owner it
trusts was newest at some time since arrival (`Sourced`), what it has passed holds
(`Checked`), the policy is that of its request and release (`Produced`), and links replaced
before arrival are not newest (`Replaced`); and that an organisation with a link has a newest
one.

**CaddyHandoffProofs** (`TypeCorrect`, `OneCaddyCorrect`, `StopsCorrect`). While caddy runs
there have been fewer stops than the stamp has versions, and a stop is decided only when
the file has moved past the stamp.

**AgentPolicyGenerationProofs** (`TypeCorrect`, `CredentialsCorrect`, `PrivilegeCorrect`,
`ManifestCorrect`, `ShapeCorrect`, `EnvironmentCorrect`, `ConfigCorrect`, `FaithfulCorrect`,
`DataCorrect`, `RulesCorrect`). When the second call is
due and the registry has answered, the first failed for a reason that lies in the input. The
properties of the manifest follow from its definition, for every descriptor and environment
that `Inputs` may hold; that of the variables goes through the lists they are concatenated
from. Those of the data need the invariant `DataInv`: in row `n` of the
table the mounts are those genpolicy printed with the first `n - 1` rows applied. It is kept
because no mount is meant by two rows (`RowsApart`), so a row finds only mounts that no
earlier row has touched; that it finds what it needs in a faithful answer is the agreement
of the table with the Pod (`RowMounts`, `PathsApart`), which are two places in the source.
The rules are compared with those given through the lines outside helpers, in order: the
invariant (`RelaxedTo`) says that the checks of the relaxations before `row` (`Done`) are
replaced among them and no other, that each of their helpers is there once, and that of the
checks of the relaxations from `row` on (`Left`) the text has a check, a call or a helper
exactly if the rules given have one, so that they find what they would have found at first.
The last is what the insertions endanger, since a helper that is inserted repeats the
check's line and names other helpers. It takes the assumption `RulesAssumption` about the
rules file: no check stands in front, no helper calls itself, and where one helper of a
relaxation is, the first is. Kata's rules have no helpers, and rules that the adapter has
relaxed have them all.

**CanonicalEncodingProofs** (`TypeCorrect`, `OneReadingCorrect`). An encoded record is never
a proper prefix of another's (`PrefixFree`). As long as the two calls have gone on together,
equal bytes after any continuation mean equal records so far; a call that goes on after the
other has returned adds at least the two lengths.

**CommonLemmas** (`SudoExact`). The adapter's test compares a count and asks for
membership, yet accepts exactly the permutations of the required capabilities, whatever case
they are written in: as many entries as there are required ones leave no room for a double.
The rest are lemmas the other modules cite: induction, on a set of numbers instead of a
predicate, from the least element of a set; `FlattenSeq`, minimum, the elements of a set of
positions by rank, and texts in which every element is replaced by a text (`Subst`), how
they concatenate (`SubstConcat`) and how one replacement follows another (`SubstComposed`).

**SignedStatementsProofs** (`TypeCorrect`, `EscalationCorrect`, `RenderedCorrect`,
`AcceptedCorrect`, `ArtifactCorrect`). The invariant says who put what into the three sets;
the rest is about the operators. Bytes signed for one purpose are never those of another,
since the first record of each kind names it. What is accepted can then be read back from
its bytes: the length of the records tells the flag, their places the fields, and a list
that was sorted by a stable sort has the entries of every list that sorts to it, those of
one name in one order (`SortedSame`; the ranks of `Sorted` are a permutation, `KeyRanks`).
That equal bytes have equal records is `OneReadingCorrect`.
What is rendered is the template with the slots replaced one after the other; a value without
a closing character leaves the closing characters as they are (`EndsKept`), and values that
name no slot make the eight replacements one (`NextSlot`, `RenderedAtOnce`).
An artifact names its descriptor by a core hash that leaves three hashes out. Two of them
were compared when it was made; the third, of the init data, is nowhere in the artifact but
in the rendered text, out of which it is read (`InitDataRead`): it is put in first, has no
slot in it, and what stands before it comes from the fields of the core alone. Assumed are
the types of the statements (`IsDescriptor`, `OrgKeyring`, `RotationDirective`), that the
hexadecimal digits of that hash are always as many and none of them a slot, and that the
template has its slot.

**ServiceLifecycleProofs** (`TypeCorrect`, `CallerServedCorrect`, `RetiredRefusedCorrect`,
`RoutesEquippedCorrect`). The invariant says for each stage of the rotation which tokens the
settings and the processes know, and that a process runs with settings that let it start.

Only model-checked: `EveryRequestAnswered`, `RenewalServed`, `Recovers` and `RotationEnds`,
since liveness under fairness and ENABLED are out of tlapm's reach. No module declares a
RECURSIVE operator; induction over the length of a list is `SetInduction`, whose hypothesis
is about a set, so that no operator has to be instantiated.

## 6. Findings

1. **A repeated rotation is refused** (`main.rs:454`). The handler hands the store the owner
   it has just read as the expected one, so the store's replay branch cannot be reached from
   it; the tests of both sides assert that an exact replay is accepted.
2. **Bootstrap is not idempotent under concurrency** (`owner_store.rs:101`). The loser of two
   bootstraps with one key is answered 400, although its key is the owner's;
   `docs/owner-bootstrap-and-rotation.md` promises idempotence.
3. **The command ignores log encryption** (`bin/policy-artifact.rs:36`) and so refuses a
   request that `/sign` would sign.
4. **The agent policy's image is `image_ref`** (`genpolicy.rs:1207`), which nothing compares
   with the `image_digest` that `docs/genpolicy-adapter.md` names and the Trustee template
   uses.

Observed, without a run.

- Start: `SIGNING_SERVICE_BEARER_TOKEN` is trusted beside the list, so the narrowing that
  `deploy/kubernetes.yaml` describes has to replace it as well. An ephemeral signing key
  differs with every start under the same key id. `/healthz` reports signing as enabled
  where `/sign` is not registered. Graceful shutdown listens to ctrl-c only, not to the TERM
  that Kubernetes sends. Both processes of a replacement have the database file open.
- Calls: a generation that blocks the last worker longer than the liveness probe waits is
  killed with its process; with half a CPU there is one worker. The floor is checked after
  the generation, and by `/agent-policy` not at all, which also generates from a descriptor
  nobody has verified, although `docs/genpolicy-adapter.md` says "only from the verified
  signed". The command does not require a pinned genpolicy version.
- Statements: a rotation directive has no nonce, so it is applied again when the
  organisation has come back to the key that signed it. An artifact's `org_keyring` is not
  covered by its signature. The descriptor's `oci_runtime_spec.mounts` are signed and never
  rendered.
- Settings: the token mounts are taken out of `genpolicy-settings.json` only. A drop-in that
  mounts one keeps it, and the corrections leave it where genpolicy puts it
  (`DataCorrected`: no other mount is altered).
- Slots: a value that names a later slot is replaced again; braces that meet only after a
  replacement are taken for a slot that remains; a backslash is kept, and read by Rego.
  `RenderedAsMeant` is about the text, not about how Rego reads it.
- Pod: the required configuration keys are read from the first entry of a name, while the
  container sees the last, and a word is cut at its first blank. `CADDY_SEED_PATH` lies below
  `/state`, which `tenant-ingress` does not mount. A relaxation of the rules is skipped when
  a value of the descriptor contains its helper's name.
- Words: the README names the template `trustee-resource-policy-v1`, the code uses v1.1
  (`lib.rs`).

## 7. Not modelled

- **Resource policy template.** It is Rego that Trustee evaluates, on evidence this
  repository does not produce: conditions without state, which the tests of `policy.rs` run
  with a Rego interpreter. What the repository does with it, the slots, is `PolicyRendering`.
- **Cryptography.** A signature is whether it verifies, a hash what it is the hash of.
- **Decoding** of HTTP, JSON, hex, base64 and of the command's arguments: what does not
  decode is refused before any state is read; where a decoded field can fail later it is a
  `malformed` form. `BIND_ADDR` is left out for the same reason.
- **Data without a choice** in the Pod manifest: ports, the figures of the sidecars'
  resources, constant annotations; logging and timestamps.
- **genpolicy**, caddy, the broker, SQLite and Kubernetes are external: only what the code
  relies on is in the models, with the faults it handles.
- **Build and CI**: tests, the workflows and the container image have no behaviour at run
  time. Of the deployment, one replica, its replacement, its probes and the token rotation
  are in `ServiceLifecycle`. Its scheduler is not: the owner database is on a ReadWriteOnce
  volume (`kubernetes.yaml` 22-32), which one node holds, so a replacement on another node
  waits for the pod that waits for it. `RotationEnds` assumes that a replacement starts.
