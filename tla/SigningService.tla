--------------------------- MODULE SigningService ---------------------------
(***************************************************************************)
(* How a policy artifact comes to be signed: POST /agent-policy and POST   *)
(* /sign of the service (main.rs, policy.rs, keyring.rs, descriptor.rs)    *)
(* and the policy-artifact command (bin/policy-artifact.rs), running while *)
(* owners rotate and the service is redeployed.                            *)
(*                                                                         *)
(* The owner database appears as the OwnerRegistry it implements; a run of *)
(* genpolicy appears as its result.  A signature is whether it verifies, a *)
(* hash is what it is the hash of.                                         *)
(***************************************************************************)
EXTENDS Naturals, FiniteSets

CONSTANTS Orgs,       \* organisation ids
          Keys,       \* Ed25519 public keys of owners and deployers
          NoKey,      \* no public key
          Specs,      \* the part of a descriptor that manifest and template read
          Ambiguous,  \* specs that name a resource twice in a list
          Unsafe,     \* specs below the OCI security floor, or that fit no template slot
          Releases,   \* released images: a genpolicy pin and a template
          Handlers,   \* requests that may be served at the same time
          Requests,   \* the requests that may arrive
          MaxLinks    \* bound: owner keys that the organisations may have had

ASSUME KeysAssumption  == NoKey \notin Keys
ASSUME SpecsAssumption == Ambiguous \subseteq Specs /\ Unsafe \subseteq Specs
ASSUME BoundAssumption == MaxLinks \in Nat

VARIABLES
  chain,     \* the owner database (OwnerRegistry)
  release,   \* the release the service runs
  pc,        \* where each handler is
  req,       \* the request each handler serves
  runs,      \* the release that serves it
  stale,     \* history variable: the organisation's links replaced before arrival
  trusted,   \* the owner key the handler verifies the keyring under
  policy,    \* the agent policy genpolicy returned to the handler
  reply      \* the answer of each handler

requests == <<pc, req, runs, stale, trusted, policy, reply>>
vars == <<chain, release, requests>>

-----------------------------------------------------------------------------
(* Data.                                                                   *)

Roles == {"owner", "admin", "deployer"}
Logs  == {"plain", "encrypted"}

\* Texts, named by what determines them.
AgentPolicy == [spec : Specs, log : Logs, release : Releases]
Rego        == [spec : Specs, template : Releases]

\* members gives the roles a key appears with; in no member, none.
KeyringEnvelope ==
  [org : Orgs, members : [Keys -> SUBSET Roles], signer : Keys, signed : BOOLEAN]

\* schema: its version is the one the service supports.  template: the id and the
\* hash of the template it was made for.
DescriptorEnvelope ==
  [org : Orgs, spec : Specs, schema : BOOLEAN, template : Releases, rego : Rego,
   agent : AgentPolicy, signer : Keys, signed : BOOLEAN]

\* named: app, deployment and platform release are the descriptor's.  owner, key
\* and image are arguments of the command: the owner key to trust, the key it
\* signs with and the release it was built from.
Request ==
  [op : {"preview", "sign", "cli"}, descriptor : DescriptorEnvelope,
   keyring : KeyringEnvelope, log : Logs, named : BOOLEAN,
   owner : Keys, key : Keys, image : Releases]

NoRequest == [op |-> "none"]
NoRelease == "none"

\* A preview sends a bare descriptor: nobody signed it.
ASSUME RequestsAssumption ==
  /\ Requests \subseteq Request
  /\ \A q \in Requests : q.op = "preview" => ~q.descriptor.signed

\* by: the artifact's signing key, NoKey for the platform's.
Artifact == [org : Orgs, spec : Specs, deployer : Keys, by : Keys \cup {NoKey},
             rego : Rego, agent : AgentPolicy, pin : Releases]
NoArtifact == [org |-> "none"]
NoPolicy   == [spec |-> "none"]
Reply == [status : {"none", "refused", "failed", "previewed", "signed"},
          policy : AgentPolicy \cup {NoPolicy}, artifact : Artifact \cup {NoArtifact}]
Plain(status) == [status |-> status, policy |-> NoPolicy, artifact |-> NoArtifact]

Labels == {"idle", "received", "owner", "generate", "generated", "replying"}

D(h) == req[h].descriptor
K(h) == req[h].keyring

Registry == INSTANCE OwnerRegistry

LinksOf(o) == {c \in chain : c.org = o}

-----------------------------------------------------------------------------
(* Requests.                                                               *)

Init ==
  /\ chain = {}
  /\ release \in Releases
  /\ pc = [h \in Handlers |-> "idle"]
  /\ req = [h \in Handlers |-> NoRequest]
  /\ runs = [h \in Handlers |-> NoRelease]
  /\ stale = [h \in Handlers |-> {}]
  /\ trusted = [h \in Handlers |-> NoKey]
  /\ policy = [h \in Handlers |-> NoPolicy]
  /\ reply = [h \in Handlers |-> Plain("none")]

Receive(h, q) ==
  /\ pc[h] = "idle"
  /\ pc' = [pc EXCEPT ![h] = "received"]
  /\ req' = [req EXCEPT ![h] = q]
  /\ runs' = [runs EXCEPT ![h] = IF q.op = "cli" THEN q.image ELSE release]
  /\ stale' = [stale EXCEPT ![h] =
       {c \in LinksOf(q.descriptor.org) : ~Registry!Newest(c)}]
  /\ UNCHANGED <<chain, release, trusted, policy, reply>>

\* The handler returns r, and its local variables go with it.
Answer(h, r) ==
  /\ pc' = [pc EXCEPT ![h] = "replying"]
  /\ reply' = [reply EXCEPT ![h] = r]
  /\ trusted' = [trusted EXCEPT ![h] = NoKey]
  /\ policy' = [policy EXCEPT ![h] = NoPolicy]

Continue(h, label) ==
  /\ pc' = [pc EXCEPT ![h] = label]
  /\ UNCHANGED reply

\* What no handler's step changes.
Steady == UNCHANGED <<chain, release, req, runs, stale>>

-----------------------------------------------------------------------------
(* The handlers up to the run of genpolicy.                                *)

\* generate_agent_policy: it looks at the schema version and at nothing else.
BeginPreview(h) ==
  /\ pc[h] = "received" /\ req[h].op = "preview"
  /\ \/ D(h).schema /\ Continue(h, "generate") /\ UNCHANGED <<trusted, policy>>
     \/ ~D(h).schema /\ Answer(h, Plain("refused"))
  /\ Steady

SameOrg(h) == D(h).org = K(h).org

\* Mutant: the key that signed for the owner, not the owner's.
SignerKeys(h) == {c.by : c \in {d \in LinksOf(D(h).org) : Registry!Newest(d)}}
\* Mutant: an owner remembered from before a rotation.
PastOwnerKeys(h) == {c.key : c \in LinksOf(D(h).org)}
\* require_owner: the present owner, of an organisation that has one.
OwnerKeys(h) == {c.key : c \in {d \in LinksOf(D(h).org) : Registry!Newest(d)}}

\* sign_policy up to require_owner.
LoadOwner(h) ==
  /\ pc[h] = "received" /\ req[h].op = "sign"
  /\ \/ /\ SameOrg(h)
        /\ \E k \in OwnerKeys(h) : trusted' = [trusted EXCEPT ![h] = k]
        /\ Continue(h, "owner") /\ UNCHANGED policy
     \/ (~SameOrg(h) \/ OwnerKeys(h) = {}) /\ Answer(h, Plain("refused"))
  /\ Steady

\* The command trusts the owner key of its argument.
TakeOwner(h) ==
  /\ pc[h] = "received" /\ req[h].op = "cli"
  /\ trusted' = [trusted EXCEPT ![h] = req[h].owner]
  /\ Continue(h, "owner")
  /\ UNCHANGED policy /\ Steady

VerifyKeyring(h) ==
  /\ K(h).signer = trusted[h]
  /\ K(h).signed
  /\ "owner" \in K(h).members[trusted[h]]

FindDeployer(h) == K(h).members[D(h).signer] # {}

UniqueNames(h) == D(h).spec \notin Ambiguous

SigningKeyMatches(h) == req[h].op = "cli" => req[h].key = D(h).signer

\* verify_signing_inputs, and the command's check of its own key.
VerifyInputs(h) ==
  LET verified == /\ SameOrg(h)
                  /\ VerifyKeyring(h)
                  /\ FindDeployer(h)
                  /\ D(h).signed
                  /\ UniqueNames(h)
                  /\ SigningKeyMatches(h)
  IN
  /\ pc[h] = "owner"
  /\ \/ verified /\ Continue(h, "generate") /\ UNCHANGED <<trusted, policy>>
     \/ ~verified /\ Answer(h, Plain("refused"))
  /\ Steady

-----------------------------------------------------------------------------
(* genpolicy, and the artifact.                                            *)

\* Mutant: the service drops the request's log encryption.
LogIgnored(h) == "plain"
\* The command calls run, without log encryption, whatever the request says.
LogUsed(h) == IF req[h].op = "cli" THEN "plain" ELSE req[h].log

Generated(h) == [spec |-> D(h).spec, log |-> LogUsed(h), release |-> runs[h]]

\* run_with_log_encryption: a policy, or an error of the manifest or of genpolicy.  No
\* manifest is rendered for ambiguous names.
Generate(h) ==
  /\ pc[h] = "generate"
  /\ \/ /\ req[h].op = "preview" /\ UniqueNames(h)
        /\ Answer(h, [Plain("previewed") EXCEPT !.policy = Generated(h)])
     \/ /\ req[h].op # "preview" /\ UniqueNames(h)
        /\ policy' = [policy EXCEPT ![h] = Generated(h)]
        /\ Continue(h, "generated")
        /\ UNCHANGED trusted
     \/ Answer(h, Plain("failed"))
  /\ Steady

\* render_template, of the template built into the release.
Rendered(h) == [spec |-> D(h).spec, template |-> runs[h]]

\* Mutant: the hash of the generated policy is not compared.
AnyPolicy(h) == TRUE
PolicyExpected(h) == D(h).agent = policy[h]

\* The checks of sign_verified_policy.
Signable(h) ==
  /\ req[h].named /\ D(h).schema
  /\ D(h).template = runs[h]
  /\ D(h).spec \notin Unsafe
  /\ D(h).rego = Rendered(h)
  /\ PolicyExpected(h)

Signed(h) ==
  [org |-> D(h).org, spec |-> D(h).spec, deployer |-> D(h).signer,
   by |-> IF req[h].op = "cli" THEN req[h].key ELSE NoKey,
   rego |-> Rendered(h), agent |-> policy[h], pin |-> runs[h]]

\* sign_verified_policy; what it signs passes verify_signed_artifact.
SignVerified(h) ==
  /\ pc[h] = "generated"
  /\ \/ Signable(h) /\ Answer(h, [Plain("signed") EXCEPT !.artifact = Signed(h)])
     \/ ~Signable(h) /\ Answer(h, Plain("refused"))
  /\ Steady

\* A read of the owner database fails.
StoreError(h) ==
  /\ pc[h] = "received" /\ req[h].op = "sign" /\ SameOrg(h)
  /\ Answer(h, Plain("failed"))
  /\ Steady

\* These handlers are gone, with all they knew.
End(gone) ==
  /\ pc'      = [h \in Handlers |-> IF h \in gone THEN "idle" ELSE pc[h]]
  /\ req'     = [h \in Handlers |-> IF h \in gone THEN NoRequest ELSE req[h]]
  /\ runs'    = [h \in Handlers |-> IF h \in gone THEN NoRelease ELSE runs[h]]
  /\ stale'   = [h \in Handlers |-> IF h \in gone THEN {} ELSE stale[h]]
  /\ trusted' = [h \in Handlers |-> IF h \in gone THEN NoKey ELSE trusted[h]]
  /\ policy'  = [h \in Handlers |-> IF h \in gone THEN NoPolicy ELSE policy[h]]
  /\ reply'   = [h \in Handlers |-> IF h \in gone THEN Plain("none") ELSE reply[h]]

Deliver(h) ==
  /\ pc[h] = "replying"
  /\ End({h})
  /\ UNCHANGED <<chain, release>>

-----------------------------------------------------------------------------
(* The rest of the world.                                                  *)

\* A bootstrap or a rotation commits.
OwnerChange ==
  /\ Registry!Next
  /\ Cardinality(chain') <= MaxLinks
  /\ UNCHANGED <<release, requests>>

\* Another process takes over, of the same release or not.  Requests the old one
\* serves are lost with it, or it answers them before it stops (graceful shutdown);
\* a run of the command ends on its own.
Redeploy ==
  /\ release' \in Releases
  /\ \E gone \in SUBSET {h \in Handlers : pc[h] # "idle" /\ req[h].op # "cli"} : End(gone)
  /\ UNCHANGED chain

Step(h) ==
  \/ BeginPreview(h) \/ LoadOwner(h) \/ TakeOwner(h) \/ VerifyInputs(h)
  \/ Generate(h) \/ SignVerified(h) \/ StoreError(h) \/ Deliver(h)

Next ==
  \/ \E h \in Handlers, q \in Requests : Receive(h, q)
  \/ \E h \in Handlers : Step(h)
  \/ OwnerChange
  \/ Redeploy

Spec == Init /\ [][Next]_vars

-----------------------------------------------------------------------------
(* Properties.                                                             *)

TypeOK ==
  /\ chain \subseteq Registry!Link
  /\ release \in Releases
  /\ pc \in [Handlers -> Labels]
  /\ req \in [Handlers -> Request \cup {NoRequest}]
  /\ \A h \in Handlers : /\ pc[h] # "idle" => req[h] \in Request /\ runs[h] \in Releases
                         /\ pc[h] = "owner" => trusted[h] \in Keys
                         /\ pc[h] = "generated" => policy[h] \in AgentPolicy
  /\ runs \in [Handlers -> Releases \cup {NoRelease}]
  /\ stale \in [Handlers -> SUBSET Registry!Link]
  /\ trusted \in [Handlers -> Keys \cup {NoKey}]
  /\ policy \in [Handlers -> AgentPolicy \cup {NoPolicy}]
  /\ reply \in [Handlers -> Reply]

\* Every artifact rests on a chain of signatures that starts at an owner: of the
\* descriptor's own organisation, at some moment between the arrival of the
\* request and its answer (a rotation during the run of genpolicy is allowed, a
\* keyring of an owner replaced before the request arrived is not).  The command
\* has no database and answers for the owner key it is given.
HasArtifact(h) == pc[h] = "replying" /\ reply[h].status = "signed"
Vouches(owner, h) ==
  /\ K(h).signer = owner /\ K(h).signed /\ K(h).org = reply[h].artifact.org
  /\ "owner" \in K(h).members[owner]
  /\ K(h).members[reply[h].artifact.deployer] # {}
  /\ D(h).signer = reply[h].artifact.deployer /\ D(h).signed
Authorised(h) ==
  \/ /\ req[h].op = "sign"
     /\ \E c \in LinksOf(D(h).org) \ stale[h] : Vouches(c.key, h)
  \/ /\ req[h].op = "cli"
     /\ Vouches(req[h].owner, h)
     /\ reply[h].artifact.by = reply[h].artifact.deployer
ArtifactAuthorised == \A h \in Handlers : HasArtifact(h) => Authorised(h)

\* What is signed is what the deployer agreed to and what one release made: agent
\* policy, resource policy, template and genpolicy pin belong together, and the
\* spec has one reading and keeps to the OCI floor.
Faithful(h) ==
  LET a == reply[h].artifact
  IN  /\ a.agent = D(h).agent /\ a.rego = D(h).rego
      /\ a.agent.spec = a.spec /\ a.rego.spec = a.spec
      /\ a.agent.release = a.pin /\ a.rego.template = a.pin
      /\ a.spec \notin Ambiguous \cup Unsafe
ArtifactFaithful == \A h \in Handlers : HasArtifact(h) => Faithful(h)

\* A request with which nothing is wrong: its signatures hold together under every
\* owner the organisation has had since it arrived, and its descriptor carries
\* the rendered template and the policy that /agent-policy answers for it.
Sound(h) ==
  /\ SameOrg(h) /\ K(h).signed /\ D(h).signed
  /\ "owner" \in K(h).members[K(h).signer] /\ FindDeployer(h)
  /\ D(h).spec \notin Ambiguous \cup Unsafe
  /\ req[h].named /\ D(h).schema /\ D(h).template = runs[h] /\ D(h).rego = Rendered(h)
  /\ D(h).agent = [spec |-> D(h).spec, log |-> req[h].log, release |-> runs[h]]
OwnerSigned(h) ==
  /\ LinksOf(D(h).org) \ stale[h] # {}
  /\ \A c \in LinksOf(D(h).org) \ stale[h] : c.key = K(h).signer
Refuses(h) == pc[h] # "replying" /\ pc'[h] = "replying" /\ reply'[h].status = "refused"

\* The service refuses no such request, whatever rotates or is redeployed around it.
NoSoundRefusal ==
  \A h \in Handlers :
    Refuses(h) /\ req[h].op = "sign" => ~(Sound(h) /\ OwnerSigned(h))
SoundSigned == [][NoSoundRefusal]_vars

-----------------------------------------------------------------------------
(* A claim of the documentation that the code does not meet.               *)

\* The command makes the artifact of a sign request "without calling POST /sign":
\* it refuses no request that /sign would sign under the same owner key.
CommandSigns ==
  [][\A h \in Handlers :
       Refuses(h) /\ req[h].op = "cli"
       => ~(Sound(h) /\ req[h].owner = K(h).signer /\ req[h].key = D(h).signer)]_vars
=============================================================================
