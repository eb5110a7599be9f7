------------------------ MODULE SigningServiceProofs ------------------------
(***************************************************************************)
(* Theorems about SigningService, for every set of organisations, keys,    *)
(* specs, releases, requests and handlers.                                 *)
(***************************************************************************)
EXTENDS SigningService, TLAPS

(***************************************************************************)
(* The inductive invariant.  When the artifact is signed the owner may     *)
(* have been rotated away, so what must be remembered from the read is     *)
(* that the trusted key belongs to a link that was not stale when the      *)
(* request arrived (Sourced); that the signatures were checked under that  *)
(* key and no other (Checked); and that links called stale stay replaced   *)
(* (Replaced), so that a read of the present owner never returns one.      *)
(* OwnersPresent says that such a read finds a key.                        *)
(***************************************************************************)
Trusting(h) == pc[h] \in {"owner", "generate", "generated"} /\ req[h].op # "preview"

Sourced(h) ==
  /\ Trusting(h) =>
       \/ /\ req[h].op = "sign"
          /\ \E c \in LinksOf(D(h).org) \ stale[h] : c.key = trusted[h]
       \/ req[h].op = "cli" /\ trusted[h] = req[h].owner
  /\ pc[h] \in {"owner", "generated"} => req[h].op # "preview"

Checked(h) ==
  Trusting(h) /\ pc[h] # "owner" =>
    /\ SameOrg(h) /\ VerifyKeyring(h) /\ FindDeployer(h) /\ D(h).signed
    /\ UniqueNames(h) /\ SigningKeyMatches(h)

Produced(h) == pc[h] = "generated" => policy[h] = Generated(h)

Replaced(h) ==
  \A c \in stale[h] : \E d \in chain : d.org = c.org /\ ~(d.version <= c.version)

Serves(h) ==
  /\ Sourced(h) /\ Checked(h) /\ Produced(h) /\ Replaced(h)
  /\ HasArtifact(h) => Authorised(h) /\ Faithful(h)

\* An organisation with an owner has a present one.
OwnersPresent == \A c \in chain : \E d \in chain : d.org = c.org /\ Registry!Newest(d)

IInv == TypeOK /\ OwnersPresent /\ \A h \in Handlers : Serves(h)

-----------------------------------------------------------------------------
(* Facts about the parts.                                                  *)

\* The registry only adds links.
LEMMA ChainGrows ==
  ASSUME chain \subseteq Registry!Link, Registry!Next
  PROVE  chain \subseteq chain' /\ chain' \subseteq Registry!Link
BY DEF Registry!Next, Registry!Bootstrap, Registry!Rotate, Registry!Newest, Registry!Link

\* What a request and its handler hold.
LEMMA RequestTypes ==
  ASSUME TypeOK, NEW h \in Handlers, pc[h] # "idle"
  PROVE  /\ req[h].op \in {"preview", "sign", "cli"}
         /\ D(h) \in DescriptorEnvelope /\ K(h) \in KeyringEnvelope
         /\ req[h].log \in Logs /\ req[h].owner \in Keys /\ req[h].key \in Keys
         /\ req[h].image \in Releases /\ runs[h] \in Releases
BY DEF TypeOK, Request, D, K

\* What genpolicy and the template give has the type of a policy.
LEMMA TextTypes ==
  ASSUME TypeOK, NEW h \in Handlers, pc[h] # "idle"
  PROVE  Generated(h) \in AgentPolicy /\ Rendered(h) \in Rego
BY RequestTypes DEF Generated, LogUsed, Rendered, AgentPolicy, Rego, Logs, DescriptorEnvelope

\* The signed artifact has its type.
LEMMA ArtifactType ==
  ASSUME TypeOK, NEW h \in Handlers, pc[h] = "generated"
  PROVE  Signed(h) \in Artifact
<1>1. policy[h] \in AgentPolicy
  BY DEF TypeOK
<1>2. D(h).org \in Orgs /\ D(h).spec \in Specs /\ D(h).signer \in Keys
  BY RequestTypes DEF DescriptorEnvelope
<1> QED BY <1>1, <1>2, RequestTypes, TextTypes DEF Signed, Artifact

-----------------------------------------------------------------------------
(* Type correctness.                                                       *)

LEMMA TypeStep ==
  ASSUME TypeOK, [Next]_vars
  PROVE  TypeOK'
<1> USE DEF TypeOK
<1>1. /\ \A s \in {"none", "refused", "failed", "previewed", "signed"} : Plain(s) \in Reply
      /\ \A p \in AgentPolicy : [Plain("previewed") EXCEPT !.policy = p] \in Reply
      /\ \A a \in Artifact : [Plain("signed") EXCEPT !.artifact = a] \in Reply
  BY DEF Plain, Reply
<1>2. ASSUME NEW h \in Handlers, pc[h] # "idle", NEW r \in Reply, Answer(h, r), Steady
      PROVE  TypeOK'
  BY <1>2 DEF Answer, Steady, Labels
<1>3. ASSUME NEW gone \in SUBSET Handlers, End(gone), chain' = chain, release' \in Releases
      PROVE  TypeOK'
  BY <1>1, <1>3 DEF End, Labels
<1>4. ASSUME NEW h \in Handlers, NEW q \in Requests, Receive(h, q)
      PROVE  TypeOK'
  <2>1. q \in Request /\ q.image \in Releases
    BY RequestsAssumption DEF Request
  <2>2. {c \in LinksOf(q.descriptor.org) : ~Registry!Newest(c)} \subseteq Registry!Link
    BY DEF LinksOf
  <2> QED BY <1>4, <2>1, <2>2 DEF Receive, Labels
<1>5. ASSUME NEW h \in Handlers, BeginPreview(h)
      PROVE  TypeOK'
  <2>1. CASE Continue(h, "generate") /\ UNCHANGED <<trusted, policy>>
    BY <1>5, <2>1 DEF BeginPreview, Continue, Steady, Labels
  <2>2. CASE Answer(h, Plain("refused"))
    BY <1>1, <1>2, <1>5, <2>2 DEF BeginPreview
  <2> QED BY <1>5, <2>1, <2>2 DEF BeginPreview
<1>6. ASSUME NEW h \in Handlers, LoadOwner(h)
      PROVE  TypeOK'
  <2>1. \A k \in OwnerKeys(h) : k \in Keys
    BY DEF OwnerKeys, LinksOf, Registry!Link
  <2>2. CASE /\ \E k \in OwnerKeys(h) : trusted' = [trusted EXCEPT ![h] = k]
             /\ Continue(h, "owner") /\ UNCHANGED policy
    BY <1>6, <2>1, <2>2 DEF LoadOwner, Continue, Steady, Labels
  <2>3. CASE Answer(h, Plain("refused"))
    BY <1>1, <1>2, <1>6, <2>3 DEF LoadOwner
  <2> QED BY <1>6, <2>2, <2>3 DEF LoadOwner
<1>7. ASSUME NEW h \in Handlers, TakeOwner(h)
      PROVE  TypeOK'
  <2>1. req[h].owner \in Keys
    BY <1>7, RequestTypes DEF TakeOwner
  <2> QED BY <1>7, <2>1 DEF TakeOwner, Continue, Steady, Labels
<1>8. ASSUME NEW h \in Handlers, VerifyInputs(h)
      PROVE  TypeOK'
  <2>1. CASE Continue(h, "generate") /\ UNCHANGED <<trusted, policy>>
    BY <1>8, <2>1 DEF VerifyInputs, Continue, Steady, Labels
  <2>2. CASE Answer(h, Plain("refused"))
    BY <1>1, <1>2, <1>8, <2>2 DEF VerifyInputs
  <2> QED BY <1>8, <2>1, <2>2 DEF VerifyInputs
<1>9. ASSUME NEW h \in Handlers, Generate(h)
      PROVE  TypeOK'
  <2>1. Generated(h) \in AgentPolicy
    BY <1>9, TextTypes DEF Generate
  <2>2. CASE Answer(h, [Plain("previewed") EXCEPT !.policy = Generated(h)])
    BY <1>1, <1>2, <1>9, <2>1, <2>2 DEF Generate
  <2>3. CASE /\ policy' = [policy EXCEPT ![h] = Generated(h)]
             /\ Continue(h, "generated") /\ UNCHANGED trusted
    BY <1>9, <2>1, <2>3 DEF Generate, Continue, Steady, Labels
  <2>4. CASE Answer(h, Plain("failed"))
    BY <1>1, <1>2, <1>9, <2>4 DEF Generate
  <2> QED BY <1>9, <2>2, <2>3, <2>4 DEF Generate
<1>10. ASSUME NEW h \in Handlers, SignVerified(h)
       PROVE  TypeOK'
  <2>1. Signed(h) \in Artifact
    BY <1>10, ArtifactType DEF SignVerified
  <2> QED BY <1>1, <1>2, <1>10, <2>1 DEF SignVerified
<1>11. ASSUME NEW h \in Handlers, StoreError(h)
       PROVE  TypeOK'
  BY <1>1, <1>2, <1>11 DEF StoreError
<1>12. ASSUME NEW h \in Handlers, Deliver(h)
       PROVE  TypeOK'
  BY <1>3, <1>12 DEF Deliver
<1>13. CASE OwnerChange
  BY <1>13, ChainGrows DEF OwnerChange, requests
<1>14. CASE Redeploy
  BY <1>3, <1>14 DEF Redeploy
<1>15. CASE UNCHANGED vars
  BY <1>15 DEF vars, requests
<1> QED BY <1>4, <1>5, <1>6, <1>7, <1>8, <1>9, <1>10, <1>11, <1>12, <1>13, <1>14, <1>15
        DEF Next, Step

-----------------------------------------------------------------------------
(* The handlers keep what they serve.                                      *)

\* Nothing about a handler is lost while it stands still and the chain grows.
LEMMA Frame ==
  ASSUME TypeOK, NEW h \in Handlers, Serves(h), chain \subseteq chain',
         pc'[h] = pc[h], req'[h] = req[h], runs'[h] = runs[h], stale'[h] = stale[h],
         trusted'[h] = trusted[h], policy'[h] = policy[h], reply'[h] = reply[h]
  PROVE  Serves(h)'
<1>1. Sourced(h)'
  BY DEF Serves, Sourced, Trusting, LinksOf, D
<1>2. Checked(h)' /\ Produced(h)'
  BY DEF Serves, Checked, Produced, Trusting, SameOrg, VerifyKeyring, FindDeployer,
         UniqueNames, SigningKeyMatches, Generated, LogUsed, D, K
<1>3. Replaced(h)'
  BY DEF Serves, Replaced
<1>4. (HasArtifact(h) => Authorised(h) /\ Faithful(h))'
  BY DEF Serves, HasArtifact, Authorised, Vouches, Faithful, LinksOf, D, K
<1> QED BY <1>1, <1>2, <1>3, <1>4 DEF Serves

\* A handler that rests, or whose answer is no artifact, has nothing to keep.
LEMMA Nothing ==
  ASSUME TypeOK, NEW h \in Handlers, Replaced(h)',
         \/ pc'[h] = "idle"
         \/ pc'[h] = "received"
         \/ pc'[h] = "replying" /\ reply'[h].status # "signed"
  PROVE  Serves(h)'
BY DEF Serves, Sourced, Checked, Produced, Trusting, HasArtifact

\* A read of the present owner returns the key of a link that was not stale.
LEMMA OwnerNotStale ==
  ASSUME TypeOK, NEW h \in Handlers, Replaced(h), NEW k \in OwnerKeys(h)
  PROVE  \E c \in LinksOf(D(h).org) \ stale[h] : c.key = k
<1>1. PICK c \in LinksOf(D(h).org) : Registry!Newest(c) /\ c.key = k
  BY DEF OwnerKeys
<1>2. c \notin stale[h]
  BY <1>1 DEF Replaced, Registry!Newest
<1> QED BY <1>1, <1>2

\* The newest link of an organisation is the one just added.
LEMMA PresentStep ==
  ASSUME TypeOK, OwnersPresent, [Next]_vars
  PROVE  OwnersPresent'
<1>1. CASE chain' = chain
  BY <1>1 DEF OwnersPresent, Registry!Newest
<1>2. ASSUME NEW o \in Orgs, NEW k \in Keys, Registry!Bootstrap(o, k)
      PROVE  OwnersPresent'
  BY <1>2 DEF TypeOK, OwnersPresent, Registry!Bootstrap, Registry!Newest, Registry!Link
<1>3. ASSUME NEW b \in chain, NEW k \in Keys, Registry!Rotate(b, k)
      PROVE  OwnersPresent'
  <2> DEFINE new == [org |-> b.org, version |-> b.version + 1, key |-> k, by |-> b.key]
  <2>1. \A c \in chain : c.version \in Nat
    BY DEF TypeOK, Registry!Link
  <2>2. chain' = chain \cup {new} /\ Registry!Newest(b)
    BY <1>3 DEF Registry!Rotate
  <2>3. new.org = b.org /\ new.version = b.version + 1
    OBVIOUS
  <2> HIDE DEF new
  <2>4. Registry!Newest(new)'
    BY <2>1, <2>2, <2>3 DEF Registry!Newest
  <2>5. ASSUME NEW c \in chain, c.org # b.org
        PROVE  \E d \in chain' : d.org = c.org /\ Registry!Newest(d)'
    BY <2>2, <2>3, <2>5 DEF OwnersPresent, Registry!Newest
  <2> QED BY <2>2, <2>3, <2>4, <2>5 DEF OwnersPresent
<1> QED BY <1>1, <1>2, <1>3 DEF Next, Step, Receive, BeginPreview, LoadOwner, TakeOwner,
    VerifyInputs, Generate, SignVerified, StoreError, Deliver, Steady, OwnerChange, Redeploy,
    vars, Registry!Next

LEMMA ServesStep ==
  ASSUME IInv, [Next]_vars
  PROVE  \A g \in Handlers : Serves(g)'
<1> SUFFICES ASSUME NEW g \in Handlers PROVE Serves(g)'
  OBVIOUS
<1>0. TypeOK /\ Serves(g) /\ Replaced(g)
  BY DEF IInv, Serves
<1>1. ASSUME chain' = chain, stale'[g] = stale[g]
      PROVE  Replaced(g)'
  BY <1>0, <1>1 DEF Replaced
<1>2. ASSUME NEW h \in Handlers, NEW r \in Reply, pc[h] # "idle", Answer(h, r), Steady,
             r.status # "signed"
      PROVE  Serves(g)'
  <2>1. CASE g = h
    <3>1. pc'[g] = "replying" /\ reply'[g] = r
      BY <1>0, <1>2, <2>1 DEF Answer, TypeOK
    <3>2. Replaced(g)'
      BY <1>1, <1>2 DEF Steady
    <3> QED BY <1>0, <1>2, <3>1, <3>2, Nothing
  <2>2. CASE g # h
    BY <1>0, <1>2, <2>2, Frame DEF Answer, Steady, TypeOK
  <2> QED BY <2>1, <2>2
<1>3. /\ \A s \in {"none", "refused", "failed", "previewed", "signed"} :
           Plain(s) \in Reply /\ Plain(s).status = s
      /\ \A p \in AgentPolicy :
           /\ [Plain("previewed") EXCEPT !.policy = p] \in Reply
           /\ [Plain("previewed") EXCEPT !.policy = p].status = "previewed"
  BY DEF Plain, Reply
<1>4. ASSUME NEW gone \in SUBSET Handlers, End(gone), chain' = chain
      PROVE  Serves(g)'
  <2>1. CASE g \in gone
    <3>1. pc'[g] = "idle" /\ stale'[g] = {}
      BY <1>4, <2>1 DEF End
    <3>2. Replaced(g)'
      BY <3>1 DEF Replaced
    <3> QED BY <1>0, <3>1, <3>2, Nothing
  <2>2. CASE g \notin gone
    BY <1>0, <1>4, <2>2, Frame DEF End
  <2> QED BY <2>1, <2>2
<1>5. ASSUME NEW h \in Handlers, NEW q \in Requests, Receive(h, q)
      PROVE  Serves(g)'
  <2>1. CASE g = h
    <3>1. pc'[g] = "received" /\ chain' = chain
          /\ stale'[g] = {c \in LinksOf(q.descriptor.org) : ~Registry!Newest(c)}
      BY <1>0, <1>5, <2>1 DEF Receive, TypeOK
    <3>2. Replaced(g)'
      BY <3>1 DEF Replaced, LinksOf, Registry!Newest
    <3> QED BY <1>0, <3>1, <3>2, Nothing
  <2>2. CASE g # h
    BY <1>0, <1>5, <2>2, Frame DEF Receive, TypeOK
  <2> QED BY <2>1, <2>2
<1>6. ASSUME NEW h \in Handlers, BeginPreview(h)
      PROVE  Serves(g)'
  <2>1. CASE Answer(h, Plain("refused"))
    BY <1>2, <1>3, <1>6, <2>1 DEF BeginPreview
  <2>2. CASE g = h /\ Continue(h, "generate") /\ UNCHANGED <<trusted, policy>>
    <3>1. pc'[g] = "generate" /\ req'[g].op = "preview" /\ chain' = chain /\ stale'[g] = stale[g]
      BY <1>0, <1>6, <2>2 DEF BeginPreview, Continue, Steady, TypeOK
    <3>2. Replaced(g)'
      BY <1>1, <3>1
    <3> QED BY <3>1, <3>2 DEF Serves, Sourced, Checked, Produced, Trusting, HasArtifact
  <2>3. CASE g # h /\ Continue(h, "generate") /\ UNCHANGED <<trusted, policy>>
    BY <1>0, <1>6, <2>3, Frame DEF BeginPreview, Continue, Steady, TypeOK
  <2> QED BY <1>6, <2>1, <2>2, <2>3 DEF BeginPreview
<1>7. ASSUME NEW h \in Handlers, LoadOwner(h)
      PROVE  Serves(g)'
  <2>1. CASE Answer(h, Plain("refused"))
    BY <1>2, <1>3, <1>7, <2>1 DEF LoadOwner
  <2>2. ASSUME NEW k \in OwnerKeys(h), trusted' = [trusted EXCEPT ![h] = k],
               Continue(h, "owner"), UNCHANGED policy
        PROVE  Serves(g)'
    <3>1. CASE g = h
      <4>1. /\ pc'[g] = "owner" /\ trusted'[g] = k /\ req'[g] = req[g] /\ req[g].op = "sign"
            /\ chain' = chain /\ stale'[g] = stale[g]
        BY <1>0, <1>7, <2>2, <3>1 DEF LoadOwner, Continue, Steady, TypeOK
      <4>2. Replaced(g)'
        BY <1>1, <4>1
      <4>3. \E c \in LinksOf(D(g).org) \ stale[g] : c.key = k
        BY <1>0, <2>2, <3>1, OwnerNotStale
      <4>4. Sourced(g)'
        BY <4>1, <4>3 DEF Sourced, Trusting, LinksOf, D
      <4> QED BY <4>1, <4>2, <4>4 DEF Serves, Checked, Produced, HasArtifact
    <3>2. CASE g # h
      BY <1>0, <1>7, <2>2, <3>2, Frame DEF LoadOwner, Continue, Steady, TypeOK
    <3> QED BY <3>1, <3>2
  <2> QED BY <1>7, <2>1, <2>2 DEF LoadOwner
<1>8. ASSUME NEW h \in Handlers, TakeOwner(h)
      PROVE  Serves(g)'
  <2>1. CASE g = h
    <3>1. /\ pc'[g] = "owner" /\ trusted'[g] = req[g].owner /\ req'[g] = req[g]
          /\ req[g].op = "cli" /\ chain' = chain /\ stale'[g] = stale[g]
      BY <1>0, <1>8, <2>1 DEF TakeOwner, Continue, Steady, TypeOK
    <3>2. Replaced(g)'
      BY <1>1, <3>1
    <3> QED BY <3>1, <3>2 DEF Serves, Sourced, Checked, Produced, Trusting, HasArtifact
  <2>2. CASE g # h
    BY <1>0, <1>8, <2>2, Frame DEF TakeOwner, Continue, Steady, TypeOK
  <2> QED BY <2>1, <2>2
<1>9. ASSUME NEW h \in Handlers, VerifyInputs(h)
      PROVE  Serves(g)'
  <2>1. CASE Answer(h, Plain("refused"))
    BY <1>2, <1>3, <1>9, <2>1 DEF VerifyInputs
  <2>2. CASE ~Answer(h, Plain("refused")) /\ g = h
    <3>1. /\ SameOrg(g) /\ VerifyKeyring(g) /\ FindDeployer(g) /\ D(g).signed
          /\ UniqueNames(g) /\ SigningKeyMatches(g)
          /\ pc[g] = "owner" /\ pc'[g] = "generate" /\ trusted'[g] = trusted[g]
          /\ req'[g] = req[g] /\ chain' = chain /\ stale'[g] = stale[g]
      BY <1>0, <1>9, <2>2 DEF VerifyInputs, Continue, Steady, TypeOK
    <3>2. Replaced(g)'
      BY <1>1, <3>1
    <3>3. Sourced(g)'
      BY <1>0, <3>1 DEF Serves, Sourced, Trusting, LinksOf, D
    <3>4. Checked(g)'
      BY <3>1 DEF Checked, SameOrg, VerifyKeyring, FindDeployer, UniqueNames,
                  SigningKeyMatches, D, K
    <3> QED BY <3>1, <3>2, <3>3, <3>4 DEF Serves, Produced, HasArtifact
  <2>3. CASE ~Answer(h, Plain("refused")) /\ g # h
    BY <1>0, <1>9, <2>3, Frame DEF VerifyInputs, Continue, Steady, TypeOK
  <2> QED BY <2>1, <2>2, <2>3
<1>10. ASSUME NEW h \in Handlers, Generate(h)
       PROVE  Serves(g)'
  <2>1. Generated(h) \in AgentPolicy
    BY <1>0, <1>10, TextTypes DEF Generate
  <2>2. CASE Answer(h, [Plain("previewed") EXCEPT !.policy = Generated(h)])
    BY <1>2, <1>3, <1>10, <2>1, <2>2 DEF Generate
  <2>3. CASE Answer(h, Plain("failed"))
    BY <1>2, <1>3, <1>10, <2>3 DEF Generate
  <2>4. CASE /\ req[h].op # "preview" /\ policy' = [policy EXCEPT ![h] = Generated(h)]
             /\ Continue(h, "generated") /\ UNCHANGED trusted
    <3>1. CASE g = h
      <4>1. /\ pc[g] = "generate" /\ pc'[g] = "generated" /\ trusted'[g] = trusted[g]
            /\ req'[g] = req[g] /\ runs'[g] = runs[g] /\ req[g].op # "preview"
            /\ policy'[g] = Generated(g) /\ chain' = chain /\ stale'[g] = stale[g]
        BY <1>0, <1>10, <2>4, <3>1 DEF Generate, Continue, Steady, TypeOK
      <4>2. Replaced(g)'
        BY <1>1, <4>1
      <4>3. Sourced(g)'
        BY <1>0, <4>1 DEF Serves, Sourced, Trusting, LinksOf, D
      <4>4. Checked(g)'
        BY <1>0, <4>1 DEF Serves, Checked, Trusting, SameOrg, VerifyKeyring, FindDeployer,
                          UniqueNames, SigningKeyMatches, D, K
      <4>5. Produced(g)'
        BY <4>1 DEF Produced, Generated, LogUsed, D
      <4> QED BY <4>1, <4>2, <4>3, <4>4, <4>5 DEF Serves, HasArtifact
    <3>2. CASE g # h
      BY <1>0, <1>10, <2>4, <3>2, Frame DEF Generate, Continue, Steady, TypeOK
    <3> QED BY <3>1, <3>2
  <2> QED BY <1>10, <2>2, <2>3, <2>4 DEF Generate
<1>11. ASSUME NEW h \in Handlers, SignVerified(h)
       PROVE  Serves(g)'
  <2>1. CASE Answer(h, Plain("refused"))
    BY <1>2, <1>3, <1>11, <2>1 DEF SignVerified
  <2>2. CASE /\ g = h /\ Signable(h)
             /\ Answer(h, [Plain("signed") EXCEPT !.artifact = Signed(h)])
    <3>1. /\ pc[g] = "generated" /\ pc'[g] = "replying" /\ reply'[g].artifact = Signed(g)
          /\ req'[g] = req[g] /\ runs'[g] = runs[g] /\ chain' = chain /\ stale'[g] = stale[g]
      BY <1>0, <1>11, <2>2 DEF SignVerified, Answer, Steady, TypeOK, Plain
    <3>2. Replaced(g)'
      BY <1>1, <3>1
    <3>3. /\ SameOrg(g) /\ VerifyKeyring(g) /\ FindDeployer(g) /\ D(g).signed
          /\ UniqueNames(g) /\ SigningKeyMatches(g) /\ req[g].op \in {"sign", "cli"}
      BY <1>0, <3>1, RequestTypes DEF Serves, Checked, Sourced, Trusting
    <3>4. /\ Signed(g).org = K(g).org /\ Signed(g).deployer = D(g).signer
          /\ req[g].op = "cli" => Signed(g).by = D(g).signer
      BY <3>3 DEF Signed, SameOrg, SigningKeyMatches
    <3>5. Authorised(g)'
      <4>1. \A k : k = trusted[g] => Vouches(k, g)'
        BY <3>1, <3>3, <3>4 DEF Vouches, VerifyKeyring, FindDeployer, D, K
      <4>2. CASE req[g].op = "sign"
        <5>1. PICK c \in LinksOf(D(g).org) \ stale[g] : c.key = trusted[g]
          BY <1>0, <3>1, <4>2 DEF Serves, Sourced, Trusting
        <5>2. c \in (LinksOf(D(g).org) \ stale[g])'
          BY <3>1, <5>1 DEF LinksOf, D
        <5>3. Vouches(c.key, g)'
          BY <4>1, <5>1
        <5> QED BY <3>1, <4>2, <5>2, <5>3 DEF Authorised
      <4>3. CASE req[g].op = "cli"
        <5>1. trusted[g] = req'[g].owner
          BY <1>0, <3>1, <4>3 DEF Serves, Sourced, Trusting
        <5>2. Vouches(req[g].owner, g)'
          BY <3>1, <4>1, <5>1
        <5> QED BY <3>1, <3>4, <4>3, <5>2 DEF Authorised
      <4> QED BY <3>3, <4>2, <4>3
    <3>6. Faithful(g)'
      <4>1. /\ policy[g] = Generated(g) /\ D(g).agent = policy[g] /\ D(g).rego = Rendered(g)
            /\ D(g).spec \notin Ambiguous \cup Unsafe
        BY <1>0, <2>2, <3>1, <3>3 DEF Serves, Produced, Signable, PolicyExpected, UniqueNames
      <4> QED BY <3>1, <4>1 DEF Faithful, Signed, Generated, Rendered, D
    <3> QED BY <3>1, <3>2, <3>5, <3>6 DEF Serves, Sourced, Checked, Produced, Trusting
  <2>3. CASE g # h /\ Answer(h, [Plain("signed") EXCEPT !.artifact = Signed(h)])
    BY <1>0, <1>11, <2>3, Frame DEF SignVerified, Answer, Steady, TypeOK
  <2> QED BY <1>11, <2>1, <2>2, <2>3 DEF SignVerified
<1>12. ASSUME NEW h \in Handlers, StoreError(h)
       PROVE  Serves(g)'
  BY <1>2, <1>3, <1>12 DEF StoreError
<1>13. ASSUME NEW h \in Handlers, Deliver(h)
       PROVE  Serves(g)'
  BY <1>4, <1>13 DEF Deliver
<1>14. CASE OwnerChange
  BY <1>0, <1>14, ChainGrows, Frame DEF OwnerChange, requests, TypeOK
<1>15. CASE Redeploy
  BY <1>4, <1>15 DEF Redeploy
<1>16. CASE UNCHANGED vars
  BY <1>0, <1>16, Frame DEF vars, requests
<1> QED BY <1>5, <1>6, <1>7, <1>8, <1>9, <1>10, <1>11, <1>12, <1>13, <1>14, <1>15, <1>16
        DEF Next, Step

\* Of a handler's steps only the two that check can refuse a request, and both find
\* nothing wrong with a sound one.
LEMMA RefusalLemma ==
  ASSUME IInv, [Next]_vars
  PROVE  NoSoundRefusal
<1> SUFFICES ASSUME NEW h \in Handlers, Refuses(h), req[h].op = "sign", Sound(h), OwnerSigned(h)
             PROVE  FALSE
  BY DEF NoSoundRefusal
<1>0. TypeOK /\ Serves(h) /\ Replaced(h)
  BY DEF IInv, Serves
<1>1. pc'[h] = "replying" /\ pc[h] # "replying" /\ reply'[h].status = "refused"
  BY DEF Refuses
<1>2. \A s \in {"signed", "failed", "previewed"} : Plain(s).status # "refused"
  BY DEF Plain
<1>3. PICK g \in Handlers : Step(g)
  BY <1>0, <1>1 DEF Next, Receive, OwnerChange, Redeploy, End, vars, requests, TypeOK
<1>4. g = h
  BY <1>0, <1>1, <1>3 DEF Step, BeginPreview, LoadOwner, TakeOwner, VerifyInputs, Generate,
     SignVerified, StoreError, Deliver, Answer, Continue, Steady, End, TypeOK
<1>5. CASE LoadOwner(h)
  <2>1. ~SameOrg(h) \/ OwnerKeys(h) = {}
    BY <1>0, <1>1, <1>5 DEF LoadOwner, Continue, TypeOK
  <2>2. OwnerKeys(h) # {}
    <3>1. PICK c \in chain : c.org = D(h).org
      BY DEF OwnerSigned, LinksOf
    <3>2. PICK d \in chain : d.org = c.org /\ Registry!Newest(d)
      BY DEF IInv, OwnersPresent
    <3> QED BY <3>1, <3>2 DEF OwnerKeys, LinksOf
  <2> QED BY <2>1, <2>2 DEF Sound
<1>6. CASE VerifyInputs(h)
  <2>1. trusted[h] = K(h).signer
    BY <1>0, <1>6 DEF VerifyInputs, Serves, Sourced, Trusting, OwnerSigned
  <2> QED BY <1>0, <1>1, <1>6, <2>1 DEF VerifyInputs, VerifyKeyring, UniqueNames,
             SigningKeyMatches, Sound, Continue, TypeOK
<1>7. CASE SignVerified(h)
  <2>1. D(h).agent = policy[h]
    BY <1>0, <1>7 DEF SignVerified, Serves, Produced, Generated, LogUsed, Sound
  <2>2. Signable(h)
    BY <2>1 DEF Signable, PolicyExpected, Sound
  <2>3. reply'[h].status = "signed"
    BY <1>0, <1>7, <2>2 DEF SignVerified, Answer, Plain, TypeOK
  <2> QED BY <1>1, <2>3
<1>8. CASE Generate(h)
  <2>1. reply'[h].status # "refused" \/ pc'[h] = "generated"
    BY <1>0, <1>8 DEF Generate, Answer, Continue, Plain, TypeOK
  <2> QED BY <1>1, <2>1
<1>9. CASE StoreError(h)
  BY <1>0, <1>1, <1>9 DEF StoreError, Answer, Plain, TypeOK
<1>10. CASE TakeOwner(h) \/ Deliver(h) \/ BeginPreview(h)
  BY <1>0, <1>1, <1>10 DEF TakeOwner, Deliver, BeginPreview, Continue, End, TypeOK
<1> QED BY <1>3, <1>4, <1>5, <1>6, <1>7, <1>8, <1>9, <1>10 DEF Step

-----------------------------------------------------------------------------
(* Theorems.                                                               *)

\* Every reachable state satisfies the inductive invariant.
THEOREM Inductive == Spec => []IInv
<1>1. Init => IInv
  BY DEF Init, IInv, TypeOK, OwnersPresent, Serves, Sourced, Checked, Produced, Replaced, Trusting,
         HasArtifact, Labels, Plain, Reply, Registry!Link
<1>2. IInv /\ [Next]_vars => IInv'
  BY TypeStep, PresentStep, ServesStep DEF IInv
<1> QED BY <1>1, <1>2, PTL DEF Spec

\* Every variable keeps its type.
THEOREM TypeCorrect == Spec => []TypeOK
BY Inductive, PTL DEF IInv

\* Every artifact rests on signatures that start at an owner of the organisation who
\* was not replaced before the request arrived.
THEOREM AuthorityCorrect == Spec => []ArtifactAuthorised
<1>1. IInv => ArtifactAuthorised
  BY DEF IInv, Serves, ArtifactAuthorised
<1> QED BY <1>1, Inductive, PTL

\* An artifact's policies, template and pin are one release's, and the deployer's.
THEOREM FaithfulCorrect == Spec => []ArtifactFaithful
<1>1. IInv => ArtifactFaithful
  BY DEF IInv, Serves, ArtifactFaithful
<1> QED BY <1>1, Inductive, PTL

\* /sign refuses no request with which nothing is wrong.
THEOREM SoundCorrect == Spec => SoundSigned
<1>1. IInv /\ [Next]_vars => [NoSoundRefusal]_vars
  BY RefusalLemma
<1> QED BY <1>1, Inductive, PTL DEF Spec, SoundSigned
=============================================================================
