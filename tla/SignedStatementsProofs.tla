----------------------- MODULE SignedStatementsProofs -----------------------
(***************************************************************************)
(* For any statements: what is accepted was signed as its own kind and     *)
(* with its meaning; an artifact is made only of what the service's floor  *)
(* lets through, has the template's rules, and fits one descriptor.        *)
(*                                                                         *)
(* The invariant says who put what into the three sets.  The rest is about *)
(* the operators: that a statement can be read back from what is signed    *)
(* (the sorting included), and what the replacing of slots leaves alone.   *)
(***************************************************************************)
EXTENDS SignedStatements, CommonLemmas

\* What is known of the states: who put what into the three sets.
SignedKnown == \A t \in signed : t \in Statements \/ t.kind = "artifact"
AcceptedKnown == /\ accepted \subseteq Statements
                 /\ \A s \in accepted : \E t \in signed : SignedBytes(s) = SignedBytes(t)
MadeKnown == \A m \in made : m \in Makeable /\ Statement("artifact", m.artifact) \in signed
IInv == SignedKnown /\ AcceptedKnown /\ MadeKnown

-----------------------------------------------------------------------------
(* The purpose comes first in every encoding.                              *)

Purpose ==
  [descriptor |-> "enclava-deployment-descriptor-v1", keyring |-> "enclava-org-keyring-v1",
   rotation |-> "enclava-recovery-v1", artifact |-> "enclava-policy-artifact-v1"]
Kinds == {"descriptor", "keyring", "rotation", "artifact"}

LEMMA ListIsSeq ==
  ASSUME NEW S, NEW n \in Nat, NEW f \in [1..n -> S]
  PROVE  f \in Seq(S)
  OBVIOUS

LEMMA HeadOfFour ==
  ASSUME NEW S, NEW h \in S, NEW a \in Seq(S), NEW b \in Seq(S), NEW c \in Seq(S)
  PROVE  (<<h>> \o a \o b \o c)[1] = h
<1>1. <<h>> \in Seq(S) /\ Len(<<h>>) = 1 /\ <<h>>[1] = h
  OBVIOUS
<1>2. (<<h>> \o a) \in Seq(S) /\ Len(<<h>> \o a) >= 1 /\ (<<h>> \o a)[1] = h
  BY <1>1
<1>3. /\ (<<h>> \o a \o b) \in Seq(S) /\ Len(<<h>> \o a \o b) >= 1
      /\ (<<h>> \o a \o b)[1] = h
  BY <1>2
<1> QED BY <1>3

LEMMA DescriptorHead ==
  ASSUME NEW d
  PROVE  DescriptorBytes(d)[1] = <<"purpose", Purpose.descriptor>>
<1> DEFINE h    == <<"purpose", "enclava-deployment-descriptor-v1">>
           core == Labelled(d, CoreLabels)
           flag == IF d.independent_verification
                     THEN <<<<"independent_verification", "true">>>> ELSE <<>>
           anchors == Labelled(d, AnchorLabels)
           S == {h, <<"independent_verification", "true">>}
                \cup {core[i] : i \in 1..27} \cup {anchors[i] : i \in 1..3}
<1>1. DescriptorBytes(d) = <<h>> \o core \o flag \o anchors
  BY DEF DescriptorBytes, DescriptorRecords
<1>2. core \in Seq(S)
  <2>1. DOMAIN CoreLabels = 1..27
    BY DEF CoreLabels
  <2>2. core = [i \in 1..27 |-> <<CoreLabels[i], FieldBytes(d, CoreLabels[i])>>]
    BY <2>1 DEF Labelled
  <2>3. core \in [1..27 -> S]
    BY <2>2
  <2> HIDE DEF S, core
  <2> QED BY <2>3, 27 \in Nat, ListIsSeq
<1>3. anchors \in Seq(S)
  <2>1. DOMAIN AnchorLabels = 1..3
    BY DEF AnchorLabels
  <2>2. anchors = [i \in 1..3 |-> <<AnchorLabels[i], FieldBytes(d, AnchorLabels[i])>>]
    BY <2>1 DEF Labelled
  <2>3. anchors \in [1..3 -> S]
    BY <2>2
  <2> HIDE DEF S, anchors
  <2> QED BY <2>3, 3 \in Nat, ListIsSeq
<1>4. flag \in Seq(S) /\ h \in S
  <2>1. h \in S /\ <<"independent_verification", "true">> \in S
    OBVIOUS
  <2> HIDE DEF S
  <2>2. <<<<"independent_verification", "true">>>> \in Seq(S) /\ <<>> \in Seq(S)
    BY <2>1
  <2> QED BY <2>1, <2>2
<1>5. Purpose.descriptor = "enclava-deployment-descriptor-v1"
  BY DEF Purpose
<1> HIDE DEF core, flag, anchors, S
<1> QED BY <1>1, <1>2, <1>3, <1>4, <1>5, HeadOfFour

LEMMA PurposeFirst ==
  ASSUME NEW s, s.kind \in Kinds
  PROVE  SignedBytes(s)[1] = <<"purpose", Purpose[s.kind]>>
<1>1. CASE s.kind = "descriptor"
  BY <1>1, DescriptorHead DEF SignedBytes, Purpose
<1>2. CASE s.kind = "keyring"
  BY <1>2 DEF SignedBytes, KeyringBytes, Purpose
<1>3. CASE s.kind = "rotation"
  BY <1>3 DEF SignedBytes, RecoveryBytes, Purpose
<1>4. CASE s.kind = "artifact"
  BY <1>4 DEF SignedBytes, ArtifactBytes, Purpose
<1> QED BY <1>1, <1>2, <1>3, <1>4 DEF Kinds

\* Statements of different kinds are never the same bytes.
LEMMA KindsApart ==
  ASSUME NEW s, NEW t, s.kind \in Kinds, t.kind \in Kinds, SignedBytes(s) = SignedBytes(t)
  PROVE  s.kind = t.kind
<1>1. <<"purpose", Purpose[s.kind]>> = <<"purpose", Purpose[t.kind]>>
  BY PurposeFirst
<1>2. Purpose[s.kind] = Purpose[t.kind]
  BY <1>1
<1> QED BY <1>2 DEF Purpose, Kinds

\* The encoding of a rotation gives back the rotation.
LEMMA RotationBytes ==
  ASSUME NEW q, NEW r, RecoveryBytes(q) = RecoveryBytes(r)
  PROVE  /\ q.org_id = r.org_id /\ q.revoked_pubkey = r.revoked_pubkey
         /\ q.replacement_pubkey = r.replacement_pubkey
         /\ q.signed_at = r.signed_at /\ q.reason = r.reason
  BY DEF RecoveryBytes

-----------------------------------------------------------------------------
LEMMA StatementKinds == \A s \in Statements : s.kind \in Kinds /\ s.kind # "artifact"
  BY DEF Statements, Statement, Kinds

LEMMA InitIInv == Init => IInv
  BY DEF Init, IInv, SignedKnown, AcceptedKnown, MadeKnown

LEMMA StepIInv == IInv /\ [Next]_vars => IInv'
<1> SUFFICES ASSUME IInv, [Next]_vars PROVE IInv'
  OBVIOUS
<1> USE DEF IInv
<1>1. ASSUME NEW s \in Statements, Sign(s) PROVE IInv'
  BY <1>1 DEF Sign, SignedKnown, AcceptedKnown, MadeKnown
<1>2. ASSUME NEW s \in Statements, Present(s) PROVE IInv'
  <2>1. PICK t \in signed : Bytes[s] = IF t \in Statements THEN Bytes[t] ELSE SignedBytes(t)
    BY <1>2 DEF Present
  <2>2. SignedBytes(s) = SignedBytes(t)
    BY <2>1 DEF Bytes
  <2>3. accepted' = {s} /\ signed' = signed /\ made' = made
    BY <1>2 DEF Present
  <2> QED BY <2>2, <2>3 DEF SignedKnown, AcceptedKnown, MadeKnown
<1>3. CASE MakeArtifact
  <2>1. PICK m \in Makeable : /\ made' = made \cup {m}
                              /\ signed' = signed \cup {Statement("artifact", m.artifact)}
                              /\ accepted' = accepted
    BY <1>3 DEF MakeArtifact
  <2>2. Statement("artifact", m.artifact).kind = "artifact"
    BY DEF Statement
  <2>3. SignedKnown'
    BY <2>1, <2>2 DEF SignedKnown
  <2>4. AcceptedKnown'
    BY <2>1 DEF AcceptedKnown
  <2>5. MadeKnown'
    BY <2>1 DEF MadeKnown
  <2> QED BY <2>3, <2>4, <2>5
<1>4. CASE UNCHANGED vars
  BY <1>4 DEF vars, SignedKnown, AcceptedKnown, MadeKnown
<1> QED BY <1>1, <1>2, <1>3, <1>4 DEF Next

LEMMA Invariance == Spec => []IInv
  BY InitIInv, StepIInv, PTL DEF Spec

-----------------------------------------------------------------------------
\* The sets hold what they are for, and every artifact made was signed.
THEOREM TypeCorrect == Spec => []TypeOK
<1>1. IInv => TypeOK
  BY DEF IInv, TypeOK, SignedKnown, AcceptedKnown, MadeKnown, Makeable
<1> QED BY Invariance, <1>1, PTL

\* No artifact lets a container gain privileges but as root with exactly the six
\* capabilities of the rootful-sudo profile.
THEOREM EscalationCorrect == Spec => []EscalationIsSudo
<1>1. IInv => EscalationIsSudo
  <2> SUFFICES ASSUME IInv, NEW m \in made,
                      m.descriptor.oci_runtime_spec.security_context.allow_privilege_escalation
               PROVE  LET oci == m.descriptor.oci_runtime_spec
                      IN  /\ ExactlySudo(oci.capabilities.add)
                          /\ oci.security_context.run_as_user = 0
                          /\ ~oci.security_context.privileged
    BY DEF EscalationIsSudo
  <2>1. /\ m.descriptor \in Descriptors
        /\ SecurityFloor(m.descriptor.oci_runtime_spec)
    BY DEF IInv, MadeKnown, Makeable, Signable
  <2>2. UsesRootfulSudo(m.descriptor.oci_runtime_spec)
    BY <2>1 DEF SecurityFloor
  <2>3. CapabilitiesMatchRootfulSudo(m.descriptor.oci_runtime_spec.capabilities)
    BY <2>2 DEF UsesRootfulSudo
  <2>4. ExactlySudo(m.descriptor.oci_runtime_spec.capabilities.add)
    <3>1. m.descriptor.oci_runtime_spec.capabilities \in Capabilities
      BY <2>1, DescriptorsAssumption DEF IsDescriptor, OciRuntimeSpec
    <3> QED BY <2>3, <3>1, SudoExact
  <2> QED BY <2>2, <2>4 DEF UsesRootfulSudo
<1> QED BY Invariance, <1>1, PTL

-----------------------------------------------------------------------------
(* The rendering.                                                          *)

SlotTexts(d) == \A n \in 1..8 : SlotValue(d, Slots[n]) \in Texts

\* The texts between the slots, from the template on.
Renderings(c, d, m) ==
  /\ c = [n \in 0..m |-> c[n]] /\ c[0] = Template
  /\ \A n \in 1..m : c[n] = Replaced(c[n - 1], Slots[n], SlotValue(d, Slots[n]))

LEMMA EightSlots ==
  /\ DOMAIN Slots = 1..8 /\ Len(Slots) = 8
  /\ \A m, n \in 1..8 : Slots[m] = Slots[n] => m = n
  /\ \A n \in 1..8 : Slots[n] \in Atom /\ Slots[n] \notin Closing
<1>1. /\ Slots[1] = "init_data_hash" /\ Slots[2] = "image_digest" /\ Slots[3] = "signer_subject"
      /\ Slots[4] = "signer_issuer" /\ Slots[5] = "namespace" /\ Slots[6] = "service_account"
      /\ Slots[7] = "identity_hash" /\ Slots[8] = "kbs_resource_path"
      /\ DOMAIN Slots = 1..8 /\ Len(Slots) = 8
  BY DEF Slots
<1>2. \A n \in 1..8 : n = 1 \/ n = 2 \/ n = 3 \/ n = 4 \/ n = 5 \/ n = 6 \/ n = 7 \/ n = 8
  OBVIOUS
<1>3. \A n \in 1..8 : Slots[n] \in Atom /\ Slots[n] \notin Closing
  <2>2. \A n \in 1..8 : Slots[n] \in Atom
    BY <1>1, TemplateAssumption DEF Range
  <2>3. \A n \in 1..8 : Slots[n] \notin Closing
    BY <1>1, <1>2 DEF Closing
  <2> QED BY <2>2, <2>3
<1>4. \A m, n \in 1..8 : Slots[m] = Slots[n] => m = n
  BY <1>1, <1>2
<1> QED BY <1>1, <1>3, <1>4

LEMMA RenderingsExist ==
  ASSUME NEW d, NEW m \in Nat
  PROVE  \E c : Renderings(c, d, m)
<1> DEFINE S == {k \in Nat : \E c : Renderings(c, d, k)}
<1>1. 0 \in S
  <2> DEFINE c == [n \in 0..0 |-> Template]
  <2>1. Renderings(c, d, 0)
    BY DEF Renderings
  <2> QED BY <2>1
<1>2. ASSUME NEW k \in Nat, k \in S PROVE k + 1 \in S
  <2>1. PICK c : Renderings(c, d, k)
    BY <1>2
  <2> DEFINE b == [n \in 0..(k + 1) |->
                     IF n <= k THEN c[n] ELSE Replaced(c[n - 1], Slots[n], SlotValue(d, Slots[n]))]
  <2>2. b[0] = Template
    BY <2>1 DEF Renderings
  <2>3. ASSUME NEW n \in 1..(k + 1)
        PROVE  b[n] = Replaced(b[n - 1], Slots[n], SlotValue(d, Slots[n]))
    <3>1. b[n - 1] = c[n - 1]
      OBVIOUS
    <3>2. b[n] = IF n <= k THEN c[n] ELSE Replaced(c[n - 1], Slots[n], SlotValue(d, Slots[n]))
      OBVIOUS
    <3>3. n <= k => n \in 1..k
      OBVIOUS
    <3> HIDE DEF b
    <3> QED BY <2>1, <3>1, <3>2, <3>3 DEF Renderings
  <2>4. b = [n \in 0..(k + 1) |-> b[n]]
    OBVIOUS
  <2> HIDE DEF b
  <2>5. Renderings(b, d, k + 1)
    BY <2>2, <2>3, <2>4 DEF Renderings
  <2> QED BY <2>5
<1>3. Nat \subseteq S
  <2> HIDE DEF S
  <2> QED BY <1>1, <1>2, SetInduction
<1> QED BY <1>3

LEMMA RenderedLast ==
  ASSUME NEW d
  PROVE  \E c : Renderings(c, d, 8) /\ Rendered(d) = c[8]
<1> DEFINE E(c) == c = [n \in 0..8 |-> IF n = 0 THEN Template
                          ELSE Replaced(c[n - 1], Slots[n], SlotValue(d, Slots[n]))]
           C == CHOOSE c : E(c)
<1>1. \E c : E(c)
  <2>1. PICK c : Renderings(c, d, 8)
    BY RenderingsExist
  <2>2. E(c)
    BY <2>1 DEF Renderings
  <2> QED BY <2>2
<1>2. E(C)
  BY <1>1
<1>3. Rendered(d) = C[8]
  BY EightSlots DEF Rendered
<1> HIDE DEF C
<1>4. Renderings(C, d, 8)
  BY <1>2 DEF Renderings
<1> QED BY <1>3, <1>4

\* What a slot's marker is replaced by, and any other atom.
SlotOnly(slot, value) == [x \in Atom |-> IF x = slot THEN value ELSE <<x>>]

LEMMA ReplacedSubst ==
  ASSUME NEW text \in Texts, NEW slot, NEW value \in Texts
  PROVE  /\ Replaced(text, slot, value) = Subst(text, SlotOnly(slot, value))
         /\ SlotOnly(slot, value) \in [Atom -> Texts]
         /\ Replaced(text, slot, value) \in Texts
<1> DEFINE f == SlotOnly(slot, value)
<1>1. f \in [Atom -> Seq(Atom)]
  BY DEF SlotOnly, Texts
<1>2. [i \in DOMAIN text |-> IF text[i] = slot THEN value ELSE <<text[i]>>]
        = [i \in DOMAIN text |-> f[text[i]]]
  BY DEF SlotOnly, Texts
<1>3. Replaced(text, slot, value) = Subst(text, f)
  BY <1>2 DEF Replaced, Subst
<1>4. Subst(text, f) \in Seq(Atom)
  <2> HIDE DEF f
  <2> QED BY <1>1, SubstType DEF Texts
<1> QED BY <1>1, <1>3, <1>4 DEF Texts

LEMMA RenderingsText ==
  ASSUME NEW d, SlotTexts(d), NEW c, Renderings(c, d, 8)
  PROVE  \A n \in 0..8 : c[n] \in Texts
<1> DEFINE S == {n \in Nat : n <= 8 => c[n] \in Texts}
<1>1. 0 \in S
  BY TemplateAssumption DEF Renderings
<1>2. ASSUME NEW n \in Nat, n \in S PROVE n + 1 \in S
  <2> SUFFICES ASSUME n + 1 <= 8 PROVE c[n + 1] \in Texts
    OBVIOUS
  <2>1. n + 1 \in 1..8 /\ (n + 1) - 1 = n /\ c[n] \in Texts
    BY <1>2
  <2>2. c[n + 1] = Replaced(c[n], Slots[n + 1], SlotValue(d, Slots[n + 1]))
    BY <2>1 DEF Renderings
  <2>3. SlotValue(d, Slots[n + 1]) \in Texts
    BY <2>1 DEF SlotTexts
  <2> QED BY <2>1, <2>2, <2>3, ReplacedSubst
<1>3. Nat \subseteq S
  <2> HIDE DEF S
  <2> QED BY <1>1, <1>2, SetInduction
<1> QED BY <1>3

\* A valid value brings no end of a string into a text.
OnlyEnds == [x \in Atom |-> IF x \in Closing THEN <<x>> ELSE <<>>]

LEMMA EndsSubst ==
  ASSUME NEW text \in Texts
  PROVE  Ends(text) = Subst(text, OnlyEnds) /\ OnlyEnds \in [Atom -> Texts]
<1>1. OnlyEnds \in [Atom -> Seq(Atom)]
  BY DEF OnlyEnds
<1>2. [i \in DOMAIN text |-> IF text[i] \in Closing THEN <<text[i]>> ELSE <<>>]
        = [i \in DOMAIN text |-> OnlyEnds[text[i]]]
  BY DEF OnlyEnds, Texts
<1> QED BY <1>1, <1>2 DEF Ends, Subst, Texts

LEMMA EndsKept ==
  ASSUME NEW text \in Texts, NEW n \in 1..8, NEW value \in Texts, ValidSlot(value)
  PROVE  Ends(Replaced(text, Slots[n], value)) = Ends(text)
<1> DEFINE f == SlotOnly(Slots[n], value)
           g == OnlyEnds
           t == Replaced(text, Slots[n], value)
<1>1. f \in [Atom -> Seq(Atom)] /\ t = Subst(text, f) /\ t \in Texts /\ text \in Seq(Atom)
  BY ReplacedSubst DEF Texts
<1>2. g \in [Atom -> Seq(Atom)] /\ Ends(text) = Subst(text, g) /\ Ends(t) = Subst(t, g)
  BY <1>1, EndsSubst DEF Texts
<1>3. Subst(value, g) = <<>>
  <2>1. \A i \in DOMAIN value : value[i] \in Atom /\ value[i] \notin Closing
    BY DEF ValidSlot, Range, Texts
  <2>2. \A i \in DOMAIN value : g[value[i]] = <<>>
    BY <2>1 DEF OnlyEnds
  <2> HIDE DEF g
  <2> QED BY <2>2, SubstNothing DEF Texts
<1>4. ASSUME NEW x \in Atom PROVE g[x] = Subst(f[x], g)
  <2>1. CASE x = Slots[n]
    <3>1. f[x] = value /\ g[x] = <<>>
      BY <2>1, EightSlots DEF SlotOnly, OnlyEnds
    <3> QED BY <1>3, <3>1
  <2>2. CASE x # Slots[n]
    <3>1. f[x] = <<x>>
      BY <2>2 DEF SlotOnly
    <3> HIDE DEF f, g
    <3> QED BY <1>2, <3>1, SubstOne
  <2> QED BY <2>1, <2>2
<1> HIDE DEF f, g, t
<1>5. Composes(g, f, g, Atom)
  BY <1>4 DEF Composes
<1>6. Subst(Subst(text, f), g) = Subst(text, g)
  <2>1. Maps(f, Atom, Atom) /\ Maps(g, Atom, Atom)
    BY <1>1, <1>2 DEF Maps
  <2>2. Composed(g, f, g, Atom)
    BY <1>5, <2>1, SubstComposed
  <2> QED BY <1>1, <2>2 DEF Composed
<1> QED BY <1>1, <1>2, <1>6 DEF t

\* What Renders asks of the values, and what a descriptor's fields are.
ValidSlots(d) == \A n \in 1..8 : ValidSlot(SlotValue(d, Slots[n]))

LEMMA DescriptorSlots ==
  ASSUME NEW d \in Descriptors
  PROVE  SlotTexts(d) /\ (Renders(d) => ValidSlots(d))
<1>1. /\ d.signer_identity.subject \in Texts /\ d.signer_identity.issuer \in Texts
      /\ d.expected_cc_init_data_hash \in Texts /\ d.image_digest \in Texts
      /\ d.namespace \in Texts /\ d.service_account \in Texts
      /\ d.identity_hash \in Texts /\ d.kbs_resource_path \in Texts
  <2>1. IsDescriptor(d)
    BY DescriptorsAssumption
  <2>2. d.signer_identity \in [subject : Texts, issuer : Texts]
    BY <2>1 DEF IsDescriptor
  <2>3. {d.expected_cc_init_data_hash, d.image_digest, d.namespace, d.service_account,
         d.identity_hash, d.kbs_resource_path} \subseteq Texts
    BY <2>1 DEF IsDescriptor
  <2> QED BY <2>2, <2>3
<1>2. SlotTexts(d)
  <2>1. \A n \in 1..8 : n = 1 \/ n = 2 \/ n = 3 \/ n = 4 \/ n = 5 \/ n = 6 \/ n = 7 \/ n = 8
    OBVIOUS
  <2>2. /\ Slots[1] = "init_data_hash" /\ Slots[2] = "image_digest"
        /\ Slots[3] = "signer_subject" /\ Slots[4] = "signer_issuer"
        /\ Slots[5] = "namespace" /\ Slots[6] = "service_account"
        /\ Slots[7] = "identity_hash" /\ Slots[8] = "kbs_resource_path"
    BY DEF Slots
  <2> QED BY <1>1, <2>1, <2>2 DEF SlotTexts, SlotValue
<1>3. Renders(d) => ValidSlots(d)
  BY EightSlots DEF Renders, ValidSlots
<1> QED BY <1>2, <1>3

\* No value ends a string of the template.
LEMMA RenderedEnds ==
  ASSUME NEW d, SlotTexts(d), ValidSlots(d)
  PROVE  Ends(Rendered(d)) = Ends(Template)
<1>1. PICK c : Renderings(c, d, 8) /\ Rendered(d) = c[8]
  BY RenderedLast
<1>2. \A n \in 0..8 : c[n] \in Texts
  BY <1>1, RenderingsText
<1> DEFINE S == {n \in Nat : n <= 8 => Ends(c[n]) = Ends(Template)}
<1>3. 0 \in S
  BY <1>1 DEF Renderings
<1>4. ASSUME NEW n \in Nat, n \in S PROVE n + 1 \in S
  <2> SUFFICES ASSUME n + 1 <= 8 PROVE Ends(c[n + 1]) = Ends(Template)
    OBVIOUS
  <2>1. n + 1 \in 1..8 /\ (n + 1) - 1 = n /\ c[n] \in Texts /\ Ends(c[n]) = Ends(Template)
    BY <1>2, <1>4
  <2>2. c[n + 1] = Replaced(c[n], Slots[n + 1], SlotValue(d, Slots[n + 1]))
    BY <1>1, <2>1 DEF Renderings
  <2>3. SlotValue(d, Slots[n + 1]) \in Texts /\ ValidSlot(SlotValue(d, Slots[n + 1]))
    BY <2>1 DEF SlotTexts, ValidSlots
  <2> QED BY <2>1, <2>2, <2>3, EndsKept
<1>5. Nat \subseteq S
  <2> HIDE DEF S
  <2> QED BY <1>3, <1>4, SetInduction
<1>6. 8 \in S
  BY <1>5
<1> QED BY <1>1, <1>6

\* The first n slots are replaced at once.
FirstSlots(d, n) ==
  [x \in Atom |-> IF \E i \in 1..n : Slots[i] = x THEN SlotValue(d, x) ELSE <<x>>]

LEMMA FirstSlotsMaps ==
  ASSUME NEW d, SlotTexts(d), NEW n \in 0..8
  PROVE  FirstSlots(d, n) \in [Atom -> Seq(Atom)]
<1>1. ASSUME NEW x \in Atom, \E i \in 1..n : Slots[i] = x PROVE SlotValue(d, x) \in Texts
  <2>1. PICK i \in 1..n : Slots[i] = x
    BY <1>1
  <2>2. i \in 1..8
    OBVIOUS
  <2> QED BY <2>1, <2>2 DEF SlotTexts
<1>2. \A x \in Atom : <<x>> \in Seq(Atom)
  OBVIOUS
<1> QED BY <1>1, <1>2 DEF FirstSlots, Texts

\* Replacing one more slot in what the earlier ones have become.
LEMMA NextSlot ==
  ASSUME NEW d, SlotTexts(d), NEW n \in 1..8,
         \A i \in 1..8 : Range(SlotValue(d, Slots[i])) \cap Range(Slots) = {}
  PROVE  Composes(FirstSlots(d, n), FirstSlots(d, n - 1),
                  SlotOnly(Slots[n], SlotValue(d, Slots[n])), Atom)
<1> DEFINE v == SlotValue(d, Slots[n])
           f == FirstSlots(d, n - 1)
           g == SlotOnly(Slots[n], v)
           h == FirstSlots(d, n)
<1>1. v \in Texts /\ n - 1 \in 0..8 /\ Slots[n] \in Atom
  BY EightSlots DEF SlotTexts
<1>2. f \in [Atom -> Seq(Atom)] /\ h \in [Atom -> Seq(Atom)]
  BY <1>1, FirstSlotsMaps
<1>3. g \in [Atom -> Seq(Atom)]
  BY <1>1 DEF SlotOnly, Texts
<1>4. ASSUME NEW x \in Atom PROVE h[x] = Subst(f[x], g)
  <2>1. CASE \E i \in 1..(n - 1) : Slots[i] = x
    <3>1. PICK i \in 1..(n - 1) : Slots[i] = x
      BY <2>1
    <3>2. i \in 1..8 /\ i \in 1..n
      OBVIOUS
    <3>3. f[x] = SlotValue(d, x) /\ h[x] = SlotValue(d, x)
      BY <3>1, <3>2 DEF FirstSlots
    <3> DEFINE w == SlotValue(d, x)
    <3>4. w \in Seq(Atom) /\ Range(w) \cap Range(Slots) = {}
      BY <3>1, <3>2 DEF SlotTexts, Texts
    <3>5. Slots[n] \in Range(Slots)
      BY EightSlots DEF Range
    <3> HIDE DEF w
    <3>6. \A j \in DOMAIN w : w[j] \in Atom /\ w[j] # Slots[n]
      BY <3>4, <3>5 DEF Range
    <3>7. \A j \in DOMAIN w : g[w[j]] = <<w[j]>>
      BY <3>6 DEF SlotOnly
    <3> HIDE DEF g
    <3>8. Subst(w, g) = w
      BY <3>4, <3>7, SubstSelf
    <3> QED BY <3>3, <3>8 DEF w
  <2>2. CASE x = Slots[n]
    <3>1. ~\E i \in 1..(n - 1) : Slots[i] = x
      <4>1. \A i \in 1..(n - 1) : i \in 1..8 /\ i # n
        OBVIOUS
      <4> QED BY <2>2, <4>1, EightSlots
    <3>2. f[x] = <<x>>
      BY <3>1 DEF FirstSlots
    <3>3. g[x] = v
      BY <2>2 DEF SlotOnly
    <3>4. h[x] = v
      <4>1. n \in 1..n
        OBVIOUS
      <4> QED BY <2>2, <4>1 DEF FirstSlots
    <3> HIDE DEF f, g, h, v
    <3> QED BY <1>3, <3>2, <3>3, <3>4, SubstOne
  <2>3. CASE x # Slots[n] /\ ~\E i \in 1..(n - 1) : Slots[i] = x
    <3>1. ~\E i \in 1..n : Slots[i] = x
      <4>1. \A i \in 1..n : i = n \/ i \in 1..(n - 1)
        OBVIOUS
      <4> QED BY <2>3, <4>1
    <3>2. f[x] = <<x>> /\ h[x] = <<x>>
      BY <2>3, <3>1 DEF FirstSlots
    <3>3. g[x] = <<x>>
      BY <2>3 DEF SlotOnly
    <3> HIDE DEF f, g, h
    <3> QED BY <1>3, <3>2, <3>3, SubstOne
  <2> QED BY <2>1, <2>2, <2>3
<1> QED BY <1>4 DEF Composes

LEMMA RenderedAtOnce ==
  ASSUME NEW d, SlotTexts(d), ~NamesSlot(d)
  PROVE  Rendered(d) = Subst(Template, FirstSlots(d, 8))
<1>1. PICK c : Renderings(c, d, 8) /\ Rendered(d) = c[8]
  BY RenderedLast
<1>2. \A i \in 1..8 : Range(SlotValue(d, Slots[i])) \cap Range(Slots) = {}
  BY EightSlots DEF NamesSlot
<1>3. Template \in Seq(Atom)
  BY TemplateAssumption DEF Texts
<1>4. \A n \in 0..8 : c[n] \in Texts
  BY <1>1, RenderingsText
<1> DEFINE S == {n \in Nat : n <= 8 => c[n] = Subst(Template, FirstSlots(d, n))}
<1>5. 0 \in S
  <2>1. c[0] = Template
    BY <1>1 DEF Renderings
  <2>2. \A i \in DOMAIN Template : FirstSlots(d, 0)[Template[i]] = <<Template[i]>>
    BY <1>3 DEF FirstSlots
  <2>3. Subst(Template, FirstSlots(d, 0)) = Template
    BY <1>3, <2>2, SubstSelf
  <2> QED BY <2>1, <2>3
<1>6. ASSUME NEW n \in Nat, n \in S PROVE n + 1 \in S
  <2> SUFFICES ASSUME n + 1 <= 8 PROVE c[n + 1] = Subst(Template, FirstSlots(d, n + 1))
    OBVIOUS
  <2> DEFINE m == n + 1
             v == SlotValue(d, Slots[m])
             f == FirstSlots(d, n)
             g == SlotOnly(Slots[m], v)
             h == FirstSlots(d, m)
  <2>1. /\ m \in 1..8 /\ m - 1 = n /\ n \in 0..8 /\ m \in 0..8
        /\ c[n] = Subst(Template, f)
    BY <1>6
  <2>2. c[m] = Replaced(c[n], Slots[m], v)
    BY <1>1, <2>1 DEF Renderings
  <2>3. v \in Texts /\ c[n] \in Texts
    BY <1>4, <2>1 DEF SlotTexts
  <2>4. Replaced(c[n], Slots[m], v) = Subst(c[n], g) /\ g \in [Atom -> Texts]
    BY <2>3, ReplacedSubst
  <2>5. Composes(h, f, g, Atom)
    BY <1>2, <2>1, NextSlot
  <2>6. Maps(f, Atom, Atom) /\ Maps(g, Atom, Atom) /\ Maps(h, Atom, Atom)
    <3>1. f \in [Atom -> Seq(Atom)] /\ h \in [Atom -> Seq(Atom)]
      BY <2>1, FirstSlotsMaps
    <3> HIDE DEF f, g, h
    <3> QED BY <2>4, <3>1 DEF Maps, Texts
  <2> HIDE DEF f, g, h, v, m
  <2>7. Composed(h, f, g, Atom)
    BY <2>5, <2>6, SubstComposed
  <2>8. Subst(Subst(Template, f), g) = Subst(Template, h)
    BY <1>3, <2>7 DEF Composed
  <2>9. c[m] = Subst(Template, h)
    BY <2>1, <2>2, <2>4, <2>8
  <2> QED BY <2>9 DEF h, m
<1>7. Nat \subseteq S
  <2> HIDE DEF S
  <2> QED BY <1>5, <1>6, SetInduction
<1>8. 8 \in S
  BY <1>7
<1> QED BY <1>1, <1>8

LEMMA MeantAtOnce ==
  ASSUME NEW d
  PROVE  Meant(d) = Subst(Template, FirstSlots(d, 8))
<1>1. ASSUME NEW i \in DOMAIN Template
      PROVE  FirstSlots(d, 8)[Template[i]] =
               IF Template[i] \in Range(Slots) THEN SlotValue(d, Template[i]) ELSE <<Template[i]>>
  <2>1. Template[i] \in Atom
    BY TemplateAssumption DEF Texts
  <2>2. Template[i] \in Range(Slots) <=> \E n \in 1..8 : Slots[n] = Template[i]
    BY EightSlots DEF Range
  <2> QED BY <2>1, <2>2 DEF FirstSlots
<1> QED BY <1>1 DEF Meant, Subst

\* The text of the resource policy of every artifact made is the template's, with the
\* descriptor's values between its quotes: no value brings in a character that may close a
\* string, and values that name no slot are left alone.
THEOREM RenderedCorrect == Spec => []RenderedAsMeant
<1>1. IInv => RenderedAsMeant
  <2> SUFFICES ASSUME IInv, NEW m \in made
               PROVE  /\ Ends(Rendered(m.descriptor)) = Ends(Template)
                      /\ ~NamesSlot(m.descriptor) => Rendered(m.descriptor) = Meant(m.descriptor)
    BY DEF RenderedAsMeant
  <2>1. m.descriptor \in Descriptors /\ Renders(m.descriptor)
    BY DEF IInv, MadeKnown, Makeable, Signable
  <2>2. SlotTexts(m.descriptor) /\ ValidSlots(m.descriptor)
    BY <2>1, DescriptorSlots
  <2> QED BY <2>2, RenderedEnds, RenderedAtOnce, MeantAtOnce
<1> QED BY Invariance, <1>1, PTL

-----------------------------------------------------------------------------
(* The sorting.                                                            *)

Precedes(keys, i, k) == keys[i] < keys[k] \/ (keys[i] = keys[k] /\ i < k)
Before(keys, n, i) == {j \in 1..n : keys[j] < keys[i] \/ (keys[j] = keys[i] /\ j <= i)}
KeyRank(keys, n) == [i \in 1..n |-> Cardinality(Before(keys, n, i))]

LEMMA BeforeFinite ==
  ASSUME NEW n \in Nat, NEW keys, NEW i
  PROVE  /\ IsFiniteSet(Before(keys, n, i))
         /\ Cardinality(Before(keys, n, i)) \in Nat
         /\ Cardinality(Before(keys, n, i)) <= n
<1>1. IsFiniteSet(1..n) /\ Cardinality(1..n) = n
  <2>1. 1 \in Int /\ n \in Int
    OBVIOUS
  <2>2. IsFiniteSet(1..n) /\ Cardinality(1..n) = IF 1 > n THEN 0 ELSE n - 1 + 1
    BY <2>1, FS_Interval
  <2> QED BY <2>2
<1>2. Before(keys, n, i) \in SUBSET (1..n)
  BY DEF Before
<1> QED BY <1>1, <1>2, FS_Subset, FS_CardinalityType

LEMMA KeyRankGrows ==
  ASSUME NEW n \in Nat, NEW keys, \A i \in 1..n : keys[i] \in Nat,
         NEW i \in 1..n, NEW k \in 1..n, Precedes(keys, i, k)
  PROVE  KeyRank(keys, n)[i] < KeyRank(keys, n)[k]
<1> DEFINE I == Before(keys, n, i)
           K == Before(keys, n, k)
<1>1. \A j \in 1..n : keys[j] \in Nat /\ j \in Nat
  OBVIOUS
<1>2. I \in SUBSET K
  BY <1>1 DEF Before, Precedes
<1>3. k \in K /\ k \notin I
  BY <1>1 DEF Before, Precedes
<1>4. /\ IsFiniteSet(K) /\ Cardinality(K) \in Nat /\ Cardinality(I) \in Nat
  BY BeforeFinite
<1> HIDE DEF I, K
<1>5. Cardinality(I) <= Cardinality(K) /\ Cardinality(I) # Cardinality(K)
  BY <1>2, <1>3, <1>4, FS_Subset
<1>6. Cardinality(I) < Cardinality(K)
  BY <1>4, <1>5
<1> QED BY <1>6 DEF KeyRank, I, K

\* The ranks are those of an order, and every one is taken.
RanksOrder(keys, n) ==
  /\ KeyRank(keys, n) \in Bijection(1..n, 1..n)
  /\ \A i, k \in 1..n : KeyRank(keys, n)[i] < KeyRank(keys, n)[k] => Precedes(keys, i, k)

LEMMA KeyRanks ==
  ASSUME NEW n \in Nat, NEW keys, \A i \in 1..n : keys[i] \in Nat
  PROVE  RanksOrder(keys, n)
<1> DEFINE r == KeyRank(keys, n)
<1>1. \A i \in 1..n : r[i] \in 1..n
  <2> TAKE i \in 1..n
  <2>1. i \in Before(keys, n, i)
    BY DEF Before
  <2>2. /\ IsFiniteSet(Before(keys, n, i)) /\ r[i] = Cardinality(Before(keys, n, i))
        /\ r[i] \in Nat /\ r[i] <= n
    BY BeforeFinite DEF KeyRank
  <2>3. r[i] # 0
    BY <2>1, <2>2, FS_EmptySet
  <2> QED BY <2>2, <2>3
<1>2. \A i, k \in 1..n : Precedes(keys, i, k) => r[i] < r[k]
  BY KeyRankGrows
<1>3. \A i, k \in 1..n : i = k \/ Precedes(keys, i, k) \/ Precedes(keys, k, i)
  BY DEF Precedes
<1>4. r \in [1..n -> 1..n]
  BY <1>1 DEF KeyRank
<1> HIDE DEF r
<1>5. r \in Injection(1..n, 1..n)
  <2>1. \A i, k \in 1..n : r[i] = r[k] => i = k
    BY <1>1, <1>2, <1>3
  <2> QED BY <1>4, <2>1 DEF Injection, IsInjective
<1>6. IsFiniteSet(1..n)
  <2>1. 1 \in Int /\ n \in Int
    OBVIOUS
  <2> QED BY <2>1, FS_Interval
<1>7. r \in Bijection(1..n, 1..n)
  <2>1. r \in Surjection(1..n, 1..n)
    BY <1>5, <1>6, FS_Injection
  <2> QED BY <1>5, <2>1 DEF Bijection
<1>8. \A i, k \in 1..n : r[i] < r[k] => Precedes(keys, i, k)
  BY <1>1, <1>2, <1>3
<1> QED BY <1>7, <1>8 DEF RanksOrder, r

\* Every element is at its rank in the sorted list.
SortedBy(list, keys, n) ==
  /\ DOMAIN list = 1..n /\ DOMAIN Sorted(list, keys) = 1..n
  /\ \A i \in 1..n : Sorted(list, keys)[KeyRank(keys, n)[i]] = list[i]

LEMMA SortedAt ==
  ASSUME NEW n \in Nat, NEW list, DOMAIN list = 1..n, NEW keys, \A i \in 1..n : keys[i] \in Nat
  PROVE  SortedBy(list, keys, n)
<1> DEFINE r == KeyRank(keys, n)
<1>1. r \in Bijection(1..n, 1..n)
  BY KeyRanks DEF RanksOrder
<1>2. (\A i \in 1..n : r[i] \in 1..n) /\ (\A i, k \in 1..n : r[i] = r[k] => i = k)
  BY <1>1 DEF Bijection, Injection, IsInjective
<1> DEFINE c(i) == Cardinality({j \in 1..n : keys[j] < keys[i] \/ (keys[j] = keys[i] /\ j <= i)})
<1>3. \A i \in 1..n : r[i] = c(i)
  BY DEF KeyRank, Before
<1>4. Sorted(list, keys) = [m \in 1..n |-> list[CHOOSE i \in 1..n : c(i) = m]]
  BY DEF Sorted
<1> HIDE DEF r, c
<1>5. ASSUME NEW i \in 1..n PROVE Sorted(list, keys)[r[i]] = list[i]
  <2>1. \A k \in 1..n : c(k) = r[i] <=> k = i
    BY <1>2, <1>3
  <2>2. (CHOOSE k \in 1..n : c(k) = r[i]) = i
    BY <2>1
  <2>3. r[i] \in 1..n
    BY <1>2
  <2>4. Sorted(list, keys)[r[i]] = list[CHOOSE k \in 1..n : c(k) = r[i]]
    BY <1>4, <2>3
  <2> QED BY <2>2, <2>4
<1> QED BY <1>4, <1>5 DEF SortedBy, r

Keys(list, key) == [i \in DOMAIN list |-> list[i][key]]

\* Lists that sort to the same list have the same entries, those of one key in one order.
LEMMA SortedSame ==
  ASSUME NEW n \in Nat, NEW key, NEW a, DOMAIN a = 1..n, NEW b, DOMAIN b = 1..n,
         \A i \in 1..n : a[i][key] \in Nat, \A i \in 1..n : b[i][key] \in Nat,
         Sorted(a, Keys(a, key)) = Sorted(b, Keys(b, key))
  PROVE  SameEntries(a, b, key)
<1> DEFINE ka == Keys(a, key)
           kb == Keys(b, key)
           ra == KeyRank(ka, n)
           rb == KeyRank(kb, n)
           p  == [i \in 1..n |-> CHOOSE k \in 1..n : rb[k] = ra[i]]
<1>1. /\ \A i \in 1..n : ka[i] = a[i][key] /\ ka[i] \in Nat
      /\ \A i \in 1..n : kb[i] = b[i][key] /\ kb[i] \in Nat
  BY DEF Keys
<1>2. Sorted(a, ka) = Sorted(b, kb)
  OBVIOUS
<1> HIDE DEF ka, kb
<1>3. RanksOrder(ka, n) /\ RanksOrder(kb, n)
  BY <1>1, KeyRanks
<1>4. SortedBy(a, ka, n) /\ SortedBy(b, kb, n)
  BY <1>1, SortedAt
<1>5. /\ ra \in [1..n -> 1..n] /\ rb \in [1..n -> 1..n]
      /\ \A i, k \in 1..n : ra[i] = ra[k] => i = k
      /\ \A i, k \in 1..n : rb[i] = rb[k] => i = k
      /\ \A m \in 1..n : \E i \in 1..n : ra[i] = m
      /\ \A m \in 1..n : \E i \in 1..n : rb[i] = m
  BY <1>3 DEF RanksOrder, Bijection, Injection, Surjection, IsInjective
<1>6. /\ \A i \in 1..n : Sorted(a, ka)[ra[i]] = a[i]
      /\ \A i \in 1..n : Sorted(b, kb)[rb[i]] = b[i]
  BY <1>4 DEF SortedBy
<1>7. \A i, k \in 1..n : rb[i] < rb[k] => Precedes(kb, i, k)
  BY <1>3 DEF RanksOrder
<1>8. \A i, k \in 1..n : Precedes(ka, i, k) => ra[i] < ra[k]
  BY <1>1, KeyRankGrows
<1> HIDE DEF ra, rb
<1>9. \A i \in 1..n : p[i] \in 1..n /\ rb[p[i]] = ra[i]
  BY <1>5
<1>10. p \in [1..n -> 1..n]
  BY <1>9
<1> HIDE DEF p
<1>11. ASSUME NEW i \in 1..n PROVE b[p[i]] = a[i]
  <2>1. p[i] \in 1..n /\ rb[p[i]] = ra[i]
    BY <1>9
  <2>2. Sorted(b, kb)[rb[p[i]]] = b[p[i]] /\ Sorted(a, ka)[ra[i]] = a[i]
    BY <1>6, <2>1
  <2> QED BY <1>2, <2>1, <2>2
<1>12. p \in Bijection(1..n, 1..n)
  <2>1. ASSUME NEW i \in 1..n, NEW k \in 1..n, p[i] = p[k] PROVE i = k
    <3>1. rb[p[i]] = ra[i] /\ rb[p[k]] = ra[k]
      BY <1>9
    <3>2. ra[i] = ra[k]
      BY <2>1, <3>1
    <3> QED BY <1>5, <3>2
  <2>2. \A m \in 1..n : \E i \in 1..n : p[i] = m
    <3> TAKE m \in 1..n
    <3>1. PICK i \in 1..n : ra[i] = rb[m]
      BY <1>5
    <3>2. p[i] = m
      BY <1>5, <1>9, <3>1
    <3> QED BY <3>2
  <2> QED BY <1>10, <2>1, <2>2 DEF Bijection, Injection, Surjection, IsInjective
<1>13. ASSUME NEW i \in 1..n, NEW j \in 1..n, i < j, a[i][key] = a[j][key]
       PROVE  p[i] < p[j]
  <2>1. Precedes(ka, i, j)
    BY <1>1, <1>13 DEF Precedes
  <2>2. rb[p[i]] < rb[p[j]] /\ p[i] \in 1..n /\ p[j] \in 1..n
    BY <1>8, <1>9, <2>1
  <2>3. Precedes(kb, p[i], p[j])
    BY <1>7, <2>2
  <2>4. kb[p[i]] = a[i][key] /\ kb[p[j]] = a[j][key]
    BY <1>1, <1>11, <2>2
  <2> QED BY <1>13, <2>3, <2>4, <1>1 DEF Precedes
<1> QED BY <1>11, <1>12, <1>13 DEF SameEntries

\* The sorted list has elements of the list only.
LEMMA SortedElements ==
  ASSUME NEW S, NEW a \in Seq(S), NEW keys, \A i \in DOMAIN a : keys[i] \in Nat
  PROVE  DOMAIN Sorted(a, keys) = DOMAIN a /\ \A m \in DOMAIN a : Sorted(a, keys)[m] \in S
<1> DEFINE n == Len(a)
           r == KeyRank(keys, n)
<1>1. n \in Nat /\ DOMAIN a = 1..n /\ \A i \in 1..n : a[i] \in S
  OBVIOUS
<1> HIDE DEF n
<1>2. RanksOrder(keys, n) /\ SortedBy(a, keys, n)
  BY <1>1, KeyRanks, SortedAt
<1>3. \A m \in 1..n : \E i \in 1..n : r[i] = m
  BY <1>2 DEF RanksOrder, Bijection, Surjection
<1>4. \A i \in 1..n : Sorted(a, keys)[r[i]] = a[i]
  BY <1>2 DEF SortedBy
<1>5. DOMAIN Sorted(a, keys) = 1..n
  BY <1>2 DEF SortedBy
<1> HIDE DEF r
<1> QED BY <1>1, <1>3, <1>4, <1>5

-----------------------------------------------------------------------------
(* The encodings, read back.                                               *)

LEMMA HashOf == ASSUME NEW a, NEW b, Hash(a) = Hash(b) PROVE a = b
  BY DEF Hash

\* The sorted entries, each by its encoding: the entries that were sorted.
SortedCodes(list, key, code) ==
  [i \in DOMAIN list |-> code[Sorted(list, Keys(list, key))[i]]]
Reads(code, S) == \A u, v \in S : code[u] = code[v] => u = v
Keyed(S, key) == \A s \in S : s[key] \in Nat

LEMMA CodesSame ==
  ASSUME NEW S, NEW key, Keyed(S, key), NEW code, Reads(code, S),
         NEW a \in Seq(S), NEW b \in Seq(S), SortedCodes(a, key, code) = SortedCodes(b, key, code)
  PROVE  SameEntries(a, b, key)
<1> DEFINE s == Sorted(a, Keys(a, key))
           t == Sorted(b, Keys(b, key))
           n == Len(a)
<1>1. [i \in DOMAIN a |-> code[s[i]]] = [i \in DOMAIN b |-> code[t[i]]]
  BY DEF SortedCodes
<1>2. /\ \A i \in DOMAIN a : a[i] \in S /\ Keys(a, key)[i] = a[i][key]
      /\ \A i \in DOMAIN b : b[i] \in S /\ Keys(b, key)[i] = b[i][key]
  BY DEF Keys
<1>3. /\ \A i \in DOMAIN a : Keys(a, key)[i] \in Nat /\ a[i][key] \in Nat
      /\ \A i \in DOMAIN b : Keys(b, key)[i] \in Nat /\ b[i][key] \in Nat
  BY <1>2 DEF Keyed
<1>4. /\ DOMAIN s = DOMAIN a /\ \A m \in DOMAIN a : s[m] \in S
      /\ DOMAIN t = DOMAIN b /\ \A m \in DOMAIN b : t[m] \in S
  BY <1>3, SortedElements
<1>5. n \in Nat /\ DOMAIN a = 1..n
  OBVIOUS
<1>6. s = [i \in DOMAIN s |-> s[i]] /\ t = [i \in DOMAIN t |-> t[i]]
  BY DEF Sorted
<1> HIDE DEF s, t, n
<1>7. DOMAIN b = 1..n
  BY <1>1, <1>5
<1>8. ASSUME NEW i \in 1..n PROVE s[i] = t[i]
  <2>1. s[i] \in S /\ t[i] \in S
    BY <1>4, <1>5, <1>7
  <2>2. code[s[i]] = code[t[i]]
    BY <1>1, <1>5, <1>7
  <2> QED BY <2>1, <2>2 DEF Reads
<1>9. s = t
  BY <1>4, <1>5, <1>6, <1>7, <1>8
<1>10. Sorted(a, Keys(a, key)) = Sorted(b, Keys(b, key))
  BY <1>9 DEF s, t
<1> QED BY <1>3, <1>5, <1>7, <1>10, SortedSame

\* Environment variables and resources.
LEMMA EnvVarRead ==
  /\ Keyed(EnvVar, "name")
  /\ Reads([e \in EnvVar |-> <<e.name, e.value>>], EnvVar)
<1>1. ASSUME NEW e \in EnvVar
      PROVE  e["name"] \in Nat /\ e = [name |-> e.name, value |-> e.value]
  BY DEF EnvVar
<1>2. ASSUME NEW e \in EnvVar, NEW f \in EnvVar, <<e.name, e.value>> = <<f.name, f.value>>
      PROVE  e = f
  <2>1. e.name = f.name /\ e.value = f.value
    BY <1>2
  <2> QED BY <1>1, <2>1
<1>3. Reads([e \in EnvVar |-> <<e.name, e.value>>], EnvVar)
  <2> DEFINE code == [e \in EnvVar |-> <<e.name, e.value>>]
  <2>1. \A e \in EnvVar : code[e] = <<e.name, e.value>>
    OBVIOUS
  <2> HIDE DEF code
  <2>2. ASSUME NEW e \in EnvVar, NEW f \in EnvVar, code[e] = code[f] PROVE e = f
    BY <1>2, <2>1, <2>2
  <2> QED BY <2>2 DEF Reads, code
<1> QED BY <1>1, <1>3 DEF Keyed

LEMMA NamedSame ==
  ASSUME NEW a \in Seq(EnvVar), NEW b \in Seq(EnvVar), Named(a) = Named(b)
  PROVE  SameEntries(a, b, "name")
<1> DEFINE code == [e \in EnvVar |-> <<e.name, e.value>>]
<1>1. ASSUME NEW list \in Seq(EnvVar)
      PROVE  Named(list) = Hash(SortedCodes(list, "name", code))
  <2> DEFINE keys == [i \in DOMAIN list |-> list[i].name]
             s    == Sorted(list, keys)
  <2>1. keys = Keys(list, "name")
    BY DEF Keys
  <2>2. \A i \in DOMAIN list : keys[i] \in Nat
    <3>1. \A i \in DOMAIN list : list[i] \in EnvVar
      OBVIOUS
    <3> QED BY <3>1, EnvVarRead DEF Keyed
  <2> HIDE DEF keys
  <2>3. \A i \in DOMAIN list : s[i] \in EnvVar
    BY <2>2, SortedElements
  <2>4. Named(list) = Hash([i \in DOMAIN list |-> <<s[i].name, s[i].value>>])
    BY DEF Named, keys
  <2> HIDE DEF s
  <2>5. [i \in DOMAIN list |-> <<s[i].name, s[i].value>>] = [i \in DOMAIN list |-> code[s[i]]]
    BY <2>3
  <2>6. SortedCodes(list, "name", code) = [i \in DOMAIN list |-> code[s[i]]]
    BY <2>1 DEF SortedCodes, s
  <2> QED BY <2>4, <2>5, <2>6
<1> HIDE DEF code
<1>2. SortedCodes(a, "name", code) = SortedCodes(b, "name", code)
  BY <1>1, HashOf
<1>3. Reads(code, EnvVar) /\ Keyed(EnvVar, "name")
  BY EnvVarRead DEF code
<1> QED BY <1>2, <1>3, CodesSame

\* The members of a keyring.
LEMMA MemberRead ==
  /\ Keyed(Member, "user_id")
  /\ Reads([m \in Member |-> <<m.user_id, MemberHash(m)>>], Member)
<1>1. ASSUME NEW m \in Member
      PROVE  /\ m["user_id"] \in Nat
             /\ m = [user_id |-> m.user_id, pubkey |-> m.pubkey, role |-> m.role,
                     added_at |-> m.added_at]
  BY DEF Member
<1>2. ASSUME NEW l \in Member, NEW m \in Member, MemberHash(l) = MemberHash(m)
      PROVE  l = m
  <2>1. <<<<"user_id", l.user_id>>, <<"pubkey", l.pubkey>>, <<"role", l.role>>,
          <<"added_at", l.added_at>>>>
        = <<<<"user_id", m.user_id>>, <<"pubkey", m.pubkey>>, <<"role", m.role>>,
            <<"added_at", m.added_at>>>>
    BY <1>2, HashOf DEF MemberHash
  <2>2. /\ l.user_id = m.user_id /\ l.pubkey = m.pubkey /\ l.role = m.role
        /\ l.added_at = m.added_at
    BY <2>1
  <2> QED BY <1>1, <2>2
<1>3. Reads([m \in Member |-> <<m.user_id, MemberHash(m)>>], Member)
  <2> DEFINE code == [m \in Member |-> <<m.user_id, MemberHash(m)>>]
  <2>1. \A m \in Member : code[m] = <<m.user_id, MemberHash(m)>>
    OBVIOUS
  <2> HIDE DEF code
  <2>2. ASSUME NEW l \in Member, NEW m \in Member, code[l] = code[m] PROVE l = m
    BY <1>2, <2>1, <2>2
  <2> QED BY <2>2 DEF Reads, code
<1> QED BY <1>1, <1>3 DEF Keyed

LEMMA MembersSame ==
  ASSUME NEW a \in Seq(Member), NEW b \in Seq(Member), MembersHash(a) = MembersHash(b)
  PROVE  SameEntries(a, b, "user_id")
<1> DEFINE code == [m \in Member |-> <<m.user_id, MemberHash(m)>>]
<1>1. ASSUME NEW list \in Seq(Member)
      PROVE  MembersHash(list) = Hash(SortedCodes(list, "user_id", code))
  <2> DEFINE keys == [i \in DOMAIN list |-> list[i].user_id]
             s    == Sorted(list, keys)
  <2>1. keys = Keys(list, "user_id")
    BY DEF Keys
  <2>2. \A i \in DOMAIN list : keys[i] \in Nat
    <3>1. \A i \in DOMAIN list : list[i] \in Member
      OBVIOUS
    <3> QED BY <3>1, MemberRead DEF Keyed
  <2> HIDE DEF keys
  <2>3. \A i \in DOMAIN list : s[i] \in Member
    BY <2>2, SortedElements
  <2>4. MembersHash(list) = Hash([i \in DOMAIN list |-> <<s[i].user_id, MemberHash(s[i])>>])
    BY DEF MembersHash, keys
  <2> HIDE DEF s
  <2>5. [i \in DOMAIN list |-> <<s[i].user_id, MemberHash(s[i])>>]
          = [i \in DOMAIN list |-> code[s[i]]]
    BY <2>3
  <2>6. SortedCodes(list, "user_id", code) = [i \in DOMAIN list |-> code[s[i]]]
    BY <2>1 DEF SortedCodes, s
  <2> QED BY <2>4, <2>5, <2>6
<1> HIDE DEF code
<1>2. SortedCodes(a, "user_id", code) = SortedCodes(b, "user_id", code)
  BY <1>1, HashOf
<1>3. Reads(code, Member) /\ Keyed(Member, "user_id")
  BY MemberRead DEF code
<1> QED BY <1>2, <1>3, CodesSame

\* A keyring.
LEMMA KeyringBytesRead ==
  ASSUME NEW k \in OrgKeyring, NEW l \in OrgKeyring, KeyringBytes(k) = KeyringBytes(l)
  PROVE  SameKeyring(k, l)
<1>1. /\ k.org_id = l.org_id /\ k.version = l.version /\ k.updated_at = l.updated_at
      /\ MembersHash(k.members) = MembersHash(l.members)
  BY DEF KeyringBytes
<1>2. k.members \in Seq(Member) /\ l.members \in Seq(Member)
  BY DEF OrgKeyring
<1>3. ASSUME NEW r \in OrgKeyring
      PROVE  OrderedKeyring(r) =
               [org_id |-> r.org_id, version |-> r.version, members |-> <<>>,
                updated_at |-> r.updated_at]
  BY DEF OrgKeyring, OrderedKeyring
<1>4. OrderedKeyring(k) = OrderedKeyring(l)
  BY <1>1, <1>3
<1>5. SameEntries(k.members, l.members, "user_id")
  BY <1>1, <1>2, MembersSame
<1> QED BY <1>4, <1>5 DEF SameKeyring

\* A rotation.
LEMMA RotationBytesRead ==
  ASSUME NEW q \in RotationDirective, NEW r \in RotationDirective,
         RecoveryBytes(q) = RecoveryBytes(r)
  PROVE  q = r
<1>1. ASSUME NEW d \in RotationDirective
      PROVE  d = [org_id |-> d.org_id, revoked_pubkey |-> d.revoked_pubkey,
                  replacement_pubkey |-> d.replacement_pubkey, signed_at |-> d.signed_at,
                  reason |-> d.reason]
  BY DEF RotationDirective
<1>2. /\ q.org_id = r.org_id /\ q.revoked_pubkey = r.revoked_pubkey
      /\ q.replacement_pubkey = r.replacement_pubkey
      /\ q.signed_at = r.signed_at /\ q.reason = r.reason
  BY RotationBytes
<1> QED BY <1>1, <1>2

-----------------------------------------------------------------------------
(* The encoding of a descriptor, read back.                                *)

\* The lists in which the order counts.
LEMMA NumberedRead ==
  ASSUME NEW prefix, NEW a, NEW b, NEW S, NEW T, a \in Seq(S), b \in Seq(T),
         Numbered(prefix, a) = Numbered(prefix, b)
  PROVE  a = b
<1>1. [i \in DOMAIN a |-> <<<<prefix, i>>, a[i]>>] = [i \in DOMAIN b |-> <<<<prefix, i>>, b[i]>>]
  BY HashOf DEF Numbered
<1>2. DOMAIN a = DOMAIN b
  BY <1>1
<1>3. ASSUME NEW i \in DOMAIN a PROVE a[i] = b[i]
  <2>1. <<<<prefix, i>>, a[i]>> = <<<<prefix, i>>, b[i]>>
    BY <1>1, <1>2
  <2> QED BY <2>1
<1>4. a = [i \in DOMAIN a |-> a[i]] /\ b = [i \in DOMAIN b |-> b[i]]
  OBVIOUS
<1> QED BY <1>2, <1>3, <1>4

\* The parts of a container's description.
LEMMA MountRead ==
  ASSUME NEW a \in Mount, NEW b \in Mount, MountBytes(a) = MountBytes(b)
  PROVE  a = b
<1>1. <<<<"source", a.source>>, <<"destination", a.destination>>, <<"type", a.mount_type>>,
        <<"options", Strings(a.options)>>>>
      = <<<<"source", b.source>>, <<"destination", b.destination>>, <<"type", b.mount_type>>,
          <<"options", Strings(b.options)>>>>
  BY HashOf DEF MountBytes
<1>2. /\ a.source = b.source /\ a.destination = b.destination /\ a.mount_type = b.mount_type
      /\ Strings(a.options) = Strings(b.options)
  BY <1>1
<1>3. a.options \in Seq(Texts) /\ b.options \in Seq(Texts)
  BY DEF Mount
<1>4. a.options = b.options
  BY <1>2, <1>3, NumberedRead DEF Strings
<1>5. ASSUME NEW m \in Mount
      PROVE  m = [source |-> m.source, destination |-> m.destination,
                  mount_type |-> m.mount_type, options |-> m.options]
  BY DEF Mount
<1> QED BY <1>2, <1>4, <1>5

LEMMA PortRead ==
  ASSUME NEW a \in Port, NEW b \in Port, PortBytes(a) = PortBytes(b)
  PROVE  a = b
<1>1. a.container_port = b.container_port /\ a.protocol = b.protocol
  BY DEF PortBytes
<1>2. ASSUME NEW p \in Port
      PROVE  p = [container_port |-> p.container_port, protocol |-> p.protocol]
  BY DEF Port
<1> QED BY <1>1, <1>2

LEMMA SecurityRead ==
  ASSUME NEW a \in SecurityContext, NEW b \in SecurityContext, SecurityBytes(a) = SecurityBytes(b)
  PROVE  a = b
<1>1. <<<<"run_as_user", a.run_as_user>>, <<"run_as_group", a.run_as_group>>,
        <<"flags", <<a.read_only_root_fs, a.allow_privilege_escalation, a.privileged>>>>>>
      = <<<<"run_as_user", b.run_as_user>>, <<"run_as_group", b.run_as_group>>,
          <<"flags", <<b.read_only_root_fs, b.allow_privilege_escalation, b.privileged>>>>>>
  BY HashOf DEF SecurityBytes
<1>2. a.run_as_user = b.run_as_user /\ a.run_as_group = b.run_as_group
  BY <1>1
<1>3. <<a.read_only_root_fs, a.allow_privilege_escalation, a.privileged>>
        = <<b.read_only_root_fs, b.allow_privilege_escalation, b.privileged>>
  BY <1>1
<1>4. /\ a.read_only_root_fs = b.read_only_root_fs
      /\ a.allow_privilege_escalation = b.allow_privilege_escalation
      /\ a.privileged = b.privileged
  BY <1>3
<1>5. ASSUME NEW c \in SecurityContext
      PROVE  c = [run_as_user |-> c.run_as_user, run_as_group |-> c.run_as_group,
                  read_only_root_fs |-> c.read_only_root_fs,
                  allow_privilege_escalation |-> c.allow_privilege_escalation,
                  privileged |-> c.privileged]
  BY DEF SecurityContext
<1> QED BY <1>2, <1>4, <1>5

\* Lists whose elements are encoded first.
Codes(list, code) == [i \in DOMAIN list |-> code[list[i]]]
LEMMA CodesRead ==
  ASSUME NEW S, NEW T, NEW code \in [S -> T], Reads(code, S), NEW prefix,
         NEW a \in Seq(S), NEW b \in Seq(S),
         Numbered(prefix, Codes(a, code)) = Numbered(prefix, Codes(b, code))
  PROVE  a = b
<1>1. /\ \A i \in DOMAIN a : a[i] \in S /\ code[a[i]] \in T
      /\ \A i \in DOMAIN b : b[i] \in S /\ code[b[i]] \in T
  OBVIOUS
<1>2. Codes(a, code) \in Seq(T) /\ Codes(b, code) \in Seq(T)
  <2>1. Codes(a, code) = [i \in 1..Len(a) |-> code[a[i]]] /\ Len(a) \in Nat
    BY DEF Codes
  <2>2. Codes(b, code) = [i \in 1..Len(b) |-> code[b[i]]] /\ Len(b) \in Nat
    BY DEF Codes
  <2>3. Codes(a, code) \in [1..Len(a) -> T] /\ Codes(b, code) \in [1..Len(b) -> T]
    BY <1>1, <2>1, <2>2
  <2> QED BY <2>1, <2>2, <2>3, ListIsSeq
<1>3. Codes(a, code) = Codes(b, code)
  BY <1>2, NumberedRead
<1>4. DOMAIN a = DOMAIN b /\ \A i \in DOMAIN a : code[a[i]] = code[b[i]]
  BY <1>3 DEF Codes
<1>5. \A i \in DOMAIN a : a[i] = b[i]
  BY <1>1, <1>4 DEF Reads
<1>6. a = [i \in DOMAIN a |-> a[i]] /\ b = [i \in DOMAIN b |-> b[i]]
  OBVIOUS
<1> QED BY <1>4, <1>5, <1>6

LEMMA PortsRead ==
  ASSUME NEW a \in Seq(Port), NEW b \in Seq(Port),
         Numbered("p", [i \in DOMAIN a |-> PortBytes(a[i])])
           = Numbered("p", [i \in DOMAIN b |-> PortBytes(b[i])])
  PROVE  a = b
<1> DEFINE code == [p \in Port |-> PortBytes(p)]
           T    == {PortBytes(p) : p \in Port}
<1>1. code \in [Port -> T]
  OBVIOUS
<1>2. \A p \in Port : code[p] = PortBytes(p)
  OBVIOUS
<1>3. \A p, q \in Port : PortBytes(p) = PortBytes(q) => p = q
  BY PortRead
<1>4. (\A i \in DOMAIN a : a[i] \in Port) /\ (\A i \in DOMAIN b : b[i] \in Port)
  OBVIOUS
<1> HIDE DEF code, T
<1>5. Reads(code, Port)
  BY <1>2, <1>3 DEF Reads
<1>6. /\ Codes(a, code) = [i \in DOMAIN a |-> PortBytes(a[i])]
      /\ Codes(b, code) = [i \in DOMAIN b |-> PortBytes(b[i])]
  BY <1>2, <1>4 DEF Codes
<1>7. Numbered("p", Codes(a, code)) = Numbered("p", Codes(b, code))
  BY <1>6
<1> QED BY <1>1, <1>5, <1>7, CodesRead

LEMMA MountsRead ==
  ASSUME NEW a \in Seq(Mount), NEW b \in Seq(Mount),
         Numbered("m", [i \in DOMAIN a |-> MountBytes(a[i])])
           = Numbered("m", [i \in DOMAIN b |-> MountBytes(b[i])])
  PROVE  a = b
<1> DEFINE code == [p \in Mount |-> MountBytes(p)]
           T    == {MountBytes(p) : p \in Mount}
<1>1. code \in [Mount -> T]
  OBVIOUS
<1>2. \A p \in Mount : code[p] = MountBytes(p)
  OBVIOUS
<1>3. \A p, q \in Mount : MountBytes(p) = MountBytes(q) => p = q
  BY MountRead
<1>4. (\A i \in DOMAIN a : a[i] \in Mount) /\ (\A i \in DOMAIN b : b[i] \in Mount)
  OBVIOUS
<1> HIDE DEF code, T
<1>5. Reads(code, Mount)
  BY <1>2, <1>3 DEF Reads
<1>6. /\ Codes(a, code) = [i \in DOMAIN a |-> MountBytes(a[i])]
      /\ Codes(b, code) = [i \in DOMAIN b |-> MountBytes(b[i])]
  BY <1>2, <1>4 DEF Codes
<1>7. Numbered("m", Codes(a, code)) = Numbered("m", Codes(b, code))
  BY <1>6
<1> QED BY <1>1, <1>5, <1>7, CodesRead

\* A container's description: all that is in the encoding, and what it stands for.
SameSpec(o, p) ==
  /\ SameEntries(o.env, p.env, "name")
  /\ SameEntries(o.resources.requests, p.resources.requests, "name")
  /\ SameEntries(o.resources.limits, p.resources.limits, "name")
  /\ OrderedSpec(o) = OrderedSpec(p)

LEMMA SpecRead ==
  ASSUME NEW o \in OciRuntimeSpec, NEW p \in OciRuntimeSpec, SpecBytes(o) = SpecBytes(p)
  PROVE  SameSpec(o, p)
<1> DEFINE ports(s)  == Numbered("p", [i \in DOMAIN s.ports |-> PortBytes(s.ports[i])])
           mounts(s) == Numbered("m", [i \in DOMAIN s.mounts |-> MountBytes(s.mounts[i])])
           list(s)   == <<<<"command", Strings(s.command)>>, <<"args", Strings(s.args)>>,
                          <<"env", Named(s.env)>>, <<"ports", ports(s)>>,
                          <<"mounts", mounts(s)>>,
                          <<"capabilities_add", Strings(s.capabilities.add)>>,
                          <<"capabilities_drop", Strings(s.capabilities.drop)>>,
                          <<"security_context", SecurityBytes(s.security_context)>>,
                          <<"resources", ResourcesBytes(s.resources)>>>>
<1>1. list(o) = list(p)
  <2>1. SpecBytes(o) = Hash(list(o)) /\ SpecBytes(p) = Hash(list(p))
    BY DEF SpecBytes
  <2> HIDE DEF list
  <2> QED BY <2>1, HashOf
<1> HIDE DEF ports, mounts
<1>2. /\ Strings(o.command) = Strings(p.command) /\ Strings(o.args) = Strings(p.args)
      /\ Named(o.env) = Named(p.env)
      /\ ports(o) = ports(p) /\ mounts(o) = mounts(p)
      /\ Strings(o.capabilities.add) = Strings(p.capabilities.add)
      /\ Strings(o.capabilities.drop) = Strings(p.capabilities.drop)
      /\ SecurityBytes(o.security_context) = SecurityBytes(p.security_context)
      /\ ResourcesBytes(o.resources) = ResourcesBytes(p.resources)
  BY <1>1
<1> HIDE DEF list
<1>3. ASSUME NEW s \in OciRuntimeSpec
      PROVE  /\ s.command \in Seq(Texts) /\ s.args \in Seq(Texts) /\ s.env \in Seq(EnvVar)
             /\ s.ports \in Seq(Port) /\ s.mounts \in Seq(Mount)
             /\ s.capabilities \in Capabilities /\ s.security_context \in SecurityContext
             /\ s.resources \in Resources
             /\ DOMAIN s = {"command", "args", "env", "ports", "mounts", "capabilities",
                            "security_context", "resources"}
  BY DEF OciRuntimeSpec
<1>4. o.command = p.command /\ o.args = p.args
  BY <1>2, <1>3, NumberedRead DEF Strings
<1>5. o.ports = p.ports
  BY <1>2, <1>3, PortsRead DEF ports
<1>6. o.mounts = p.mounts
  BY <1>2, <1>3, MountsRead DEF mounts
<1>7. o.capabilities = p.capabilities
  <2>1. ASSUME NEW c \in Capabilities
        PROVE  /\ c.add \in Seq(Capability) /\ c.drop \in Seq(Capability)
               /\ c = [add |-> c.add, drop |-> c.drop]
    BY DEF Capabilities
  <2>2. o.capabilities.add = p.capabilities.add /\ o.capabilities.drop = p.capabilities.drop
    BY <1>2, <1>3, <2>1, NumberedRead DEF Strings
  <2> QED BY <1>3, <2>1, <2>2
<1>8. o.security_context = p.security_context
  BY <1>2, <1>3, SecurityRead
<1>9. SameEntries(o.env, p.env, "name")
  BY <1>2, <1>3, NamedSame
<1>10. /\ SameEntries(o.resources.requests, p.resources.requests, "name")
       /\ SameEntries(o.resources.limits, p.resources.limits, "name")
  <2>1. <<<<"requests", Named(o.resources.requests)>>, <<"limits", Named(o.resources.limits)>>>>
        = <<<<"requests", Named(p.resources.requests)>>, <<"limits", Named(p.resources.limits)>>>>
    BY <1>2, HashOf DEF ResourcesBytes
  <2>2. /\ Named(o.resources.requests) = Named(p.resources.requests)
        /\ Named(o.resources.limits) = Named(p.resources.limits)
    BY <2>1
  <2>3. ASSUME NEW r \in Resources
        PROVE  r.requests \in Seq(EnvVar) /\ r.limits \in Seq(EnvVar)
    BY DEF Resources
  <2> QED BY <1>3, <2>2, <2>3, NamedSame
<1>11. OrderedSpec(o) = OrderedSpec(p)
  <2>1. ASSUME NEW s \in OciRuntimeSpec
        PROVE  OrderedSpec(s) =
                 [l \in DOMAIN s |-> IF l = "env" \/ l = "resources" THEN <<>> ELSE s[l]]
    BY DEF OrderedSpec, OciRuntimeSpec
  <2>2. DOMAIN o = DOMAIN p
    BY <1>3
  <2>3. \A l \in DOMAIN o : l = "env" \/ l = "resources" \/ o[l] = p[l]
    BY <1>3, <1>4, <1>5, <1>6, <1>7, <1>8
  <2> QED BY <2>1, <2>2, <2>3
<1> QED BY <1>9, <1>10, <1>11 DEF SameSpec

\* Where the parts of a list are.
IsList(a, S) == a \in Seq(S)
At(list, n, part) == \A i \in 1..Len(part) : list[n + i] = part[i]
Halves(list, a, b, S) ==
  /\ IsList(list, S) /\ Len(list) = Len(a) + Len(b)
  /\ At(list, 0, a) /\ At(list, Len(a), b)

LEMMA CatAt ==
  ASSUME NEW S, NEW a, IsList(a, S), NEW b, IsList(b, S)
  PROVE  Halves(Cat(a, b), a, b, S)
<1> SUFFICES ASSUME a \in Seq(S), b \in Seq(S), NEW list, list = a \o b
             PROVE  Halves(list, a, b, S)
  BY DEF IsList, Cat
<1>1. list \in Seq(S) /\ Len(list) = Len(a) + Len(b)
  OBVIOUS
<1>2. \A i \in 1..Len(a) : list[0 + i] = a[i]
  OBVIOUS
<1>3. \A i \in 1..Len(b) : list[Len(a) + i] = b[i]
  OBVIOUS
<1> QED BY <1>1, <1>2, <1>3 DEF Halves, At, IsList

LEMMA AtWithin ==
  ASSUME NEW a, Len(a) \in Nat, NEW b, Len(b) \in Nat, NEW list, At(list, 0, a),
         NEW n \in Nat, n + Len(b) <= Len(a), At(a, n, b)
  PROVE  At(list, n, b)
<1> SUFFICES ASSUME NEW i \in 1..Len(b) PROVE list[n + i] = b[i]
  BY DEF At
<1>1. n + i \in 1..Len(a) /\ 0 + (n + i) = n + i
  OBVIOUS
<1>2. list[0 + (n + i)] = a[n + i]
  BY <1>1 DEF At
<1> QED BY <1>1, <1>2 DEF At

Quarters(list, a, b, c, e) ==
  /\ Len(list) = Len(a) + Len(b) + Len(c) + Len(e)
  /\ At(list, Len(a), b) /\ At(list, Len(a) + Len(b) + Len(c), e)

LEMMA FourParts ==
  ASSUME NEW S, NEW a, IsList(a, S), NEW b, IsList(b, S), NEW c, IsList(c, S),
         NEW e, IsList(e, S)
  PROVE  Quarters(Cat(Cat(Cat(a, b), c), e), a, b, c, e)
<1> DEFINE p    == Cat(a, b)
           q    == Cat(p, c)
           list == Cat(q, e)
<1>1. Halves(p, a, b, S)
  BY CatAt
<1>2. IsList(p, S) /\ Len(p) = Len(a) + Len(b) /\ At(p, Len(a), b)
  BY <1>1 DEF Halves
<1> HIDE DEF p
<1>3. Halves(q, p, c, S)
  BY <1>2, CatAt
<1>4. IsList(q, S) /\ Len(q) = Len(p) + Len(c) /\ At(q, 0, p)
  BY <1>3 DEF Halves
<1> HIDE DEF q
<1>5. Halves(list, q, e, S)
  BY <1>4, CatAt
<1>6. Len(list) = Len(q) + Len(e) /\ At(list, 0, q) /\ At(list, Len(q), e)
  BY <1>5 DEF Halves
<1> HIDE DEF list
<1>7. Len(a) \in Nat /\ Len(b) \in Nat /\ Len(c) \in Nat /\ Len(e) \in Nat
  BY DEF IsList
<1>8. /\ Len(q) = Len(a) + Len(b) + Len(c) /\ Len(p) = Len(a) + Len(b)
      /\ Len(p) \in Nat /\ Len(q) \in Nat
      /\ Len(a) + Len(b) <= Len(p) /\ Len(a) + Len(b) <= Len(q)
  BY <1>2, <1>4, <1>7
<1>9. At(q, Len(a), b)
  BY <1>2, <1>4, <1>7, <1>8, AtWithin
<1>10. At(list, Len(a), b)
  BY <1>6, <1>7, <1>8, <1>9, AtWithin
<1>11. Len(list) = Len(a) + Len(b) + Len(c) + Len(e)
  BY <1>6, <1>8
<1>12. At(list, Len(a) + Len(b) + Len(c), e)
  BY <1>6, <1>8
<1>13. Quarters(list, a, b, c, e)
  BY <1>10, <1>11, <1>12 DEF Quarters
<1> QED BY <1>13 DEF list, q, p

\* The records of a descriptor: each label with its field's encoding.
Label27 == DOMAIN CoreLabels = 1..27 /\ DOMAIN AnchorLabels = 1..3
LEMMA LabelCounts == Label27
  BY DEF Label27, CoreLabels, AnchorLabels

FlagLength(d) == IF d.independent_verification THEN 1 ELSE 0

RecordsOf(list, d, anchors) ==
  /\ Len(list) = 28 + FlagLength(d) + (IF anchors THEN 3 ELSE 0)
  /\ \A i \in 1..27 : list[1 + i] = <<CoreLabels[i], FieldBytes(d, CoreLabels[i])>>
  /\ anchors => \A i \in 1..3 : list[28 + FlagLength(d) + i] =
                                  <<AnchorLabels[i], FieldBytes(d, AnchorLabels[i])>>

LEMMA LabelledLength ==
  ASSUME NEW d, NEW labels, NEW n \in Nat, DOMAIN labels = 1..n, NEW S,
         \A i \in 1..n : <<labels[i], FieldBytes(d, labels[i])>> \in S
  PROVE  /\ Labelled(d, labels) \in Seq(S) /\ Len(Labelled(d, labels)) = n
         /\ \A i \in 1..n : Labelled(d, labels)[i] = <<labels[i], FieldBytes(d, labels[i])>>
<1> DEFINE x == [i \in 1..n |-> <<labels[i], FieldBytes(d, labels[i])>>]
<1>1. Labelled(d, labels) = x
  BY DEF Labelled
<1>2. \A i \in 1..n : x[i] = <<labels[i], FieldBytes(d, labels[i])>>
  OBVIOUS
<1>3. x \in [1..n -> S]
  OBVIOUS
<1>4. DOMAIN x = 1..n
  OBVIOUS
<1> HIDE DEF x
<1>5. x \in Seq(S)
  BY <1>3, ListIsSeq
<1>6. Len(x) = n
  BY <1>4, <1>5
<1> QED BY <1>1, <1>2, <1>5, <1>6

LEMMA RecordsAt ==
  ASSUME NEW d, NEW purpose, NEW anchors \in BOOLEAN
  PROVE  RecordsOf(DescriptorRecords(d, purpose, anchors), d, anchors)
<1> DEFINE h    == <<"purpose", purpose>>
           core == Labelled(d, CoreLabels)
           one  == <<"independent_verification", "true">>
           flag == IF d.independent_verification THEN <<one>> ELSE <<>>
           ends == IF anchors THEN Labelled(d, AnchorLabels) ELSE <<>>
           list == DescriptorRecords(d, purpose, anchors)
           S    == {h, one} \cup {<<CoreLabels[i], FieldBytes(d, CoreLabels[i])>> : i \in 1..27}
                     \cup {<<AnchorLabels[i], FieldBytes(d, AnchorLabels[i])>> : i \in 1..3}
<1>1. list = Cat(Cat(Cat(<<h>>, core), flag), ends)
  BY DEF DescriptorRecords, Cat
<1>2. h \in S /\ one \in S
  OBVIOUS
<1>3. /\ \A i \in 1..27 : <<CoreLabels[i], FieldBytes(d, CoreLabels[i])>> \in S
      /\ \A i \in 1..3 : <<AnchorLabels[i], FieldBytes(d, AnchorLabels[i])>> \in S
  OBVIOUS
<1> HIDE DEF S, h, one
<1>4. <<h>> \in Seq(S) /\ Len(<<h>>) = 1
  BY <1>2
<1>5. /\ core \in Seq(S) /\ Len(core) = 27
      /\ \A i \in 1..27 : core[i] = <<CoreLabels[i], FieldBytes(d, CoreLabels[i])>>
  <2>1. DOMAIN CoreLabels = 1..27 /\ 27 \in Nat
    BY LabelCounts DEF Label27
  <2> QED BY <1>3, <2>1, LabelledLength
<1>6. flag \in Seq(S) /\ Len(flag) = FlagLength(d)
  BY <1>2 DEF FlagLength
<1>7. /\ ends \in Seq(S) /\ Len(ends) = IF anchors THEN 3 ELSE 0
      /\ anchors => \A i \in 1..3 : ends[i] = <<AnchorLabels[i], FieldBytes(d, AnchorLabels[i])>>
  <2>1. DOMAIN AnchorLabels = 1..3 /\ 3 \in Nat
    BY LabelCounts DEF Label27
  <2>2. /\ Labelled(d, AnchorLabels) \in Seq(S) /\ Len(Labelled(d, AnchorLabels)) = 3
        /\ \A i \in 1..3 : Labelled(d, AnchorLabels)[i]
                             = <<AnchorLabels[i], FieldBytes(d, AnchorLabels[i])>>
    BY <1>3, <2>1, LabelledLength
  <2>3. <<>> \in Seq(S) /\ Len(<<>>) = 0
    OBVIOUS
  <2>4. CASE anchors
    <3>1. ends = Labelled(d, AnchorLabels)
      BY <2>4
    <3> HIDE DEF ends
    <3> QED BY <2>2, <2>4, <3>1
  <2>5. CASE ~anchors
    <3>1. ends = <<>>
      BY <2>5
    <3> HIDE DEF ends
    <3> QED BY <2>3, <2>5, <3>1
  <2> QED BY <2>4, <2>5
<1> HIDE DEF core, flag, ends, list
<1>8. Quarters(list, <<h>>, core, flag, ends)
  <2>1. IsList(<<h>>, S) /\ IsList(core, S) /\ IsList(flag, S) /\ IsList(ends, S)
    BY <1>4, <1>5, <1>6, <1>7 DEF IsList
  <2>2. Quarters(Cat(Cat(Cat(<<h>>, core), flag), ends), <<h>>, core, flag, ends)
    BY <2>1, FourParts
  <2> QED BY <1>1, <2>2
<1>9. FlagLength(d) \in 0..1
  BY DEF FlagLength
<1>10. Len(list) = 28 + FlagLength(d) + (IF anchors THEN 3 ELSE 0)
  BY <1>4, <1>5, <1>6, <1>7, <1>8, <1>9 DEF Quarters
<1>11. \A i \in 1..27 : list[1 + i] = <<CoreLabels[i], FieldBytes(d, CoreLabels[i])>>
  BY <1>4, <1>5, <1>8 DEF At, Quarters
<1>12. At(list, 28 + FlagLength(d), ends)
  BY <1>4, <1>5, <1>6, <1>8, <1>9 DEF Quarters
<1>13. anchors => \A i \in 1..3 : list[28 + FlagLength(d) + i] =
                                   <<AnchorLabels[i], FieldBytes(d, AnchorLabels[i])>>
  BY <1>7, <1>12 DEF At
<1>14. RecordsOf(list, d, anchors)
  BY <1>10, <1>11, <1>13 DEF RecordsOf
<1> QED BY <1>14 DEF list

\* What the records say, read back: the core's fields with the flag, and the anchors.
SameCore(d, e) ==
  /\ \A l \in Range(CoreLabels) : FieldBytes(d, l) = FieldBytes(e, l)
  /\ d.independent_verification = e.independent_verification
SameAnchors(d, e) == \A l \in Range(AnchorLabels) : d[l] = e[l]

LEMMA RecordsRead ==
  ASSUME NEW d, NEW e, NEW purpose, NEW anchors \in BOOLEAN,
         d.independent_verification \in BOOLEAN, e.independent_verification \in BOOLEAN,
         DescriptorRecords(d, purpose, anchors) = DescriptorRecords(e, purpose, anchors)
  PROVE  SameCore(d, e) /\ (anchors => SameAnchors(d, e))
<1> DEFINE list == DescriptorRecords(d, purpose, anchors)
<1>1. RecordsOf(list, d, anchors) /\ RecordsOf(list, e, anchors)
  BY RecordsAt
<1> HIDE DEF list
<1>2. FlagLength(d) = FlagLength(e)
  <2>1. FlagLength(d) \in 0..1 /\ FlagLength(e) \in 0..1
    BY DEF FlagLength
  <2>2. 28 + FlagLength(d) + (IF anchors THEN 3 ELSE 0)
          = 28 + FlagLength(e) + (IF anchors THEN 3 ELSE 0)
    BY <1>1 DEF RecordsOf
  <2> QED BY <2>1, <2>2
<1>3. d.independent_verification = e.independent_verification
  BY <1>2 DEF FlagLength
<1>4. ASSUME NEW l \in Range(CoreLabels) PROVE FieldBytes(d, l) = FieldBytes(e, l)
  <2>1. PICK i \in 1..27 : CoreLabels[i] = l
    BY LabelCounts DEF Range, Label27
  <2>2. list[1 + i] = <<l, FieldBytes(d, l)>> /\ list[1 + i] = <<l, FieldBytes(e, l)>>
    BY <1>1, <2>1 DEF RecordsOf
  <2>3. <<l, FieldBytes(d, l)>> = <<l, FieldBytes(e, l)>>
    BY <2>2
  <2> QED BY <2>3
<1>5. ASSUME anchors, NEW l \in Range(AnchorLabels) PROVE d[l] = e[l]
  <2>1. PICK i \in 1..3 : AnchorLabels[i] = l
    BY LabelCounts DEF Range, Label27
  <2>2. /\ list[28 + FlagLength(d) + i] = <<l, FieldBytes(d, l)>>
        /\ list[28 + FlagLength(e) + i] = <<l, FieldBytes(e, l)>>
    BY <1>1, <1>5, <2>1 DEF RecordsOf
  <2>3. <<l, FieldBytes(d, l)>> = <<l, FieldBytes(e, l)>>
    BY <1>2, <2>2
  <2>4. FieldBytes(d, l) = FieldBytes(e, l)
    BY <2>3
  <2>5. l \in {"expected_agent_policy_hash", "expected_cc_init_data_hash",
               "expected_kbs_policy_hash"}
    <3>1. /\ AnchorLabels[1] = "expected_agent_policy_hash"
          /\ AnchorLabels[2] = "expected_cc_init_data_hash"
          /\ AnchorLabels[3] = "expected_kbs_policy_hash"
      BY DEF AnchorLabels
    <3>2. i = 1 \/ i = 2 \/ i = 3
      OBVIOUS
    <3> QED BY <2>1, <3>1, <3>2
  <2> QED BY <2>4, <2>5 DEF FieldBytes
<1> QED BY <1>3, <1>4, <1>5 DEF SameCore, SameAnchors

\* The fields in their own right.
PlainLabels ==
  {"schema_version", "org_id", "org_slug", "app_id", "app_name", "deploy_id", "created_at",
   "nonce", "app_domain", "tee_domain", "namespace", "service_account", "identity_hash",
   "image_ref", "image_digest", "api_signing_pubkey", "expected_firmware_measurement",
   "expected_runtime_class", "kbs_resource_path", "unlock_mode", "policy_template_id",
   "policy_template_sha256", "platform_release_version"}
ListLabels == {"custom_domains", "signer_identity", "oci_runtime_spec", "sidecars"}

LEMMA CoreLabelSet == Range(CoreLabels) = PlainLabels \cup ListLabels
<1>1. Range(CoreLabels) \subseteq PlainLabels \cup ListLabels
  BY LabelCounts DEF Range, Label27, CoreLabels, PlainLabels, ListLabels
<1>2. PlainLabels \cup ListLabels \subseteq Range(CoreLabels)
  BY LabelCounts DEF Range, Label27, CoreLabels, PlainLabels, ListLabels
<1> QED BY <1>1, <1>2

LEMMA PlainField ==
  ASSUME NEW d, NEW l \in PlainLabels
  PROVE  FieldBytes(d, l) = d[l]
<1>1. l \notin ListLabels
  BY DEF PlainLabels, ListLabels
<1> QED BY <1>1 DEF FieldBytes, ListLabels

LEMMA FieldsSame ==
  ASSUME NEW d, IsDescriptor(d), NEW e, IsDescriptor(e), SameCore(d, e), SameAnchors(d, e)
  PROVE  SameDescriptor(d, e)
<1>1. \A l \in PlainLabels \cup ListLabels : FieldBytes(d, l) = FieldBytes(e, l)
  BY CoreLabelSet DEF SameCore
<1>2. \A l \in PlainLabels : d[l] = e[l]
  <2> TAKE l \in PlainLabels
  <2>1. FieldBytes(d, l) = d[l] /\ FieldBytes(e, l) = e[l]
    BY PlainField
  <2> QED BY <1>1, <2>1
<1>3. /\ Strings(d.custom_domains) = Strings(e.custom_domains)
      /\ SignerBytes(d.signer_identity) = SignerBytes(e.signer_identity)
      /\ SpecBytes(d.oci_runtime_spec) = SpecBytes(e.oci_runtime_spec)
      /\ SidecarBytes(d.sidecars) = SidecarBytes(e.sidecars)
  <2>1. ASSUME NEW x
        PROVE  /\ FieldBytes(x, "custom_domains") = Strings(x.custom_domains)
               /\ FieldBytes(x, "signer_identity") = SignerBytes(x.signer_identity)
               /\ FieldBytes(x, "oci_runtime_spec") = SpecBytes(x.oci_runtime_spec)
               /\ FieldBytes(x, "sidecars") = SidecarBytes(x.sidecars)
    BY DEF FieldBytes
  <2>2. /\ FieldBytes(d, "custom_domains") = FieldBytes(e, "custom_domains")
        /\ FieldBytes(d, "signer_identity") = FieldBytes(e, "signer_identity")
        /\ FieldBytes(d, "oci_runtime_spec") = FieldBytes(e, "oci_runtime_spec")
        /\ FieldBytes(d, "sidecars") = FieldBytes(e, "sidecars")
    BY <1>1 DEF ListLabels
  <2> QED BY <2>1, <2>2
<1>4. ASSUME NEW x, IsDescriptor(x)
      PROVE  /\ x.custom_domains \in Seq(Texts)
             /\ x.signer_identity \in [subject : Texts, issuer : Texts]
             /\ x.oci_runtime_spec \in OciRuntimeSpec
             /\ x.sidecars \in [attestation_proxy_digest : Texts, caddy_digest : Texts]
             /\ x = [l \in Range(CoreLabels) \cup Range(AnchorLabels)
                           \cup {"independent_verification"} |-> x[l]]
  BY <1>4 DEF IsDescriptor
<1>5. d.custom_domains = e.custom_domains
  BY <1>3, <1>4, NumberedRead DEF Strings
<1>6. d.signer_identity = e.signer_identity
  <2>1. <<<<"subject", d.signer_identity.subject>>, <<"issuer", d.signer_identity.issuer>>>>
        = <<<<"subject", e.signer_identity.subject>>, <<"issuer", e.signer_identity.issuer>>>>
    BY <1>3, HashOf DEF SignerBytes
  <2>2. ASSUME NEW s \in [subject : Texts, issuer : Texts]
        PROVE  s = [subject |-> s.subject, issuer |-> s.issuer]
    OBVIOUS
  <2>3. /\ d.signer_identity.subject = e.signer_identity.subject
        /\ d.signer_identity.issuer = e.signer_identity.issuer
    BY <2>1
  <2> QED BY <1>4, <2>2, <2>3
<1>7. d.sidecars = e.sidecars
  <2>1. <<<<"attestation_proxy", d.sidecars.attestation_proxy_digest>>,
          <<"caddy", d.sidecars.caddy_digest>>>>
        = <<<<"attestation_proxy", e.sidecars.attestation_proxy_digest>>,
            <<"caddy", e.sidecars.caddy_digest>>>>
    BY <1>3, HashOf DEF SidecarBytes
  <2>2. ASSUME NEW s \in [attestation_proxy_digest : Texts, caddy_digest : Texts]
        PROVE  s = [attestation_proxy_digest |-> s.attestation_proxy_digest,
                    caddy_digest |-> s.caddy_digest]
    OBVIOUS
  <2>3. /\ d.sidecars.attestation_proxy_digest = e.sidecars.attestation_proxy_digest
        /\ d.sidecars.caddy_digest = e.sidecars.caddy_digest
    BY <2>1
  <2> QED BY <1>4, <2>2, <2>3
<1>8. SameSpec(d.oci_runtime_spec, e.oci_runtime_spec)
  BY <1>3, <1>4, SpecRead
<1>9. Ordered(d) = Ordered(e)
  <2> DEFINE L == Range(CoreLabels) \cup Range(AnchorLabels) \cup {"independent_verification"}
  <2>1. \A l \in L : l = "oci_runtime_spec" \/ d[l] = e[l]
    <3>1. \A l \in ListLabels : l = "oci_runtime_spec" \/ d[l] = e[l]
      BY <1>5, <1>6, <1>7 DEF ListLabels
    <3>2. d["independent_verification"] = e["independent_verification"]
      BY DEF SameCore
    <3> QED BY <1>2, <3>1, <3>2, CoreLabelSet DEF SameAnchors
  <2>2. ASSUME NEW x, x = [l \in L |-> x[l]]
        PROVE  Ordered(x) = [l \in L |-> IF l = "oci_runtime_spec"
                                           THEN OrderedSpec(x.oci_runtime_spec) ELSE x[l]]
    <3> HIDE DEF L
    <3> QED BY <2>2 DEF Ordered
  <2>3. d = [l \in L |-> d[l]] /\ e = [l \in L |-> e[l]]
    BY <1>4
  <2>4. OrderedSpec(d.oci_runtime_spec) = OrderedSpec(e.oci_runtime_spec)
    BY <1>8 DEF SameSpec
  <2> HIDE DEF L
  <2>5. /\ Ordered(d) = [l \in L |-> IF l = "oci_runtime_spec"
                                       THEN OrderedSpec(d.oci_runtime_spec) ELSE d[l]]
        /\ Ordered(e) = [l \in L |-> IF l = "oci_runtime_spec"
                                       THEN OrderedSpec(e.oci_runtime_spec) ELSE e[l]]
    BY <2>2, <2>3
  <2> QED BY <2>1, <2>4, <2>5
<1> QED BY <1>8, <1>9 DEF SameDescriptor, SameSpec

\* A descriptor's signed bytes say all there is in it.
LEMMA DescriptorBytesRead ==
  ASSUME NEW d, IsDescriptor(d), NEW e, IsDescriptor(e), DescriptorBytes(d) = DescriptorBytes(e)
  PROVE  SameDescriptor(d, e)
<1>1. d.independent_verification \in BOOLEAN /\ e.independent_verification \in BOOLEAN
  BY DEF IsDescriptor
<1>2. DescriptorRecords(d, "enclava-deployment-descriptor-v1", TRUE)
        = DescriptorRecords(e, "enclava-deployment-descriptor-v1", TRUE)
  BY DEF DescriptorBytes
<1>3. SameCore(d, e) /\ SameAnchors(d, e)
  BY <1>1, <1>2, RecordsRead
<1> QED BY <1>3, FieldsSame

-----------------------------------------------------------------------------
\* What is accepted on a signature was signed, as a statement of its kind and with the same
\* meaning: all its fields, and its lists but for the order in which nothing is said.
THEOREM AcceptedCorrect == Spec => []AcceptedAsSigned
<1>1. IInv => AcceptedAsSigned
  <2> SUFFICES ASSUME IInv, NEW s \in accepted
               PROVE  \E t \in signed : SameMeaning(s, t)
    BY DEF AcceptedAsSigned
  <2>1. PICK t \in signed : SignedBytes(s) = SignedBytes(t)
    BY DEF IInv, AcceptedKnown
  <2>2. s \in Statements /\ s.kind \in Kinds /\ t.kind \in Kinds /\ s.kind # "artifact"
    BY StatementKinds DEF IInv, AcceptedKnown, SignedKnown, Kinds
  <2>3. t.kind = s.kind
    BY <2>1, <2>2, KindsApart
  <2>4. t \in Statements
    BY <2>2, <2>3 DEF IInv, SignedKnown
  <2>5. ASSUME NEW u \in Statements
        PROVE  /\ u.kind = "descriptor" => u.body \in Descriptors
               /\ u.kind = "keyring" => u.body \in Keyrings
               /\ u.kind = "rotation" => u.body \in Rotations
    BY DEF Statements, Statement
  <2>6. CASE s.kind = "descriptor"
    <3>1. DescriptorBytes(s.body) = DescriptorBytes(t.body)
      BY <2>1, <2>3, <2>6 DEF SignedBytes
    <3>2. IsDescriptor(s.body) /\ IsDescriptor(t.body)
      BY <2>2, <2>3, <2>4, <2>5, <2>6, DescriptorsAssumption
    <3>3. SameDescriptor(s.body, t.body)
      BY <3>1, <3>2, DescriptorBytesRead
    <3> QED BY <2>3, <2>6, <3>3 DEF SameMeaning
  <2>7. CASE s.kind = "keyring"
    <3>1. KeyringBytes(s.body) = KeyringBytes(t.body)
      BY <2>1, <2>3, <2>7 DEF SignedBytes
    <3>2. s.body \in OrgKeyring /\ t.body \in OrgKeyring
      BY <2>2, <2>3, <2>4, <2>5, <2>7, KeyringsAssumption
    <3>3. SameKeyring(s.body, t.body)
      BY <3>1, <3>2, KeyringBytesRead
    <3> QED BY <2>3, <2>7, <3>3 DEF SameMeaning
  <2>8. CASE s.kind = "rotation"
    <3>1. RecoveryBytes(s.body) = RecoveryBytes(t.body)
      BY <2>1, <2>3, <2>8 DEF SignedBytes
    <3>2. s.body \in RotationDirective /\ t.body \in RotationDirective
      BY <2>2, <2>3, <2>4, <2>5, <2>8, RotationsAssumption
    <3>3. s.body = t.body
      BY <3>1, <3>2, RotationBytesRead
    <3> QED BY <2>3, <2>8, <3>3 DEF SameMeaning
  <2> QED BY <2>2, <2>6, <2>7, <2>8 DEF Kinds
<1> QED BY Invariance, <1>1, PTL

-----------------------------------------------------------------------------
(* The init-data hash is read back from the rendered policy.               *)

\* A value stands in a text, after what stands before it.
Holds(t, x, v) == \E y \in Texts : t = Cat(Cat(x, v), y)

LEMMA CatText ==
  ASSUME NEW a \in Texts, NEW b \in Texts
  PROVE  Cat(a, b) \in Texts
  BY DEF Cat, Texts

LEMMA HoldsOne ==
  ASSUME NEW t, NEW x \in Texts, NEW v \in Texts, NEW w \in Texts,
         Len(v) = Len(w), Holds(t, x, v), Holds(t, x, w)
  PROVE  v = w
<1>1. ASSUME NEW u \in Texts, Holds(t, x, u) PROVE At(t, Len(x), u)
  <2>1. PICK y \in Texts : t = Cat(Cat(x, u), y)
    BY <1>1 DEF Holds
  <2> DEFINE z == Cat(x, u)
  <2>2. IsList(x, Atom) /\ IsList(u, Atom) /\ IsList(y, Atom) /\ IsList(z, Atom)
    BY CatText DEF IsList, Texts
  <2>3. Halves(z, x, u, Atom)
    BY <2>2, CatAt
  <2> HIDE DEF z
  <2>4. Halves(Cat(z, y), z, y, Atom)
    BY <2>2, CatAt
  <2>5. t = Cat(z, y)
    BY <2>1 DEF z
  <2>6. At(t, 0, z) /\ At(z, Len(x), u) /\ Len(z) = Len(x) + Len(u)
    BY <2>3, <2>4, <2>5 DEF Halves
  <2>7. Len(x) \in Nat /\ Len(u) \in Nat /\ Len(z) \in Nat
    BY <2>2 DEF IsList
  <2>8. Len(x) + Len(u) <= Len(z)
    BY <2>6, <2>7
  <2> QED BY <2>6, <2>7, <2>8, AtWithin
<1>2. \A i \in 1..Len(v) : v[i] = w[i]
  <2>1. At(t, Len(x), v) /\ At(t, Len(x), w)
    BY <1>1
  <2> QED BY <2>1 DEF At
<1>3. v \in Seq(Atom) /\ w \in Seq(Atom)
  BY DEF Texts
<1>4. v = [i \in 1..Len(v) |-> v[i]] /\ w = [i \in 1..Len(v) |-> w[i]]
  BY <1>3
<1> QED BY <1>2, <1>4

\* A text of three parts is replaced part by part.
LEMMA SubstThree ==
  ASSUME NEW f, Maps(f, Atom, Atom), NEW x \in Texts, NEW v \in Texts, NEW y \in Texts
  PROVE  /\ Subst(Cat(Cat(x, v), y), f) = Cat(Cat(Subst(x, f), Subst(v, f)), Subst(y, f))
         /\ Subst(x, f) \in Texts /\ Subst(y, f) \in Texts
<1> SUFFICES ASSUME f \in [Atom -> Seq(Atom)]
             PROVE  /\ Subst(Cat(Cat(x, v), y), f)
                         = Cat(Cat(Subst(x, f), Subst(v, f)), Subst(y, f))
                    /\ Subst(x, f) \in Texts /\ Subst(y, f) \in Texts
  BY DEF Maps
<1> DEFINE z == Cat(x, v)
<1>1. x \in Seq(Atom) /\ v \in Seq(Atom) /\ y \in Seq(Atom) /\ z \in Seq(Atom)
  BY CatText DEF Texts
<1>2. Subst(z, f) = Cat(Subst(x, f), Subst(v, f))
  BY <1>1, SubstConcat
<1> HIDE DEF z
<1>3. Subst(Cat(z, y), f) = Cat(Subst(z, f), Subst(y, f))
  BY <1>1, SubstConcat
<1>4. Subst(x, f) \in Seq(Atom) /\ Subst(y, f) \in Seq(Atom)
  BY <1>1, SubstType
<1> QED BY <1>2, <1>3, <1>4 DEF z, Texts

\* Without the slot, a value stays where it is when the slot is replaced.
LEMMA HoldsStep ==
  ASSUME NEW t \in Texts, NEW x \in Texts, NEW v \in Texts, Holds(t, x, v),
         NEW slot, NEW value \in Texts, \A i \in DOMAIN v : v[i] # slot
  PROVE  /\ Subst(x, SlotOnly(slot, value)) \in Texts
         /\ Holds(Replaced(t, slot, value), Subst(x, SlotOnly(slot, value)), v)
<1> DEFINE f == SlotOnly(slot, value)
<1>1. PICK y \in Texts : t = Cat(Cat(x, v), y)
  BY DEF Holds
<1>2. Replaced(t, slot, value) = Subst(t, f) /\ f \in [Atom -> Texts]
  BY ReplacedSubst
<1>3. \A i \in DOMAIN v : f[v[i]] = <<v[i]>>
  BY DEF SlotOnly, Texts
<1>4. Maps(f, Atom, Atom)
  BY <1>2 DEF Maps, Texts
<1> HIDE DEF f
<1>5. /\ Subst(Cat(Cat(x, v), y), f) = Cat(Cat(Subst(x, f), Subst(v, f)), Subst(y, f))
      /\ Subst(x, f) \in Texts /\ Subst(y, f) \in Texts
  BY <1>4, SubstThree
<1>6. Subst(v, f) = v
  <2>1. v \in Seq(Atom)
    BY DEF Texts
  <2> QED BY <1>3, <2>1, SubstSelf
<1>7. Replaced(t, slot, value) = Cat(Cat(Subst(x, f), v), Subst(y, f))
  BY <1>1, <1>2, <1>5, <1>6
<1>8. Holds(Replaced(t, slot, value), Subst(x, f), v)
  BY <1>5, <1>7 DEF Holds
<1> QED BY <1>5, <1>8 DEF f

\* The template up to its first init-data slot.
LEMMA TemplateParts ==
  \E a, b \in Texts : /\ Template = Cat(Cat(a, <<Slots[1]>>), b)
                      /\ \A i \in DOMAIN a : a[i] # Slots[1]
<1> DEFINE n == Len(Template)
           S == {i \in 1..n : Template[i] = Slots[1]}
<1>1. Template \in Seq(Atom) /\ n \in Nat /\ DOMAIN Template = 1..n
  BY TemplateAssumption DEF Texts
<1>2. S # {} /\ S \in SUBSET Nat
  <2>1. Slots[1] = "init_data_hash"
    BY DEF Slots
  <2> QED BY <1>1, <2>1, TemplateAssumption DEF Range
<1>3. PICK k \in S : \A i \in S : k <= i
  BY <1>2, LeastElement
<1>4. k \in 1..n /\ Template[k] = Slots[1]
  OBVIOUS
<1> DEFINE a == [i \in 1..(k - 1) |-> Template[i]]
           b == [i \in 1..(n - k) |-> Template[k + i]]
<1>5. a \in Texts /\ b \in Texts /\ Len(a) = k - 1 /\ Len(b) = n - k
  <2>1. \A i \in 1..(k - 1) : Template[i] \in Atom
    BY <1>1, <1>4
  <2>2. \A i \in 1..(n - k) : Template[k + i] \in Atom
    BY <1>1, <1>4
  <2>3. k - 1 \in Nat /\ n - k \in Nat
    BY <1>1, <1>4
  <2>4. a \in [1..(k - 1) -> Atom] /\ b \in [1..(n - k) -> Atom]
    BY <2>1, <2>2
  <2>5. DOMAIN a = 1..(k - 1) /\ DOMAIN b = 1..(n - k)
    OBVIOUS
  <2> HIDE DEF a, b
  <2>6. a \in Seq(Atom) /\ b \in Seq(Atom)
    BY <2>3, <2>4, ListIsSeq
  <2> QED BY <2>3, <2>5, <2>6 DEF Texts
<1>6. \A i \in DOMAIN a : a[i] # Slots[1]
  <2>1. \A i \in 1..(k - 1) : i \in 1..n /\ ~(k <= i)
    BY <1>1, <1>4
  <2>2. \A i \in 1..(k - 1) : Template[i] # Slots[1]
    BY <1>3, <2>1
  <2> QED BY <2>2
<1>7. /\ \A i \in 1..(k - 1) : a[i] = Template[i]
      /\ \A i \in 1..(n - k) : b[i] = Template[k + i]
  OBVIOUS
<1> HIDE DEF a, b, S, n
<1>8. Template = Cat(Cat(a, <<Slots[1]>>), b)
  <2> DEFINE c == Cat(a, <<Slots[1]>>)
             t == Cat(c, b)
  <2>1. /\ IsList(a, Atom) /\ IsList(<<Slots[1]>>, Atom) /\ IsList(b, Atom)
        /\ Len(<<Slots[1]>>) = 1 /\ <<Slots[1]>>[1] = Slots[1]
    BY <1>5, EightSlots DEF IsList, Texts
  <2>2. Halves(c, a, <<Slots[1]>>, Atom)
    BY <2>1, CatAt
  <2>3. IsList(c, Atom) /\ Len(c) = k
    BY <1>1, <1>4, <1>5, <2>1, <2>2 DEF Halves
  <2>4. (\A i \in 1..(k - 1) : c[i] = a[i]) /\ c[k] = Slots[1]
    <3>1. At(c, 0, a) /\ At(c, k - 1, <<Slots[1]>>)
      BY <1>5, <2>2 DEF Halves
    <3>2. \A i \in 1..(k - 1) : c[0 + i] = a[i] /\ 0 + i = i
      BY <1>5, <3>1 DEF At
    <3>3. c[(k - 1) + 1] = Slots[1] /\ (k - 1) + 1 = k
      BY <1>4, <2>1, <3>1 DEF At
    <3> QED BY <3>2, <3>3
  <2> HIDE DEF c
  <2>5. Halves(t, c, b, Atom)
    BY <2>1, <2>3, CatAt
  <2>6. /\ IsList(t, Atom) /\ Len(t) = n
        /\ \A i \in 1..k : t[0 + i] = c[i] /\ 0 + i = i
        /\ \A i \in 1..(n - k) : t[k + i] = b[i]
    BY <1>1, <1>4, <1>5, <2>3, <2>5 DEF Halves, At
  <2> HIDE DEF t
  <2>7. ASSUME NEW i \in 1..n PROVE t[i] = Template[i]
    <3>1. CASE i < k
      <4>1. i \in 1..(k - 1) /\ i \in 1..k
        BY <3>1, <1>1, <1>4
      <4> QED BY <1>7, <2>4, <2>6, <4>1
    <3>2. CASE i = k
      <4>1. i \in 1..k
        BY <3>2, <1>1, <1>4
      <4> QED BY <1>4, <2>4, <2>6, <3>2, <4>1
    <3>3. CASE i > k
      <4>1. i - k \in 1..(n - k) /\ k + (i - k) = i
        BY <3>3, <1>1, <1>4
      <4>2. t[k + (i - k)] = b[i - k] /\ b[i - k] = Template[k + (i - k)]
        BY <1>7, <2>6, <4>1
      <4> QED BY <4>1, <4>2
    <3> QED BY <3>1, <3>2, <3>3, <1>1, <1>4
  <2>8. t = [i \in 1..n |-> t[i]] /\ Template = [i \in 1..n |-> Template[i]]
    <3>1. t \in Seq(Atom) /\ DOMAIN t = 1..Len(t)
      BY <2>6 DEF IsList
    <3> QED BY <1>1, <2>6, <3>1
  <2>9. t = Template
    BY <2>7, <2>8
  <2> QED BY <2>9 DEF t, c
<1> QED BY <1>5, <1>6, <1>8

InitData(d) == d.expected_cc_init_data_hash

\* After the first replacement the hash stands where the slot stood, in either text.
LEMMA InitDataStands ==
  ASSUME NEW d \in Descriptors, NEW c, Renderings(c, d, 8), NEW a \in Texts, NEW b \in Texts,
         Template = Cat(Cat(a, <<Slots[1]>>), b), \A i \in DOMAIN a : a[i] # Slots[1]
  PROVE  Holds(c[1], a, InitData(d))
<1> DEFINE v == InitData(d)
           f == SlotOnly(Slots[1], v)
<1>1. Slots[1] = "init_data_hash" /\ Slots[1] \in Atom
  BY EightSlots DEF Slots
<1>2. SlotValue(d, Slots[1]) = v
  BY <1>1 DEF SlotValue, InitData
<1>3. v \in Texts /\ Template \in Texts /\ <<Slots[1]>> \in Texts
  BY <1>1, <1>2, DescriptorSlots, TemplateAssumption DEF SlotTexts, Texts
<1>4. c[1] = Replaced(Template, Slots[1], v)
  <2>1. 1 \in 1..8 /\ 1 - 1 = 0
    OBVIOUS
  <2>2. c[1] = Replaced(c[1 - 1], Slots[1], SlotValue(d, Slots[1])) /\ c[0] = Template
    BY <2>1 DEF Renderings
  <2> QED BY <1>2, <2>1, <2>2
<1>5. Replaced(Template, Slots[1], v) = Subst(Template, f) /\ f \in [Atom -> Texts]
  BY <1>3, ReplacedSubst
<1>6. (\A i \in DOMAIN a : f[a[i]] = <<a[i]>>) /\ f[Slots[1]] = v
  BY <1>1 DEF SlotOnly, Texts
<1> HIDE DEF f, v
<1>7. f \in [Atom -> Seq(Atom)] /\ Maps(f, Atom, Atom)
  BY <1>5 DEF Maps, Texts
<1>8. /\ Subst(Cat(Cat(a, <<Slots[1]>>), b), f)
           = Cat(Cat(Subst(a, f), Subst(<<Slots[1]>>, f)), Subst(b, f))
      /\ Subst(b, f) \in Texts
  BY <1>3, <1>7, SubstThree
<1>9. Subst(a, f) = a
  <2>1. a \in Seq(Atom)
    BY DEF Texts
  <2> QED BY <1>6, <2>1, SubstSelf
<1>10. Subst(<<Slots[1]>>, f) = v
  BY <1>1, <1>6, <1>7, SubstOne
<1>11. c[1] = Cat(Cat(a, v), Subst(b, f))
  BY <1>4, <1>5, <1>8, <1>9, <1>10
<1> QED BY <1>8, <1>11 DEF Holds, v

\* Of two descriptors that agree in the other slots, the hashes agree when the rendered
\* policies do.
LEMMA InitDataRead ==
  ASSUME NEW d \in Descriptors, NEW e \in Descriptors, Rendered(d) = Rendered(e),
         \A n \in 2..8 : SlotValue(d, Slots[n]) = SlotValue(e, Slots[n])
  PROVE  InitData(d) = InitData(e)
<1>1. PICK c : Renderings(c, d, 8) /\ Rendered(d) = c[8]
  BY RenderedLast
<1>2. PICK g : Renderings(g, e, 8) /\ Rendered(e) = g[8]
  BY RenderedLast
<1>3. SlotTexts(d) /\ SlotTexts(e)
  BY DescriptorSlots
<1>4. (\A n \in 0..8 : c[n] \in Texts) /\ (\A n \in 0..8 : g[n] \in Texts)
  BY <1>1, <1>2, <1>3, RenderingsText
<1> DEFINE v == InitData(d)
           w == InitData(e)
<1>5. v \in Texts /\ w \in Texts
  <2>1. Slots[1] = "init_data_hash"
    BY DEF Slots
  <2>2. SlotValue(d, Slots[1]) = v /\ SlotValue(e, Slots[1]) = w
    BY <2>1 DEF SlotValue, InitData
  <2> QED BY <1>3, <2>2 DEF SlotTexts
<1>6. Len(v) = Len(w) /\ Range(v) \cap Range(Slots) = {} /\ Range(w) \cap Range(Slots) = {}
  BY InitDataAssumption DEF InitData
<1>7. \A n \in 1..8 : (\A i \in DOMAIN v : v[i] # Slots[n]) /\ (\A i \in DOMAIN w : w[i] # Slots[n])
  <2>1. \A n \in 1..8 : Slots[n] \in Range(Slots)
    BY EightSlots DEF Range
  <2>2. \A i \in DOMAIN v : v[i] \in Range(v)
    BY DEF Range
  <2>3. \A i \in DOMAIN w : w[i] \in Range(w)
    BY DEF Range
  <2> HIDE DEF v, w
  <2> QED BY <1>6, <2>1, <2>2, <2>3
<1> HIDE DEF v, w
<1> DEFINE Both(n) == \E x \in Texts : Holds(c[n], x, v) /\ Holds(g[n], x, w)
           S == {n \in Nat : n + 1 <= 8 => Both(n + 1)}
<1>8. 0 \in S
  <2>1. PICK a, b \in Texts : /\ Template = Cat(Cat(a, <<Slots[1]>>), b)
                              /\ \A i \in DOMAIN a : a[i] # Slots[1]
    BY TemplateParts
  <2>2. Holds(c[1], a, v) /\ Holds(g[1], a, w)
    BY <1>1, <1>2, <2>1, InitDataStands DEF v, w
  <2>3. Both(1) /\ 0 + 1 = 1
    BY <2>2
  <2> QED BY <2>3
<1>9. ASSUME NEW n \in Nat, n \in S PROVE n + 1 \in S
  <2> DEFINE k == n + 1
             m == n + 2
  <2> SUFFICES ASSUME m <= 8 PROVE Both(m)
    <3>1. (n + 1) + 1 = m
      OBVIOUS
    <3> HIDE DEF Both, m
    <3> QED BY <3>1
  <2>1. /\ m \in 2..8 /\ m \in 1..8 /\ m - 1 = k /\ k \in 0..8 /\ k <= 8
    OBVIOUS
  <2>2. Both(k)
    <3> HIDE DEF Both
    <3> QED BY <1>9, <2>1
  <2>3. PICK x \in Texts : Holds(c[k], x, v) /\ Holds(g[k], x, w)
    BY <2>2
  <2> DEFINE u == SlotValue(d, Slots[m])
  <2>4. u \in Texts /\ u = SlotValue(e, Slots[m])
    BY <1>3, <2>1 DEF SlotTexts
  <2>5. c[m] = Replaced(c[k], Slots[m], u) /\ g[m] = Replaced(g[k], Slots[m], u)
    BY <1>1, <1>2, <2>1, <2>4 DEF Renderings
  <2>6. c[k] \in Texts /\ g[k] \in Texts
    BY <1>4, <2>1
  <2>7. (\A i \in DOMAIN v : v[i] # Slots[m]) /\ (\A i \in DOMAIN w : w[i] # Slots[m])
    BY <1>7, <2>1
  <2> DEFINE z == Subst(x, SlotOnly(Slots[m], u))
  <2> HIDE DEF Both, S, u, k, m
  <2>8. z \in Texts /\ Holds(Replaced(c[k], Slots[m], u), z, v)
    BY <1>5, <2>3, <2>4, <2>6, <2>7, HoldsStep
  <2>9. Holds(Replaced(g[k], Slots[m], u), z, w)
    BY <1>5, <2>3, <2>4, <2>6, <2>7, HoldsStep
  <2> HIDE DEF z
  <2>10. Holds(c[m], z, v) /\ Holds(g[m], z, w) /\ z \in Texts
    BY <2>5, <2>8, <2>9
  <2> QED BY <2>10 DEF Both
<1> HIDE DEF Both
<1>10. Nat \subseteq S
  <2> HIDE DEF S
  <2> QED BY <1>8, <1>9, SetInduction
<1>11. Both(8)
  <2>1. 7 \in S /\ 7 + 1 = 8
    BY <1>10
  <2> QED BY <2>1
<1>12. PICK x \in Texts : Holds(c[8], x, v) /\ Holds(g[8], x, w)
  BY <1>11 DEF Both
<1>13. c[8] = g[8]
  BY <1>1, <1>2
<1>14. v = w
  BY <1>5, <1>6, <1>12, <1>13, HoldsOne
<1> QED BY <1>14 DEF v, w

\* What an artifact's signed bytes say of it.
LEMMA ArtifactRead ==
  ASSUME NEW a, NEW b, ArtifactBytes(a) = ArtifactBytes(b)
  PROVE  /\ a.rego_sha256 = b.rego_sha256
         /\ a.metadata.descriptor_core_hash = b.metadata.descriptor_core_hash
         /\ a.metadata.agent_policy_sha256 = b.metadata.agent_policy_sha256
<1>1. a.rego_sha256 = b.rego_sha256 /\ MetadataHash(a.metadata) = MetadataHash(b.metadata)
  BY DEF ArtifactBytes
<1>2. [i \in DOMAIN MetadataLabels |-> <<MetadataLabels[i], a.metadata[MetadataLabels[i]]>>]
        = [i \in DOMAIN MetadataLabels |-> <<MetadataLabels[i], b.metadata[MetadataLabels[i]]>>]
  BY <1>1, HashOf DEF MetadataHash
<1>3. ASSUME NEW i \in DOMAIN MetadataLabels
      PROVE  a.metadata[MetadataLabels[i]] = b.metadata[MetadataLabels[i]]
  <2>1. <<MetadataLabels[i], a.metadata[MetadataLabels[i]]>>
          = <<MetadataLabels[i], b.metadata[MetadataLabels[i]]>>
    BY <1>2
  <2> QED BY <2>1
<1>4. /\ 3 \in DOMAIN MetadataLabels /\ MetadataLabels[3] = "descriptor_core_hash"
      /\ 8 \in DOMAIN MetadataLabels /\ MetadataLabels[8] = "agent_policy_sha256"
  BY DEF MetadataLabels
<1>5. a.metadata["descriptor_core_hash"] = b.metadata["descriptor_core_hash"]
  BY <1>3, <1>4
<1>6. a.metadata["agent_policy_sha256"] = b.metadata["agent_policy_sha256"]
  BY <1>3, <1>4
<1> QED BY <1>1, <1>5, <1>6

LEMMA CoreHashRead ==
  ASSUME NEW d, IsDescriptor(d), NEW e, IsDescriptor(e), CoreHash(d) = CoreHash(e)
  PROVE  SameCore(d, e)
<1>1. d.independent_verification \in BOOLEAN /\ e.independent_verification \in BOOLEAN
  BY DEF IsDescriptor
<1>2. DescriptorRecords(d, "enclava-deployment-descriptor-core-v1", FALSE)
        = DescriptorRecords(e, "enclava-deployment-descriptor-core-v1", FALSE)
  BY HashOf DEF CoreHash
<1> QED BY <1>1, <1>2, RecordsRead

\* The core says the values of all slots but the first.
LEMMA CoreSlots ==
  ASSUME NEW d, IsDescriptor(d), NEW e, IsDescriptor(e), SameCore(d, e)
  PROVE  \A n \in 2..8 : SlotValue(d, Slots[n]) = SlotValue(e, Slots[n])
<1>1. \A l \in PlainLabels : d[l] = e[l]
  <2> TAKE l \in PlainLabels
  <2>1. FieldBytes(d, l) = d[l] /\ FieldBytes(e, l) = e[l]
    BY PlainField
  <2> QED BY <2>1, CoreLabelSet DEF SameCore
<1>2. SignerBytes(d.signer_identity) = SignerBytes(e.signer_identity)
  <2>1. FieldBytes(d, "signer_identity") = FieldBytes(e, "signer_identity")
    BY CoreLabelSet DEF SameCore, ListLabels
  <2> QED BY <2>1 DEF FieldBytes
<1>3. <<<<"subject", d.signer_identity.subject>>, <<"issuer", d.signer_identity.issuer>>>>
      = <<<<"subject", e.signer_identity.subject>>, <<"issuer", e.signer_identity.issuer>>>>
  BY <1>2, HashOf DEF SignerBytes
<1>4. /\ d.signer_identity.subject = e.signer_identity.subject
      /\ d.signer_identity.issuer = e.signer_identity.issuer
  BY <1>3
<1>5. /\ d["image_digest"] = e["image_digest"] /\ d["namespace"] = e["namespace"]
      /\ d["service_account"] = e["service_account"]
      /\ d["identity_hash"] = e["identity_hash"]
      /\ d["kbs_resource_path"] = e["kbs_resource_path"]
  BY <1>1 DEF PlainLabels
<1>6. \A n \in 2..8 : n = 2 \/ n = 3 \/ n = 4 \/ n = 5 \/ n = 6 \/ n = 7 \/ n = 8
  OBVIOUS
<1>7. /\ Slots[2] = "image_digest" /\ Slots[3] = "signer_subject"
      /\ Slots[4] = "signer_issuer" /\ Slots[5] = "namespace"
      /\ Slots[6] = "service_account" /\ Slots[7] = "identity_hash"
      /\ Slots[8] = "kbs_resource_path"
  BY DEF Slots
<1> QED BY <1>4, <1>5, <1>6, <1>7 DEF SlotValue

-----------------------------------------------------------------------------
\* An artifact's signed bytes fit one descriptor only, but for the order in which nothing is
\* said: whatever else could be made an artifact of has other bytes.
THEOREM ArtifactCorrect == Spec => []ArtifactIdentifies
<1>1. IInv => ArtifactIdentifies
  <2> SUFFICES ASSUME IInv, NEW m \in made, NEW n \in Makeable,
                      ArtifactBytes(m.artifact) = ArtifactBytes(n.artifact)
               PROVE  SameDescriptor(m.descriptor, n.descriptor)
    BY DEF ArtifactIdentifies
  <2> DEFINE d == m.descriptor
             e == n.descriptor
  <2>1. ASSUME NEW k \in Makeable
        PROVE  \E agent : /\ k.descriptor \in Descriptors /\ Signable(k.descriptor, agent)
                          /\ k.artifact = Artifact(k.descriptor, agent)
    BY DEF Makeable
  <2>2. m \in Makeable
    BY DEF IInv, MadeKnown
  <2>3. PICK p : d \in Descriptors /\ Signable(d, p) /\ m.artifact = Artifact(d, p)
    BY <2>1, <2>2
  <2>4. PICK q : e \in Descriptors /\ Signable(e, q) /\ n.artifact = Artifact(e, q)
    BY <2>1
  <2> HIDE DEF d, e
  <2>5. ASSUME NEW x, NEW agent
        PROVE  /\ Artifact(x, agent).rego_sha256 = TextHash(Rendered(x))
               /\ Artifact(x, agent).metadata.descriptor_core_hash = CoreHash(x)
               /\ Artifact(x, agent).metadata.agent_policy_sha256 = TextHash(agent)
    BY DEF Artifact
  <2>6. /\ TextHash(Rendered(d)) = TextHash(Rendered(e)) /\ CoreHash(d) = CoreHash(e)
        /\ TextHash(p) = TextHash(q)
    <3>1. /\ m.artifact.rego_sha256 = n.artifact.rego_sha256
          /\ m.artifact.metadata.descriptor_core_hash = n.artifact.metadata.descriptor_core_hash
          /\ m.artifact.metadata.agent_policy_sha256 = n.artifact.metadata.agent_policy_sha256
      BY ArtifactRead
    <3> QED BY <2>3, <2>4, <2>5, <3>1
  <2>7. IsDescriptor(d) /\ IsDescriptor(e)
    BY <2>3, <2>4, DescriptorsAssumption
  <2>8. SameCore(d, e)
    BY <2>6, <2>7, CoreHashRead
  <2>9. Rendered(d) = Rendered(e)
    BY <2>6 DEF TextHash
  <2>10. InitData(d) = InitData(e)
    <3>1. \A i \in 2..8 : SlotValue(d, Slots[i]) = SlotValue(e, Slots[i])
      BY <2>7, <2>8, CoreSlots
    <3> QED BY <2>3, <2>4, <2>9, <3>1, InitDataRead
  <2>11. SameAnchors(d, e)
    <3>1. /\ d.expected_agent_policy_hash = e.expected_agent_policy_hash
          /\ d.expected_kbs_policy_hash = e.expected_kbs_policy_hash
      BY <2>3, <2>4, <2>6 DEF Signable
    <3>2. \A l \in Range(AnchorLabels) :
            l \in {"expected_agent_policy_hash", "expected_cc_init_data_hash",
                   "expected_kbs_policy_hash"}
      BY DEF Range, AnchorLabels
    <3> QED BY <2>10, <3>1, <3>2 DEF SameAnchors, InitData
  <2>12. SameDescriptor(d, e)
    BY <2>7, <2>8, <2>11, FieldsSame
  <2> QED BY <2>12 DEF d, e
<1> QED BY Invariance, <1>1, PTL
=============================================================================
