SPECIFICATION Spec
CONSTANTS
  Atom <- MCAtom
  Template <- MCTemplate
  Descriptors <- MCDescriptors
  Keyrings <- MCKeyrings
  Rotations <- MCRotations
  AgentPolicies <- MCAgentPolicies
  TemplateId <- x
  Version1 <- x
  Signer = Signer
  MaxSigned = 1
INVARIANTS TypeOK AcceptedAsSigned ArtifactIdentifies RenderedAsMeant EscalationIsSudo
CHECK_DEADLOCK FALSE
