SPECIFICATION Spec
CONSTANTS
  NoDigest = NoDigest
  NoMemory = NoMemory
  NoKeys = NoKeys
  ConfigKeys <- MCConfigKeys
  Digests <- Digest
  Inputs <- MCInputs
INVARIANTS
  TypeOK
  ManifestClosed
  PrivilegeConfined
  PlatformEnvironment
  ConfigReadable
  ShapeMatches
  DataCorrected
  FaithfulAccepted
  CredentialsOptional
  RulesRelaxed
CHECK_DEADLOCK FALSE
