SPECIFICATION Spec
CONSTANTS
  NoDigest = NoDigest
  NoMemory = NoMemory
  NoKeys = NoKeys
  ConfigKeys <- MCConfigKeys
  Digests <- Digest
  Inputs <- MCInputs
INVARIANTS
  ImageAsSigned
CHECK_DEADLOCK FALSE
