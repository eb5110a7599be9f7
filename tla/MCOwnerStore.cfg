SPECIFICATION Spec
CONSTANTS
  Orgs = {o1, o2}
  Keys = {k1, k2, k3}
  Handlers = {h1, h2}
  NoKey = NoKey
  NoHandler = NoHandler
  MaxEvents = 3
SYMMETRY Symmetry
INVARIANT TypeOK
INVARIANT AuditTrail
INVARIANT ChainAuthorised
INVARIANT AckTruthful
PROPERTY HistoryGrows
PROPERTY RegistrySpec
\* MaxEvents stops new requests: the last state has no successor.
CHECK_DEADLOCK FALSE
