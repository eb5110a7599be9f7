SPECIFICATION FairSpec
CONSTANTS
  Orgs = {o1}
  Keys = {k1, k2}
  Handlers = {h1, h2}
  NoKey = NoKey
  NoHandler = NoHandler
  MaxEvents = 3
PROPERTY EveryRequestAnswered
\* MaxEvents stops new requests: the last state has no successor.
CHECK_DEADLOCK FALSE
