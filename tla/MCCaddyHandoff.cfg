SPECIFICATION FairSpec
CONSTANTS
  WaitLimit = 300
  Period = 60
  Grace = 30
  MaxVersion = 4
INVARIANT TypeOK
INVARIANT OneCaddy
INVARIANT StopsJustified
PROPERTY RenewalServed
\* A deleted Pod does not come back.
CHECK_DEADLOCK FALSE
