SPECIFICATION FairSpec
CONSTANTS
  t1 = t1
  t2 = t2
  Nothing = Nothing
  Token <- MCToken
  Environments <- MCEnvironments
  Workers = 2
INVARIANTS TypeOK CallerServed RetiredRefused RoutesEquipped
PROPERTIES Recovers RotationEnds
CHECK_DEADLOCK FALSE
