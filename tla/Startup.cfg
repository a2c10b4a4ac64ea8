SPECIFICATION StartSpec
INVARIANTS
  StartTypeOK
  DestinationIsSafe
