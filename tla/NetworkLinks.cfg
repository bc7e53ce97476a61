SPECIFICATION FairSpec
CONSTANTS
  Manifests <- MCManifests
  Wanted <- MCWanted
  MaxOps = 4
  MaxFaults = 1
  Nil = Nil
INVARIANTS
  WellFormed
  OwnLinksServe
PROPERTIES
  ImplementsLinkSet
  WishesServed
CHECK_DEADLOCK FALSE
