SPECIFICATION Spec
CONSTANTS
  Stock <- MCStock
  Drafts <- MCDrafts
  Name = "shop"
  FilterKeys <- MCFilterKeys
  TooBig = TooBig
  MaxResources = 4
  MaxResourcesVariant = 2
INVARIANTS
  BundlesCover
  BundlesExact
  OrderIrrelevant
  OrphansFlagged
  FiltersReachBundles
CHECK_DEADLOCK FALSE
