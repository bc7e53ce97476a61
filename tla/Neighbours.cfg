\* Two manifests share the hub; the client's cache lags behind.
SPECIFICATION Spec
CONSTANTS
  maxResourceNameLength = 10
  CRs <- MCTwo
  InNamespace <- MCTwo
  SpecNames = {"whole", "target"}
  Specs <- MCSpecs
  Clusters <- MCClusters
  Members <- MCMembers
  BoundSets <- MCBound
  Claims <- MCClaims
  Installed = TRUE
  AgentOutcomes = {TRUE}
  PromptOCM = FALSE
  CacheLag = TRUE
  MaxUserOps = 3
  MaxFaults = 0
  Nil = Nil
  Unsatisfied = Unsatisfied
PROPERTIES
  StaysWithItsOwn
CHECK_DEADLOCK FALSE
