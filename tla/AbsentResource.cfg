\* A manifest with linked workloads and an undefined resource is deleted.
SPECIFICATION Spec
CONSTANTS
  maxResourceNameLength = 10
  CRs <- MCOne
  InNamespace <- MCOne
  SpecNames = {"absent"}
  Specs <- MCSpecs
  Clusters <- MCClusters
  Members <- MCMembers
  BoundSets <- MCBound
  Claims <- MCClaims
  Installed = TRUE
  AgentOutcomes = {TRUE}
  PromptOCM = TRUE
  CacheLag = FALSE
  MaxUserOps = 2
  MaxFaults = 0
  Nil = Nil
  Unsatisfied = Unsatisfied
INVARIANTS
  LinksGoWithManifests
CHECK_DEADLOCK FALSE
