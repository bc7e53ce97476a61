\* A manifest is moved to another cluster set.
SPECIFICATION Spec
CONSTANTS
  maxResourceNameLength = 10
  CRs <- MCOne
  InNamespace <- MCOne
  SpecNames = {"whole", "core"}
  Specs <- MCSpecs
  Clusters <- MCClusters
  Members <- MCMembers
  BoundSets <- MCBound
  Claims <- MCClaims
  Installed = TRUE
  AgentOutcomes = {TRUE}
  PromptOCM = TRUE
  CacheLag = FALSE
  MaxUserOps = 2
  MaxFaults = 0
  Nil = Nil
  Unsatisfied = Unsatisfied
INVARIANTS
  RespectsClusterSet
CHECK_DEADLOCK FALSE
