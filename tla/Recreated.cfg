\* A manifest is deleted and created again.
SPECIFICATION Spec
CONSTANTS
  maxResourceNameLength = 10
  CRs <- MCOne
  InNamespace <- MCOne
  SpecNames = {"whole"}
  Specs <- MCSpecs
  Clusters <- MCClusters
  Members <- MCMembers
  BoundSets <- MCBound
  Claims <- MCClaims
  Installed = TRUE
  AgentOutcomes = {TRUE}
  PromptOCM = TRUE
  CacheLag = FALSE
  MaxUserOps = 3
  MaxFaults = 0
  Nil = Nil
  Unsatisfied = Unsatisfied
INVARIANTS
  DeliveredIsRunning
CHECK_DEADLOCK FALSE
