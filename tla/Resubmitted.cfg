\* A manifest that was scheduled is edited.
SPECIFICATION Spec
CONSTANTS
  maxResourceNameLength = 10
  CRs <- MCOne
  InNamespace <- MCOne
  SpecNames = {"whole", "smaller"}
  Specs <- MCSpecs
  Clusters <- MCClusters
  Members <- MCMembers
  BoundSets <- MCBound
  Claims <- MCClaims
  Installed = TRUE
  AgentOutcomes = {TRUE}
  PromptOCM = TRUE
  CacheLag = FALSE
  MaxUserOps = 2
  MaxFaults = 0
  Nil = Nil
  Unsatisfied = Unsatisfied
PROPERTIES
  SuccessIsObserved
CHECK_DEADLOCK FALSE
