\* What a manifest asks for eventually happens; one of two is in a wrong namespace.
SPECIFICATION FairSpec
CONSTANTS
  maxResourceNameLength = 10
  CRs <- MCTwo
  InNamespace <- MCOne
  SpecNames = {"pair", "stray", "unsat", "unsupported", "outside", "invalid", "broken", "valueless", "nameless"}
  Specs <- MCSpecs
  Clusters <- MCClusters
  Members <- MCMembers
  BoundSets <- MCBound
  Claims <- MCClaims
  Installed = FALSE
  AgentOutcomes = {TRUE, FALSE}
  PromptOCM = FALSE
  CacheLag = FALSE
  MaxUserOps = 2
  MaxFaults = 0
  Nil = Nil
  Unsatisfied = Unsatisfied
PROPERTIES
  Settles
  DeletionCompletes
CHECK_DEADLOCK FALSE
