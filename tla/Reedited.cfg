\* A manifest is edited before it is scheduled.
SPECIFICATION FairSpec
CONSTANTS
  maxResourceNameLength = 10
  CRs <- MCOne
  InNamespace <- MCOne
  SpecNames = {"pair", "whole"}
  Specs <- MCSpecs
  Clusters <- MCClusters
  Members <- MCMembers
  BoundSets <- MCBound
  Claims <- MCClaims
  Installed = TRUE
  AgentOutcomes = {TRUE}
  PromptOCM = TRUE
  CacheLag = FALSE
  MaxUserOps = 2
  MaxFaults = 0
  Nil = Nil
  Unsatisfied = Unsatisfied
PROPERTIES
  Settles
CHECK_DEADLOCK FALSE
