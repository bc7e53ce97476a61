\* One manifest, one edit or deletion, and a call that fails or a restart.
SPECIFICATION Spec
CONSTANTS
  maxResourceNameLength = 10
  CRs <- MCOne
  InNamespace <- MCOne
  SpecNames = {"pair", "half", "moved", "whole", "broken"}
  Specs <- MCSpecs
  Clusters <- MCClusters
  Members <- MCMembers
  BoundSets <- MCBound
  Claims <- MCClaims
  Installed = TRUE
  AgentOutcomes = {TRUE, FALSE}
  PromptOCM = FALSE
  CacheLag = FALSE
  MaxUserOps = 2
  MaxFaults = 1
  Nil = Nil
  Unsatisfied = Unsatisfied
INVARIANTS
  FinalizerProtectsWorks
  DeliveredIsAll
  LinksServeDecisions
PROPERTIES
  PushOnlyWhenAllPlaced
  FinalizingIsFinal
  ImplementsContract
CHECK_DEADLOCK FALSE
