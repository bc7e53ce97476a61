\* One manifest, edited at any moment; no failures.
SPECIFICATION Spec
CONSTANTS
  maxResourceNameLength = 10
  CRs <- MCOne
  InNamespace <- MCOne
  SpecNames = {"pair", "moved", "unsat", "homeless", "forbidden", "open", "torn"}
  Specs <- MCSpecs
  Clusters <- MCClusters
  Members <- MCMembers
  BoundSets <- MCBound
  Claims <- MCClaims
  Installed = TRUE
  AgentOutcomes = {TRUE, FALSE}
  PromptOCM = TRUE
  CacheLag = FALSE
  MaxUserOps = 3
  MaxFaults = 0
  Nil = Nil
  Unsatisfied = Unsatisfied
INVARIANTS
  TypeOK
  DeliveredIsCurrent
  DeliveredIsAll
  LinksMatchMemory
CHECK_DEADLOCK FALSE
