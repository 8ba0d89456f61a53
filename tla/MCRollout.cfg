SPECIFICATION FairSpec
CONSTANTS
  Postgres = Postgres
  Route = Route
  CheConfig = CheConfig
  CheServer = CheServer
  ConsoleLink = ConsoleLink
  Objects <- MCObjects
  Stages <- MCStages
  Deployments <- MCDeployments
  Replaced <- MCReplaced
  LabelCompared <- MCLabelCompared
  ClusterScoped <- MCClusterScoped
  Config <- CheConfig
  Server <- CheServer
  MayInterrupt = TRUE
  MaxUserOps = 1
  MaxFaults = 1
INVARIANTS TypeOK StagesInOrder ProvisionedMeansReady
PROPERTIES AnnotationsKept RolloutCompletes ImplementsPipeline
CHECK_DEADLOCK FALSE
