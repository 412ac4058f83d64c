SPECIFICATION Spec
CONSTANTS
  h1 = h1
  h2 = h2
  Hosts <- MCHosts
  Configs <- MCConfigs
  Evidence <- MCEvidence
  StageFailures = {"PermissionDenied"}
  MaxRuns = 2
INVARIANTS
  EventsInOrder
  CancelReleasesStages
  ReportComplete
  OutputAtomic
