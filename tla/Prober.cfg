SPECIFICATION Spec
CONSTANTS
  UIDs = {p1}
  Containers <- MCContainers
  PodSpecs <- MCPodSpecs
  FailureThreshold <- MCFailureThreshold
  SuccessThreshold <- MCSuccessThreshold
  ProbeOutcomes = {"success", "failure"}
  UpdatesCap = 1
  MaxWorkers = 2
INVARIANTS TypeOK OneWorker ClaimsAreEarned
PROPERTIES StopsInTheEnd
