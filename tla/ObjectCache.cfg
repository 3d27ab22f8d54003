SPECIFICATION Spec
CONSTANTS
  Resource = "secret"
  Pods = {p1, p2}
  Specs <- MCSpecs
  NoSpec = NoSpec
  Objects <- MCObjects
  Life <- MCLife
  Getters = {g1, g2}
  MaxItems = 1
  MaxRuns = 2
INVARIANTS TypeOK ReferencesCounted ReadsAreFresh StopsAreSafe
PROPERTIES UpdateKeepsItem SyncsInTheEnd
CHECK_DEADLOCK FALSE
