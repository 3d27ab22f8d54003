SPECIFICATION FairSpec
CONSTANTS
  u1 = u1
  u2 = u2
  NoUID = NoUID
  UIDs = {u1}
  NameOf <- OneName
  RestartPolicy = "OnFailure"
  FirstStatuses <- OnlyPending
  ProbeResults = {FALSE}
  ChannelSize = 1
  MaxSets = 2
  MaxFaults = 1
  MaxOverwrites = 1
INVARIANTS
  TypeOK
  SkippedIsUpToDate
PROPERTIES
  WritesAreDue
  StatusReachesServer
