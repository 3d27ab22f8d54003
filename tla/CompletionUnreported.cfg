SPECIFICATION FairSpec
CONSTANTS
  u1 = u1
  u2 = u2
  NoUID = NoUID
  UIDs = {u1}
  NameOf <- OneName
  RestartPolicy = "Never"
  FirstStatuses <- OnlyPending
  ProbeResults = {}
  ChannelSize = 1
  MaxSets = 1
  MaxFaults = 0
  MaxOverwrites = 0
PROPERTY CompletionReported
