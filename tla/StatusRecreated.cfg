SPECIFICATION Spec
CONSTANTS
  u1 = u1
  u2 = u2
  NoUID = NoUID
  UIDs = {u1, u2}
  NameOf <- SameName
  RestartPolicy = "Never"
  FirstStatuses <- OnlyPending
  ProbeResults = {}
  ChannelSize = 1
  MaxSets = 1
  MaxFaults = 1
  MaxOverwrites = 0
SYMMETRY Symmetry
INVARIANT StatusOfOwnPod
