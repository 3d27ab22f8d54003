SPECIFICATION FairSpec
CONSTANTS
  u1 = u1
  u2 = u2
  m1 = m1
  NoUID = NoUID
  NoPod = NoPod
  NoSource = NoSource
  UIDs = {u1, u2, m1}
  MirrorUIDs = {m1}
  NameOf <- OneName
  Specs = {"x"}
  Statuses = {"s", "t"}
  Sources = {"api", "file"}
  SourceOf <- TwoSources
  Operations = {"SET", "ADD", "UPDATE", "DELETE", "REMOVE"}
  ChannelSize = 1
  MaxChanges = 3
INVARIANTS
  TypeOK
  CatchesUp
  MapsAgree
PROPERTIES
  SyncsInOrder
  KubeletConverges
