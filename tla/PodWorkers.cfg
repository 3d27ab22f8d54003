SPECIFICATION Spec
CONSTANTS
  u1 = u1
  u2 = u2
  c1 = c1
  c2 = c2
  NoUID = NoUID
  NoCh = NoCh
  UIDs <- OneUID
  Names <- TheName
  FullNameOf <- OneName
  StaticUIDs = {}
  SpecGrace <- OneGrace
  Requests <- OneRequests
  CompletedChs = {c1, c2}
  SyncPodReturns <- AllReturn
  TeardownReturns <- TeardownAllReturn
  MaxUpdates <- OneMax
INVARIANTS
  TypeOK
  ChannelsAreSound
  QueriesAreTrue
  CanceledHasSuccessor
PROPERTIES
  UpdatesInOrder
  ImplementsLifecycle
