SPECIFICATION FairSpec
CONSTANTS
  u1 = u1
  u2 = u2
  c1 = c1
  c2 = c2
  NoUID = NoUID
  NoCh = NoCh
  UIDs <- TwoUIDs
  Names <- TheName
  FullNameOf <- TwoSameName
  StaticUIDs <- TwoUIDs
  SpecGrace <- TwoGrace
  Requests <- TwoStaticRequests
  CompletedChs = {}
  SyncPodReturns <- NoError
  TeardownReturns <- TeardownNoError
  MaxUpdates <- TwoMax
INVARIANTS
  StaticPodHoldsName
PROPERTIES
  TerminationCompletes
