SPECIFICATION Spec
CONSTANTS
  u1 = u1
  u2 = u2
  c1 = c1
  c2 = c2
  NoUID = NoUID
  NoCh = NoCh
  UIDs <- OneUID
  Names <- TheName
  FullNameOf <- OneName
  StaticUIDs = {}
  SpecGrace <- OneGrace
  Requests <- OneZeroGrace
  CompletedChs = {}
  SyncPodReturns <- Terminal
  TeardownReturns <- Ok
  MaxUpdates <- OneMaxThree
PROPERTY GraceOnlyDecreases
