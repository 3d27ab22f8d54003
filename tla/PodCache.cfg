SPECIFICATION FairSpec
CONSTANTS
  p1 = p1
  r1 = r1
  r2 = r2
  w1 = w1
  w2 = w2
  Pods = {p1}
  Readers = {r1, r2}
  Writers = {w1, w2}
  MaxTime = 3
INVARIANTS
  TypeOK
  SubscribersAreServed
  AnswersAreRecent
PROPERTY RefreshEndsWait
