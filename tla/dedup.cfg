SPECIFICATION TimelySpec
CONSTANTS
  f1 = f1
  f2 = f2
  f3 = f3
  f4 = f4
  Frame = {f1, f2, f3, f4}
  Hash <- Hashes
  DedupShards = 2
  Period = 6
  BucketInterval = 2
  MaxTime = 9
INVARIANTS
  TypeOK
  RemembersForOneRound
  InOneBucket
PROPERTY
  ImplementsWindow
