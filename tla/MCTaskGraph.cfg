SPECIFICATION FairSpec
CONSTANTS
  Workers = {w1, w2}
  Clients = {main}
  PoolSize = 4
  SizeModulus = 8
  Before <- Fan
  Waiters = {1, 3}
INVARIANTS
  SuccessorsWait
  EachHandleInOnePlace
  SizeCounts
  StartsAfterPredecessors
PROPERTY
  JoinReturns
