SPECIFICATION FairSpec
CONSTANTS
  Workers = {w1, w2}
  main = main
  Clients = {main}
  PoolSize = 4
  SizeModulus = 8
  Loops = {rpc, tick}
  Polling = {rpc}
CHECK_DEADLOCK FALSE
INVARIANTS
  OneTaskPerLoop
  PoolSuffices
PROPERTY
  ShutdownCompletes
