SPECIFICATION FairSpec
CONSTANTS
  Workers = {w1}
  Clients = {main}
  PoolSize = 1
  SizeModulus = 8
  Before = {}
  Waiters = {}
CHECK_DEADLOCK FALSE
PROPERTY
  SubmittedTasksRun
