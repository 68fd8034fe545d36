SPECIFICATION Spec
CONSTANTS
  NofPorts = 2
  Queues = 2
  Descs = 2
  Burst = 2
  PoolSizes = {2, 12, 14}
  LineCap = 1
INVARIANTS TypeOK MbufsAccounted NeverSendsNull
CHECK_DEADLOCK FALSE
