SPECIFICATION WaitingSpec
CONSTANTS
  Replicas = {"r1", "r2"}
  Callers = {"tick", "due", "w3"}
  Keys = {"k1", "k2"}
  Home <- TwoHomes
  LeaderKeys = {"singletons", "deadlines"}
  Sweepers = {"tick", "due"}
  Loop <- TwoLoops
  PoolSize = 3
  Dispatches = {"d1", "d2", "d3"}
  Concurrency = 2
  Subscribers = {"s1", "s2"}
  Buffer = 2
  MaxDeltas = 3
PROPERTIES
  CallersReturn
  QueuedIsDelivered
  SlowReadersHoldUpNobody
CHECK_DEADLOCK FALSE
