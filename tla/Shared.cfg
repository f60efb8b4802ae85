SPECIFICATION SharedSpec
CONSTANTS
  Executions <- TwoExecutions
  Calls <- AllCalls
  Results <- Delivered
  Bundles <- SomeBundles
  Answers <- SomeAnswers
  NoJudge = NoJudge
  NoReply = NoReply
  Absent = Absent
  all = all
  MaxSteps = 2
  MaxLag = 1
  MaxTime = 4
  Agents = {"a1", "a2"}
  Submissions = {"s1", "s2"}
  Sound = {"p1", "p2"}
  Broken = {"old"}
  Capacity = 1
  Steps = {"x", "y", "z"}
  MaxCalls = 1
  Window = 2
  Retention = 1
  MaxDelay = 1
  LastTick = 5
  Writers = {"t1", "t2", "t3"}
  BatchSizes <- OneOrTwo
  PageSize = 2
  MaxEvents = 5
  Hashes = {"h1"}
  Rows = {"x", "y"}
  Touch = 1
  Grace = 4
  MaxTx = 2
  LastInstant = 7
  Replicas = {"r1", "r2"}
  Callers = {"w1", "tick", "due", "w3"}
  Keys = {"k1", "k2"}
  Home <- ThreeAtOne
  LeaderKeys = {"singletons", "deadlines"}
  Sweepers = {"tick", "due"}
  Loop <- TwoLoops
  PoolSize = 3
INVARIANTS
  ReplayReproduces
  LookbackLosesNothing
  FailureOnlyTightens
  JudgeLeansStrict
  DecisionFollowsLookup
  NeverOverLimit
  ReadersMissNothing
  OneConnectionPerKey
  ReferencedChunksStored
CHECK_DEADLOCK FALSE
