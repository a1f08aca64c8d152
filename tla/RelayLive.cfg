CONSTANTS
  s1 = s1
  s2 = s2
  s3 = s3
  NoSession = NoSession
  Sessions = {s1, s2}
  Endpoint <- ChaosAndBenchmark
  PoolSize = 2
  MayRaise = {s2}
  Messages = {"valid", "unknown", "malformed"}
  MaxRequests = 1
  MaxEvents = 2
SPECIFICATION FairSpec
PROPERTIES StreamsFinish
CHECK_DEADLOCK FALSE
