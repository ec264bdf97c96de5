SPECIFICATION Spec
CONSTANTS
  s1 = s1
  Governors = {"ledger", "insurance", "cybersecurity"}
  Sidecars = {s1}
  Workers = {"w1", "w2"}
  Host <- MCHost
  Keys = {1, 2}
  Names = {"provider", "model", "redis"}
  Provider = "provider"
  Model = "model"
  Threshold = 1
  RateLimit = 1
  MaxDepth = 2
  MaxInflight = 1
  LocalRate = 1
  LocalDepth = 1
  LocalInflight = 1
  Bucket = 1
  MaxFaults = 1
INVARIANTS
  InflightCap
  SlotsReturned
  LeaksExpire
CHECK_DEADLOCK FALSE
