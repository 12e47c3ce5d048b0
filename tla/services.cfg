SPECIFICATION WholeSpec
CONSTANTS
  Device = {d1, d2}
  Nonce = {n1}
  Delivery = {w1, w2}
  Skew = 1
  TTL = 3
  Delay = 1
  Horizon = 5
  Workers = {p1, p2}
  StepUps = {"d1"}
  Ids = {"x1"}
  Tagged = FALSE
  MaxBreaks = 1
  MaxCrashes = 1
  MaxFaults = 1
  MaxPublish = 1
  MaxHandovers = 1
  Replays = {r1, r2}
  Length = 2
  Overlap = 1
  MaxReplayFaults = 1
  Purchases = {l1, l2}
  Replayed = {"p1"}
  Settings = {"unset", "off", "keywords", "laya", "other"}
  MaxSwitches = 2
  Drafts = {"d1", "d2", "d3"}
  CustomerOf <- TwoOfOne
  Facts = {"f1"}
  Restores = {"p1"}
  Servers <- Executors
  PoolSize = 1
  Limit = 1
  DraftWindow = 2
  ReadTime = 1
  DraftTime = 2
  FactTime = 1
  DecideTime = 1
  Runs = {"r1", "r2"}
  Windows = {"w1", "w2"}
  MoreWindows = {"w1", "w2", "w3"}
  DefaultWindow = "w0"
  Fresh = 2
INVARIANTS AcceptedOnce ReplayKeepsToItself WaitsAreBounded 

CHECK_DEADLOCK FALSE
