SPECIFICATION NodeSpec
CONSTANTS
  k1 = k1
  k2 = k2
  k3 = k3
  al1 = al1
  al2 = al2
  j1 = j1
  j2 = j2
  j3 = j3
  alice = alice
  bob = bob
  Agents <- TwoAgents
  MaxSkip = 1
  MaxSent = 5
  MaxReceipts = 5
  MaxResets = 2
  Commands <- ThreeCommands
  Alerts <- TwoAlerts
  MaxPending = 2
  MaxAlerts = 1
  MaxBatch = 2
  Workers = 1
  Jobs <- ThreeJobs
  History = 2
  Limits = {1, 2}
  MaxChanges = 1
  n1 = n1
  n2 = n2
  Nodes <- TwoNodes
  Peers <- Others
  Syncing <- OneNode
  Kicked <- OneNode
  Page = 1
  Rounds = 2
  ResetBelow = 2
  MaxMade = 2
  MaxFailures = 1
  MaxToggles = 1
INVARIANTS
  NodeTypeOK
  TQPermits
  RTReads
  
PROPERTIES
  CCLoopReturns
  TQServed
  SYRunningEnds
  SYDisabledSettles
  
CHECK_DEADLOCK FALSE
