SPECIFICATION Spec
CONSTANTS
  s = s
  r = r
  alice = alice
  bob = bob
  carol = carol
  m1 = m1
  m2 = m2
  m3 = m3
  Nodes <- TwoNodes
  Agents <- TwoAgents
  Home <- MCHome
  Msgs <- Two
  Sender <- FromAlice
  Recipient <- ToBob
  Class <- Requests
  Scoped <- None
  OnChain <- None
  MayBlock <- None
  TTL = 2
  EpochLen = 3
  BindIdle = 4
  Cap = 2
  BoxLimit <- SmallBoxes
  Batch = 2
  Attempts = 1
  MaxTime = 4
  MaxFaults = 0
PROPERTY RotationLosesNothing
