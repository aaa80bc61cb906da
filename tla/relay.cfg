SPECIFICATION Spec
CONSTANTS
  s = s
  r = r
  alice = alice
  bob = bob
  carol = carol
  m1 = m1
  m2 = m2
  m3 = m3
  Nodes <- TwoNodes
  Agents <- ThreeAgents
  Home <- MCHome
  Msgs <- Three
  Sender <- FromAlice
  Recipient <- ToBoth
  Class <- Requests
  Scoped <- Two
  OnChain <- One
  MayBlock <- CarolBlocksAlice
  TTL = 2
  EpochLen = 2
  BindIdle = 3
  Cap = 1
  BoxLimit <- SmallBoxes
  Batch = 1
  Attempts = 2
  MaxTime = 2
  MaxFaults = 1
CONSTRAINT Apart
INVARIANTS
  TypeOK
  CapHolds
  BlockHolds
  DepositsAreClaimable
PROPERTY PollLosesNothing
