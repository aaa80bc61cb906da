SPECIFICATION FairSpec
CONSTANTS
  d1 = d1
  d2 = d2
  g1 = g1
  bob = bob
  NoMsg = NoMsg
  Msgs <- OneDm
  LaneOf <- MCLaneOf
  Contacts <- OnlyBob
  Recipient <- MCRecipient
  Blocking = {}
  Rotating = {}
  Environments <- Stuck
  ApprovalOn = TRUE
  SecureDM = TRUE
  MaxFaults = 0
PROPERTY EventuallyAsked
