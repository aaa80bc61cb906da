SPECIFICATION FairSpec
CONSTANTS
  d1 = d1
  d2 = d2
  g1 = g1
  bob = bob
  NoMsg = NoMsg
  Msgs <- DmAndGate
  LaneOf <- MCLaneOf
  Contacts <- OnlyBob
  Recipient <- MCRecipient
  Blocking = {}
  Rotating = {}
  Environments <- Outages
  ApprovalOn = TRUE
  SecureDM = TRUE
  MaxFaults = 1
PROPERTIES
  EventuallyReleased
  EventuallyAsked
