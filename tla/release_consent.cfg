SPECIFICATION Spec
CONSTANTS
  d1 = d1
  d2 = d2
  g1 = g1
  bob = bob
  NoMsg = NoMsg
  Msgs <- TwoDms
  LaneOf <- MCLaneOf
  Contacts <- OnlyBob
  Recipient <- MCRecipient
  Blocking = {}
  Rotating = {}
  Environments <- Duties
  ApprovalOn = TRUE
  SecureDM = TRUE
  MaxFaults = 1
INVARIANTS
  RelayNeedsConsent
  PromptIsDue
PROPERTY KeepsWaiting
