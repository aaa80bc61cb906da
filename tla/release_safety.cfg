SPECIFICATION Spec
CONSTANTS
  d1 = d1
  d2 = d2
  g1 = g1
  bob = bob
  NoMsg = NoMsg
  Msgs <- DmAndGate
  LaneOf <- MCLaneOf
  Contacts <- OnlyBob
  Recipient <- MCRecipient
  Blocking = {}
  Rotating = {d1}
  Environments <- Routes
  ApprovalOn = TRUE
  SecureDM = TRUE
  MaxFaults = 1
INVARIANTS
  TypeOK
  DiskMirrorsMemory
  WriteAhead
  
  RotationOnlyAfterRelease
PROPERTIES
  DeliveredIsFinal
  ImplementsLifecycle
