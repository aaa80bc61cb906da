SPECIFICATION ThreadsSpec
CONSTANTS
  c1 = c1
  c2 = c2
  nonce = nonce
  key = key
  bundle = bundle
  Timer = Timer
  Exit = Exit
  NoOne = NoOne
  Callers <- TwoCallers
  Copied <- NonceOnly
  Late <- BundleOnly
  Changes <- AllKinds
  MaxFaults = 1
  boot = boot
  poll = poll
  Boots <- OneBoot
  Loop = Loop
  Startup = Startup
  Worker = Worker
  Calls <- OnePoll
  MaxRequests = 3
  MaxExits = 1
INVARIANTS
  ThreadsTypeOK
  NothingForgotten
  LNExclusive
  LNDisabledIsOff
PROPERTIES
  OlderPayloadIsHarmless
  TimerSaves
  KeepsWarming
