SPECIFICATION LedgerSpec
CONSTANTS
  alice = alice
  bob = bob
  api = api
  sync = sync
  Authors <- TwoAuthors
  MaxSeq = 2
  MaxEvents = 3
  Appenders <- OneAppender
  Ingesters <- OneIngester
  Timer = Timer
  MaxMemory = 2
  LockDepth = 1
  ResetBelow = 2
  MaxFaults = 1
  Voters <- TwoAuthors
  Weight <- Weights
  SignPct = 25
  QuorumPct = 30
  MajorityPct = 67
  SignDays = 1
  VoteDays = 1
  ChallengeDays = 1
  AnyTime = FALSE
  MaxEntries = 0
  MaxDay = 1
  Stakers <- TwoAuthors
  Predictors <- OneVoter
  StakeSize = 1200
  Bond = 300
  MinStake = 2400
  DecidePct = 75
  DoubtPct = 33
  LoserPct = 2
  StalePct = 2
  FirstBonus = 200
  MaxStakes = 0
  MaxEvidence = 0
CHECK_DEADLOCK FALSE
INVARIANT HCAppendsSurvive
