SPECIFICATION Spec
CONSTANTS
  SLOTS = 2  GenBits = 1  MaxGen = 2
  Kinds <- TwoKinds  MaxActs = 3  MaxAsks = 2
  Bridges <- TwoBridges  Policies <- AllPolicies  MaxSubmits = 3
  Codes <- TwoCodes
CHECK_DEADLOCK FALSE
INVARIANTS TicketsTellTheTruth TicketFindsItsCall PageIsHeard SchedulerKeepsFaith EndsWell
PROPERTIES EveryWaitEnds
