SPECIFICATION FairSpec
CHECK_DEADLOCK FALSE
CONSTANTS
  P1 = P1
  P2 = P2
  Pages <- MCPages
  MaxUtterances = 2
  MaxCommands = 2
  MaxFaults = 1
INVARIANTS LateEventsIgnored
