CONSTANTS
  c1 = c1
  c2 = c2
  Probe = Probe
  None = None
  Users <- MCUsers
  Pools <- MCPools
  PoolMin <- MCPoolMin
  PoolMax <- MCPoolMax
  Workers = {1}
  Calls <- MCCalls
  Enabled <- MCEnabled
  Programs <- MCPrograms
SPECIFICATION FairSpec
CHECK_DEADLOCK FALSE
INVARIANTS
  TypeOK
  CallsFindTheirs
PROPERTIES
  ServesAgain
  ReadinessReturns
  CallsEnd
