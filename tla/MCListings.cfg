CONSTANTS
  c1 = c1
  c2 = c2
  None = None
  Callers <- MCCallers
  Hypertables <- MCHypertables
  Aggregates <- MCAggregates
  Filled = {"knx"}
  TTL = 1
  MaxNow = 2
  MaxChanges = 2
  RowLimit = 2
  Limits = {0, 1, 3}
  Buckets <- MCBuckets
  Keys <- MCKeys
  Age <- MCAge
  AskedPrefixes <- MCAskedPrefixes
  PageSize = 1
  MaxWrites = 2
  Stores <- MCStores
  VerifyJobs <- MCVerifyJobs
  Snapshots <- MCSnapshots
  TaskTimes = {1, 2, 3, 4}
  DaysAgo = {0, 2}
  MaxPbsEvents = 3
SPECIFICATION ListingsSpec
SYMMETRY Symmetry
CHECK_DEADLOCK FALSE
INVARIANTS
  CatalogOfItsWalk
  CatalogTrails
  SummariesHold
  JobsAreTheirs
  CutsAreTold
