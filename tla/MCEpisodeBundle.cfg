CONSTANTS
  state = state
  order = order
  reading = reading
  spare = spare
  kitchen = kitchen
  hall = hall
  dimmer = dimmer
  sensor = sensor
  None = None
  Gas <- MCGas
  Catalogs <- MCCatalogs
  Ref <- MCRef
  ObservationLimit = 2
  SiblingLimit = 1
  MaxTick = 3
  MaxRuns = 2
SPECIFICATION Spec
CHECK_DEADLOCK FALSE
INVARIANTS
  EvidenceReachesRow
  TrajectoryIsWhole
  SiblingsAreNeighbours
