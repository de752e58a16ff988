CONSTANTS
  None = None
  dimmer = dimmer
  lamp = lamp
  sensor = sensor
  kitchen = kitchen
  hall = hall
  Gas <- MCGas
  Catalogs <- MCCatalogs
  Rooms = {kitchen}
  Limits = {0, 2, 5}
  RowLimit = 3
  Concurrency = 2
  MaxPublished = 1
  MaxCatalogs = 2
SPECIFICATION Spec
CHECK_DEADLOCK FALSE
INVARIANTS
  TypeOK
  AnswerIsComplete
  NoOrderForAState
PROPERTY FanoutEnds
