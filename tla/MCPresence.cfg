CONSTANTS
  anna = anna
  ben = ben
  NoAnswer = NoAnswer
  People <- MCPeople
  Horizon = 3
  LookBack = 1
  MaxWindow = 3
  MaxPoints = 3
SPECIFICATION PresenceSpec
SYMMETRY Symmetry
INVARIANTS
  SpansTellTheTable
  EmptyIsProven
