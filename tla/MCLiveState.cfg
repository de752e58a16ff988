CONSTANTS
  Nothing = Nothing
  LiveSubjects <- MCSubjects
  SubjectsOf <- MCSubjectsOf
  Cyclic = {"heating", "dhw"}
  Refused = {"furnace"}
  StaleAfter = 1
  MaxNow = 3
SPECIFICATION LiveSpec
CHECK_DEADLOCK FALSE
INVARIANTS
  AsNewAsAsked
  StaleMeansQuiet
