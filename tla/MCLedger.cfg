CONSTANTS
  alice = alice
  bob = bob
  r1 = r1
  r2 = r2
  e1 = e1
  plain = plain
  appeared = appeared
  c1 = c1
  c2 = c2
  NoPerson = NoPerson
  None = None
  Persons <- MCPersons
  RunIds <- MCRunIds
  EpisodeIds <- MCEpisodeIds
  Keys <- MCKeys
  SubjectOf <- MCSubjectOf
  SubjectKinds <- MCSubjectKinds
  Times <- MCTimes
  Requests <- MCRequests
  Filters <- MCFilters
  Rows <- MCRows
  Calls <- MCCalls
  WriteEnabled = TRUE
  Reader = alice
SPECIFICATION Spec
SYMMETRY Symmetry
CHECK_DEADLOCK FALSE
INVARIANTS
  TypeOK
  JudgedIsReadable
  JudgedWasNewest
  VerdictHasAuthor
PROPERTY SeesOnlyOwnAndMachines
