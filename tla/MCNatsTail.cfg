CONSTANTS
  None = None
  Subjects <- MCSubjects
  Asked <- MCAsked
  AllowedPrefixes <- MCAllowedPrefixes
  Durations = {0, 1, 2}
  MaxDuration = 1
  MaxMessages = 2
  MaxPublished = 3
SPECIFICATION Spec
CHECK_DEADLOCK FALSE
INVARIANTS
  TypeOK
  Gapless
  OneAfterDeadline
  NoSubscriptionLeft
PROPERTY WatchEnds
