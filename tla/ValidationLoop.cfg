\* Two required profiles, three attempts (the default of CoordinatorLimits).
SPECIFICATION Spec
CONSTANTS
  Profiles = {test, lint}
  NoProfile = NoProfile
  Attempts = 3
  MaxGeneration = 2
  MaxCrashes = 2
  MaxPauses = 1
INVARIANTS
  TypeOK
  PassNeedsEveryProfile
  AttemptsInOrder
  PublishableUnlessInterrupted
PROPERTIES
  CancelStopsNewWork
  EventuallyDecided
\* A cancelled or approved-to-wait run really stops here.
CHECK_DEADLOCK FALSE
