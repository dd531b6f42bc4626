\* One crash in the second attempt is enough.
SPECIFICATION Spec
CONSTANTS
  Profiles = {test, lint}
  NoProfile = NoProfile
  Attempts = 3
  MaxGeneration = 2
  MaxCrashes = 1
  MaxPauses = 0
INVARIANT AwaitingIsPublishable
CHECK_DEADLOCK FALSE
