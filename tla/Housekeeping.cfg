CONSTANTS
  r1 = r1
  h1 = h1
  none = none
  Rooms = {r1}
  NoRoom = none
  Staff = {h1}
  MaxTasks = 3
  MaxMessages = 1
  Faults = TRUE
SPECIFICATION HkSpec
INVARIANTS
  
  BeingCleanedHasTask
PROPERTIES
  DirtyGetsTask
  DirtyIsCleaned
