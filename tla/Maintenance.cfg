CONSTANTS
  r1 = r1
  r2 = r2
  h1 = h1
  h2 = h2
  none = none
  Rooms = {r1, r2}
  NoRoom = none
  Callers = {h1, h2}
  Priorities = {1, 3}
  MaxIssues = 2
  NumTechs = 1
  Faults = TRUE
SPECIFICATION MntSafe
INVARIANTS
  QueuePending
PROPERTIES
  AssignedOnce
