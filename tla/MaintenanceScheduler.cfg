CONSTANTS
  r1 = r1
  r2 = r2
  h1 = h1
  h2 = h2
  none = none
  Rooms = {r1}
  NoRoom = none
  Callers = {h1, h2}
  Priorities = {3}
  MaxIssues = 3
  NumTechs = 2
  Faults = FALSE
SPECIFICATION MntSpec
INVARIANTS
  PendingTracked
  NobodyIdle
PROPERTIES
  PendingIsAssigned
\* The issue rows of the model run out, and then there is nothing left to do.
CHECK_DEADLOCK FALSE
