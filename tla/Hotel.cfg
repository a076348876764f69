CONSTANTS
  r1 = r1
  c1 = c1
  h1 = h1
  h2 = h2
  m1 = m1
  none = none
  Rooms = {r1}
  NoRoom = none
  MaxGuests = 3
  MaxTasks = 3
  MaxMessages = 1
  MaxIssues = 2
  NumTechs = 2
  Clerks = {c1}
  Staff = {h1}
  Callers = {m1}
  Overlap = 1
SPECIFICATION HotelSpec
INVARIANTS
  RoomAgreesWithGuests
  LockHasIssue
  OneJobPerTechnician
PROPERTIES
  ImplementsReception
