CONSTANTS
  r1 = r1
  c1 = c1
  h1 = h1
  h2 = h2
  m1 = m1
  none = none
  Rooms = {r1}
  NoRoom = none
  MaxGuests = 2
  MaxTasks = 3
  MaxMessages = 1
  MaxIssues = 0
  NumTechs = 1
  Clerks = {c1}
  Staff = {h1, h2}
  Callers = {}
  Overlap = 2
SPECIFICATION HotelSpec
INVARIANTS
  NoDoubleBooking
