CONSTANTS
  s1 = s1
  g1 = g1
  g2 = g2
  r1 = r1
  r2 = r2
  StaffSockets = {s1}
  GuestSockets = {g1, g2}
  Rooms = {r1, r2}
  RoomOf <- MCRoomOf
  MaxEvents = 1
SPECIFICATION GwSpec
INVARIANTS
  
  NothingLeaks
PROPERTIES
  StaffHears
\* Connections and events run out: the model may stop, the gateway does not.
CHECK_DEADLOCK FALSE
