CONSTANTS
  r1 = r1
  c1 = c1
  c2 = c2
  none = none
  Rooms = {r1}
  RoomTypes <- MCRoomTypes
  TypeOf <- MCTypeOf
  MaxGuests = 1
  MaxOrders = 0
  Clerks = {c1, c2}
  NoRoom = none
SPECIFICATION RcpSafe
INVARIANTS
  BilledOnce
