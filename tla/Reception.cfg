CONSTANTS
  r1 = r1
  c1 = c1
  c2 = c2
  none = none
  Rooms = {r1}
  RoomTypes <- MCRoomTypes
  TypeOf <- MCTypeOf
  MaxGuests = 3
  MaxOrders = 1
  Clerks = {c1, c2}
  NoRoom = none
SPECIFICATION RcpSpec
INVARIANTS
  TypeOK
  NoDoubleBooking
  SettledWhenGone
PROPERTIES
  ImplementsLedger
  RequestsAnswered
