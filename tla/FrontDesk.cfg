CONSTANTS
  NumRooms = 3
  MaxSince = 2
  Rates <- MCRates
  MaxNights = 3
  MaxDays = 4
  Amounts <- MCAmounts
  MaxExtra = 40
  MaxHours = 2
  DiscountValues <- MCDiscountValues
  Rooms = {1}
  MaxGuests = 2
  MaxUnderWay = 2
  MaxRush = 1
  Tickets = {1, 2}
  MaxResolves = 2
  Portals = {"receptionist", "operations"}
  Seeded <- MCSeeded
  Names = {"recep1", "ann"}
  Roles = {"super_admin", "receptionist"}
  MaxIds = 3
  MaxTokens = 2
  MaxCalls = 2
SPECIFICATION MCSpec
INVARIANTS
  
  MatchesFormula
  ReceiptAddsUp
  PreviewOfForm
  NothingLeftOver
  OwnPhoto
PROPERTIES
  BillNeverShrinks
  RightGuestLeaves
  DeletesWhoItShows
  NobodyThrownOut
\* A stay ends at its bounds.
CHECK_DEADLOCK FALSE
