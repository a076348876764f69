CONSTANTS
  g1 = g1
  g2 = g2
  h1 = h1
  h2 = h2
  Guests = {g1}
  Callers = {h1, h2}
  MaxOrders = 3
  CrossOrders = 2
  Faults = TRUE
SPECIFICATION MCSpec
SYMMETRY MCSymmetry
INVARIANTS
  QueuedOnce
  SerialListExact
\* Guests leave and order rows run out: the model may stop, the service does not.
CHECK_DEADLOCK FALSE
