CONSTANTS
  f1 = f1
  f2 = f2
  j1 = j1
  Views = {"kitchen", "housekeeper", "receptionist", "maintenance", "guest"}
  Jobs = {j1}
  Fetches = {f1, f2}
  MaxWire = 2
  Faults = TRUE
SPECIFICATION PoSafe
SYMMETRY MCSymmetry
INVARIANTS
  ChangesNoticed
