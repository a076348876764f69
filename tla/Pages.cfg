CONSTANTS
  Rows = {1}
  Presses = {1, 2}
  Answers = {1, 2}
  MaxGuests = 2
  MaxPut = 2
  MaxFetches = 2
  MaxPosts = 1
  MaxRush = 1
SPECIFICATION MCSpec
INVARIANTS
  FreshPressFits
  
  StoredOnce
PROPERTIES
  OldListsHarmless
  FinishedForGood
  
\* All rows are finished; the guests have left.
CHECK_DEADLOCK FALSE
