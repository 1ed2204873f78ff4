SPECIFICATION MCSpec
CONSTANTS
  Files = {f1, f2}
  Other = w
  Scenes <- MCScenes
  PhotoMax = 2
  MaxDocs = 3
  MaxFaults = 2
  Loans = {"yes", "no"}
  MaxEdits = 2
  MaxEvents = 2
  LoanEdits = 1
  MaxTogether = 3
INVARIANTS
  PapersAreKept
PROPERTIES
  
  DetailsAreChecked
  NewerIsNotUndone
SYMMETRY Pictures
CHECK_DEADLOCK FALSE
