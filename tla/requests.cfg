SPECIFICATION Spec
CONSTANTS
  Requests = {r1, r2}
  Names = {"A", "B"}
  Groups = {"A", "B"}
  Username = "A"
  UserId = "A"
  Files <- MCFiles
  MaxChanges = 1
  None = None
SYMMETRY Symmetry
INVARIANTS
  TypeOK
  PosterMayCancel
PROPERTIES
  AcceptedIsEntitled
  
CHECK_DEADLOCK FALSE
