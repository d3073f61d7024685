SPECIFICATION Spec
CONSTANTS
  Requests = {r1}
  Names = {"A", "B"}
  Groups = {"A", "B"}
  Username = "A"
  UserId = "A"
  Files <- MCFiles
  MaxChanges = 0
  None = None
PROPERTIES
  OwnRuleApplies
CHECK_DEADLOCK FALSE
