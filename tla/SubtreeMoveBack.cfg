CONSTANTS
  Uid = {a, b, x}
  Root = Root
  Absent = Absent
  Allowed = {a, b}
  MaxDepth = 3
  MaxHits = 1
  Enabled = TRUE
  None = None
SPECIFICATION Spec
PROPERTY MoveCanBeMovedBack
