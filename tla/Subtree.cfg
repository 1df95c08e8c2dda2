CONSTANTS
  Uid = {a, b, x, y}
  Root = Root
  Absent = Absent
  Allowed = {a}
  MaxDepth = 3
  MaxHits = 2
  Enabled = TRUE
  None = None
SYMMETRY OthersSymmetry
SPECIFICATION Spec
INVARIANTS TypeOK GrantedWasInside RefusedWasOutside
PROPERTIES Confined AuditHonest
