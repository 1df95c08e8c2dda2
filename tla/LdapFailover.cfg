CONSTANTS
  User = {ann}
  Tenant = {acme, beta}
  HomeTenant = acme
  Role = {"administrators"}
  Cooldown = 1
  None = None
  MaxTime = 2
SPECIFICATION Spec
INVARIANTS TypeOK UnreachableMeansBoth PasswordProven
PROPERTIES PrimaryIffDue RolesHeldThere
