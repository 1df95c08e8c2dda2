CONSTANTS
  Request = {r1}
  Cred = {c1, c2}
  User = {alice, bob}
  UidOf <- TwoUsers
  Principals = {bob}
  Tenant = {acme, beta}
  Token = {k1}
  TokenTTL = 2
  VerifyTTL = 2
  AdmitTTL = 2
  c1 = c1
  c2 = c2
  alice = alice
  bob = bob
  Role = {"administrators"}
  None = None
  MaxTime = 3
  MaxChanges = 1
SPECIFICATION Spec
INVARIANTS TypeOK CredentialBound RolesOfTenant GateBound
