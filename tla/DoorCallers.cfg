CONSTANTS
  Request = {r1, r2}
  Cred = {c1, c2}
  User = {alice, bob}
  UidOf <- TwoUsers
  Principals = {bob}
  Tenant = {acme}
  Token = {k1}
  TokenTTL = 1
  VerifyTTL = 1
  AdmitTTL = 1
  c1 = c1
  c2 = c2
  alice = alice
  bob = bob
  Role = {"administrators"}
  None = None
  MaxTime = 1
  MaxChanges = 1
SPECIFICATION FairSpec
INVARIANT SessionIsCallers
PROPERTY EveryRequestAnswered
