CONSTANTS
  Caller = {c1, c2}
  Cred = {k1, half}
  Blank = {half}
  Tenant = {acme}
  Uid = {k1, half}
  UidOf <- OwnUid
  Enabled = TRUE
  TTL = 1
  None = None
  MaxTime = 2
  MaxSetback = 1
SYMMETRY CallerSymmetry
SPECIFICATION Spec
INVARIANTS TypeOK VerifiedWasValid RefusalIsCurrent
PROPERTY ImplementsFreshAnswer
