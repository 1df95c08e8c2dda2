CONSTANTS
  Tenant = {acme, beta}
  NoTenant = NoTenant
  RegState <- TwoStates
  AdmitTTL = 2
  RefuseTTL = 1
  None = None
  MaxTime = 3
SYMMETRY TenantSymmetry
SPECIFICATION Spec
INVARIANTS TypeOK AdmitFresh RefusalFresh ReasonHonest
PROPERTY ImplementsFreshAnswer
