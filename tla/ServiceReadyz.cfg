SPECIFICATION Spec
CONSTANTS
  Environs <- MCEnvirons
  Dotenvs <- MCDotenvs
  Issued <- MCIssued
  Role = {r}
  Prober = {p1}
  Addr = {"c", "x", "e1", "e2"}
  Covers <- MCCovers
  Readings <- MCReadings
  None = None
INVARIANT ReadyWhenServable
