CONSTANTS
  Token = {t1, t2}
  Identity = {alice, bob}
  NoEntry = NoEntry
  TTL = 2
  MaxTime = 5
  MaxSetback = 3
SYMMETRY TokenSymmetry
SPECIFICATION Spec
INVARIANTS TypeOK AcceptsExactly LifetimeBound StatsHonest
