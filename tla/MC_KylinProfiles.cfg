SPECIFICATION MCSpec
CONSTANTS
  w1 = w1
  w2 = w2
  k1 = k1
  k2 = k2
  u1 = u1
  u2 = u2
  p1 = p1
  p2 = p2
  Windows = {w1, w2}
  Kylin = {k1, k2}
  Machine <- MCMachine
  MaxStamp = 2
  MaxAttempts = 2
  MaxFaults = 2
  Findings <- MCFindings
  Tables <- MCTables
  Home = k2
  Targets = 4
  UnitOf <- MCUnitOf
  Units = {u1, u2}
  NoUnit = NoUnit
  Profiles = {p1, p2}
  Radio = Radio
  MaxTroubles = 2
  MaxOthers = 1
INVARIANT ProfilesRestored
CHECK_DEADLOCK FALSE
