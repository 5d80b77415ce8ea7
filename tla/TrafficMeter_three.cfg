SPECIFICATION Spec
CONSTANTS
  r1 = r1
  r2 = r2
  r3 = r3
  Requests = {r1, r2, r3}
  Scans = {r3}
  Window = 1
  Amounts = {0, 1}
  Second = 1
  Scale = 6
  MaxTime = 2
  ClockIsSet = TRUE
INVARIANTS TypeOK WindowKept OwnTrafficShown PeakIsHighest
