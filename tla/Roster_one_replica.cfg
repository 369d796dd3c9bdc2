\* Three requests, one replica.
CONSTANTS
  Requests = {r1, r2, r3}
  Pods = {p1}
  Shifts = {s1, s2}
  Workers = {w1}
  NoWorker = NoWorker
  NoEvent = NoEvent
  MaxVersion = 1
  PoolSize = 3
  MaxInFlight = 1
  Consumers = {c1}
  Clash <- AllClash
SYMMETRY Symmetry
SPECIFICATION RosterSpec
INVARIANTS UnflaggedClashesWereMissed CancelledShiftsAreClean StaleFindingsNameAWithdrawnShift
