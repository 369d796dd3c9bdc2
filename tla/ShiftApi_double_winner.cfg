\* Two claims of one open shift both win.
CONSTANTS
  Requests = {r1, r2}
  Pods = {p1, p2}
  Shifts = {s1}
  Workers = {w1, w2}
  NoWorker = NoWorker
  MaxVersion = 2
  PoolSize = 2
  MaxInFlight = 2
SPECIFICATION Spec
INVARIANTS AtMostOneWinner
