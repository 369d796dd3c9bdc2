\* Two replicas, three events about two shifts: every interleaving of two scans.
CONSTANTS
  Consumers = {c1, c2}
  Events = {e1, e2, e3}
  NoEvent = NoEvent
  Shifts = {s1, s2}
  Clash <- AllClash
  Workers = {w1}
  NoWorker = NoWorker
SPECIFICATION FairSpec
INVARIANTS LedgerMeansScanned NoDuplicatesOfOneReplica
PROPERTIES FindingsNeverFlicker EventsAreSettled
