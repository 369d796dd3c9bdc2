\* Three requests on two pods: every interleaving of their statements.
CONSTANTS
  Requests = {1, 2, 3}
  Pods = {p1, p2}
  Shifts = {s1}
  Workers = {w1, w2}
  NoWorker = NoWorker
  MaxVersion = 2
  PoolSize = 2
  MaxInFlight = 3
SPECIFICATION CanonicalSpec
INVARIANTS OneUndisturbedWinner AcceptedClaimSurvives AnswersAreHonest
PROPERTIES CancelledIsFinal AtomicUnlessOvertaken LossyLifecycle EveryRequestEnds
