\* Two replicas, three deliveries, two faults; any two of an event, an ignored
\* message, a poison and an unreadable one are sent.
CONSTANTS
  Consumers = {c1, c2}
  Handled = {h1}
  Ignored = {i1}
  Poison = {x1}
  Unreadable = {u1}
  MaxDelivery = 3
  BatchSize = 2
  MaxFaults = 2
  MaxSent = 2
SPECIFICATION FairSpec
INVARIANTS CompletedWasProcessed LedgerTellsWhatWasApplied AppliedOncePerReplica
  AppliedTwiceTakesALostLock WorkLostOnlyByRepeatedBreaks
PROPERTIES EveryEventIsScanned EverySentIsSettled DrainEnds
