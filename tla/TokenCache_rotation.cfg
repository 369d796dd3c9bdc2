\* Two threads and one key, over three times the time to live.
CONSTANTS
  Threads = {t1, t2}
  Keys = {k1}
  TTL = 2
  Patience = 1
  MaxTime = 6
SPECIFICATION Spec
SYMMETRY Symmetry
INVARIANTS WithdrawnKeysExpire SettledKeysAreKnown
