SPECIFICATION FairSpec
CONSTANTS
  Order <- OrderTwo
  Producers <- ProducersOne
  Unguarded = {"dr"}
  Exs = {e1, e2, e3}
  Threads = {t1, t2}
  Senders = {s1}
  MaxBlk = 1
  Nil = Nil
INVARIANTS TypeOK OneKeeper Attended
PROPERTIES KeepsLink LostForGood Reconnects
CHECK_DEADLOCK FALSE
