SPECIFICATION FairSpec
CONSTANTS
  Order <- OrderTwo
  Producers <- ProducersOne
  Unguarded = {}
  Exs = {e1, e2, e3}
  Threads = {t1, t2}
  Senders = {}
  MaxBlk = 1
  Nil = Nil
PROPERTIES TriesAgain
CHECK_DEADLOCK FALSE
