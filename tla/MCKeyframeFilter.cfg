SPECIFICATION Spec
CONSTANTS
  Callers = {c1, c2}
  Loops = {g1, g2}
  Timers = {x, y}
  Nil = Nil
  MinInterval = 1
  MaxInterval = 2
  MaxConnect = 2
  MaxTry = 1
  MaxNow = 1
SYMMETRY Symmetry
CHECK_DEADLOCK FALSE
INVARIANTS TypeOK NoStuckCache ShutdownEnds
CONSTRAINT Orderly
