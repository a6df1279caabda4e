SPECIFICATION Spec
CONSTANTS
  t1 = t1  t2 = t2  u1 = u1  pod1 = pod1
  Pids = {"camera"}
  Users = {u1}
  Pods = {}
  Pub = Pub
  Peers = {a, b, c}
  Receivers = {t1, t2}
  Owner <- OwnerTwo
  Commands = {"publish", "stoppush", "offer", "sub", "stopsub", "answer"}
  Nil = Nil
SYMMETRY Symmetric
INVARIANTS LeaveCleansAll
CHECK_DEADLOCK FALSE
