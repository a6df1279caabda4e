SPECIFICATION FairSpec
CONSTANTS
  t1 = t1  t2 = t2  u1 = u1  pod1 = pod1
  Pids = {"camera"}
  Users = {u1}
  Pods = {}
  Pub = Pub
  Peers = {a, b}
  Receivers = {t1, t2}
  Owner <- OwnerTwo
  Commands = {"fakeoffer", "sub", "answer"}
  Nil = Nil
INVARIANTS PeersHeld
PROPERTIES FailedPublisherReleased
CHECK_DEADLOCK FALSE
