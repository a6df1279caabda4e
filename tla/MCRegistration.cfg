SPECIFICATION FairSpec
CONSTANTS
  ClusterIds = {c1}
  NoCluster = NoCluster
  Receivers = {t1, t2}
  MaxNet = 2
  MaxRestart = 2
CHECK_DEADLOCK FALSE
INVARIANTS TypeOK RegisteredHasCluster AsksUntilAccepted
PROPERTIES GivenUpForGood FirstRegistration
