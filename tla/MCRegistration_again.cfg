SPECIFICATION FairSpec
CONSTANTS
  ClusterIds = {c1}
  NoCluster = NoCluster
  Receivers = {t1, t2}
  MaxNet = 2
  MaxRestart = 1
CHECK_DEADLOCK FALSE
PROPERTY RegistersAgain
