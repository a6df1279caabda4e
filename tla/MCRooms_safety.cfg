SPECIFICATION Spec
CONSTANTS
  o1 = o1 o2 = o2 t1 = t1 t2 = t2
  RoomIds = {r1}
  LocalUsers = {u1}
  RemoteUsers = {u1}
  Pods = {p1}
  RoomObj = {o1, o2}
  Receivers = {t1, t2}
  NoRoom = NoRoom NoSess = NoSess NoPod = NoPod
  MaxRel = 1
  MaxKick = 1
SYMMETRY Symmetry
CHECK_DEADLOCK FALSE
INVARIANTS TypeOK NoZombieRoom
