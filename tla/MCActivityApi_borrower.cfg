CONSTANTS
  r1 = r1
  r2 = r2
  r3 = r3
  u1 = u1
  u2 = u2
  t1 = t1
  t2 = t2
  p1 = p1
  Requests = {r1, r2, r3}
  Users = {u1, u2}
  Txs = {t1}
  Pools = {p1}
SPECIFICATION Spec
CHECK_DEADLOCK FALSE
INVARIANTS
  EveryParticipantRecorded
