\* One user with two devices one of which sends a frame, one broadcast to him.
CONSTANTS
  u1 = u1  u2 = u2  s1 = s1  c1 = c1  c2 = c2  t1 = t1  t2 = t2  t3 = t3
  Uid = {u1}
  Conn = {c1, c2}
  Task = {t1}
  Shard = {s1}
  Owner <- AllOfU1
  Target <- AllToU1
  getShard <- OneShard
  BufCap = 1
  MaxFrames <- FrameOfC1
  Ready = Ready
  Reply = Reply
  NoConn = NoConn
SPECIFICATION Spec
INVARIANTS TypeOK MutualExclusion PoolIsTruthful OfflineReachedNobody NilIsHeldOrDeviceEnded WireIsInOrder
PROPERTY ImplementsOutbox
CHECK_DEADLOCK FALSE
