\* Liveness: one device with a frame of its own, two broadcasts to it and one
\* to a user of the same shard.
CONSTANTS
  u1 = u1  u2 = u2  s1 = s1  c1 = c1  c2 = c2  t1 = t1  t2 = t2  t3 = t3
  Uid = {u1, u2}
  Conn = {c1}
  Task = {t1, t2, t3}
  Shard = {s1}
  Owner <- AllOfU1
  Target <- T3ToU2
  getShard <- OneShard
  BufCap = 1
  MaxFrames <- FrameOfC1
  Ready = Ready
  Reply = Reply
  NoConn = NoConn
SPECIFICATION FairSpec
INVARIANT OnlyTargetIsReached
PROPERTIES QueuedIsWritten GoneIsRemoved BroadcastReturns
CHECK_DEADLOCK FALSE
