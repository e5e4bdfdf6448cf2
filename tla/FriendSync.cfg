\* One device of a user with two friends, one application from and one to the
\* user, two answers; pages of one friend.
CONSTANTS
  u0 = u0  u1 = u1  u2 = u2  u3 = u3  u4 = u4
  o1 = o1  o2 = o2  sent = sent  come = come
  Uid = {u0, u1, u2, u3, u4}
  Apply = {o1, o2, sent, come}
  From <- FromU
  To <- ToU
  Old = {o1, o2}
  Answer = {q1, q2}
  Device = {d1}
  Owner <- OwnerU
  Lister = u0
  PageSize = 1
  None = None
SYMMETRY Interchangeable
SPECIFICATION Spec
INVARIANTS TypeOK SyncedIsCurrent FriendsListed RepeatsOnlyByGrowth
CHECK_DEADLOCK FALSE
