\* A mark between two sends.
CONSTANTS
  u1 = u1  u2 = u2  c1 = c1  f1 = f1  f2 = f2  f3 = f3  m1 = m1  m2 = m2  h1 = h1
  Uid = {u1, u2}
  Conv = {c1}
  Applicant <- ApplicantU
  ApplyMsg <- ApplyMsgN
  Frame = {f1, f2, f3}
  Mark = {m1}
  Reader = {}
  Member <- MemberU
  From <- FromU
  To <- ToU
  Device <- DeviceD
  Carried <- CarriedC
  Marker <- MarkerU
  Marked <- MarkedC
  Pager <- PagerU
  Paged <- PagedC
  PageSize = 1
  NoConv = NoConv
SPECIFICATION Spec
INVARIANT OfflineIsUnread
CHECK_DEADLOCK FALSE
