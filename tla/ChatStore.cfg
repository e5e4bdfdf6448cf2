\* Two frames of two users who become friends meanwhile, two marks of one, a paging client.
CONSTANTS
  u1 = u1  u2 = u2  c1 = c1  f1 = f1  f2 = f2  f3 = f3  m1 = m1  m2 = m2  h1 = h1
  Uid = {u1, u2}
  Conv = {c1}
  Applicant <- ApplicantU
  ApplyMsg <- ApplyMsgN
  Frame = {f1, f2}
  Mark = {m1, m2}
  Reader = {h1}
  Member <- MemberU
  From <- FromU
  To <- ToU
  Device <- DeviceD
  Carried <- CarriedC
  Marker <- MarkerU
  Marked <- MarkedC
  Pager <- PagerU
  Paged <- PagedC
  PageSize = 2
  NoConv = NoConv
SYMMETRY Interchangeable
SPECIFICATION Spec
INVARIANTS TypeOK ToldIsStored MessageIsBetweenMembers NewIsUnread  HistoryInOrder HistoryComplete
CHECK_DEADLOCK FALSE
