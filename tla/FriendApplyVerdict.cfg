\* One application, answered by two requests of the addressee.
CONSTANTS
  u1 = u1  u2 = u2  a1 = a1  a2 = a2  q1 = q1  q2 = q2
  Uid = {u1, u2}
  Apply = {a1}
  From <- FromU
  To <- ToU
  Update = {q1, q2}
  NoApply = NoApply
  NoConv = NoConv
SPECIFICATION Spec
INVARIANT ToldVerdictIsStored
CHECK_DEADLOCK FALSE
