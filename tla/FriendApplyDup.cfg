\* Two users apply to each other at the same time, nobody answers yet.
CONSTANTS
  u1 = u1  u2 = u2  a1 = a1  a2 = a2  q1 = q1  q2 = q2
  Uid = {u1, u2}
  Apply = {a1, a2}
  From <- FromU
  To <- ToU
  Update = {q1}
  NoApply = NoApply
  NoConv = NoConv
SPECIFICATION Spec
INVARIANT NoDuplicatePending
CHECK_DEADLOCK FALSE
