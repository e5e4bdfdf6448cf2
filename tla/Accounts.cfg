\* Three requests of any kind about two addresses, one with an account.
CONSTANTS
  Email = {e1, e2}
  Code = {k1, k2}
  Field = {"nickname"}
  Req = {r1, r2, r3}
  Registered = {e1}
  None = None
SYMMETRY Interchangeable
SPECIFICATION Spec
INVARIANTS TypeOK RegisteredOpens AccountIsComplete CodeServesOnceInSequence
  MailedCodeIsAccepted SequentialSendsAreLimited OnlyLateUploadsOverwrite
CHECK_DEADLOCK FALSE
