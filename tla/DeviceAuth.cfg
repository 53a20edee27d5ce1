SPECIFICATION FairSpec
CONSTANTS
  Polls = {p1, p2, p3}
  Approvals = {a1, a2}
  MaxErrors = 2
  NoKey = NoKey
  NoPoll = NoPoll
CHECK_DEADLOCK FALSE
INVARIANTS
  KeyWorks
PROPERTY
  LoginEnds
