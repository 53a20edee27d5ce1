SPECIFICATION Spec
CONSTANTS
  Polls = {p1, p2}
  Approvals = {a1}
  MaxErrors = 2
  NoKey = NoKey
  NoPoll = NoPoll
CHECK_DEADLOCK FALSE
INVARIANT ApprovedAnswerHasKey
