SPECIFICATION Spec
CONSTANTS
  Browsers = {b1, b2}
  Passwords = {p1, p2}
  MaxRequests = 4
  MaxUpsets = 1
  None = None
CHECK_DEADLOCK FALSE
INVARIANTS
  KeepsSignIn
  LiveLinksBounded
