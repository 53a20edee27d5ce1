SPECIFICATION Spec
CONSTANTS
  Requests = {r1, r2}
  Files = {clip}
  Videos = {clip}
  Kinds = {"lg", "webp", "mp4_1080p", "hls"}
  MaxAsk = 2
  MaxWorked = 1
  FreeLimit = 1
  ProLimit = 2
  FirstTiers = {"pro"}
  MaxUpsets = 1
  NoFile = NoFile
SYMMETRY Interchangeable
CHECK_DEADLOCK FALSE
INVARIANTS
  OverrunBounded
  CountedOnce
  BatchAccountsForJobs
