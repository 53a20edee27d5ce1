SPECIFICATION FeaturesSpec
CONSTANTS
  Visitors = {v1, v2}
  Transforms = {t1}
  Limits = {1}
  MaxVisits = 3
  MaxLosses = 1
  None = None
  u1 = u1
  u2 = u2
  f1 = f1
  f2 = f2
  Users = {u1, u2}
  FolderIds = {d1, d2, d3}
  Names = {a, b}
  Files = {f1, f2}
  OwnerOf <- OwnerOfFile
  Tags = {x, y}
  Slots = {s1, s2}
  MaxCalls = 4
  MaxFaults = 1
  Root = Root
  o1 = o1
  x1 = x1
  Zips = {z1, z2, z3}
  Clients = {c1, c2}
  OwnFiles = {o1}
  EntryOf <- EntryOfFile
  Asks <- AskedFiles
  MaxZipPending = 1
  MaxDeliveries = 2
  MaxZipFaults = 1
  Hooks = {h1, h2}
  Urls = {w1, w2}
  Subscriptions <- JobEvents
  DeliveryIds = {r1, r2}
  Dispatchers = {g1}
  Posters = {p1, p2}
  MaxTries = 2
  MaxEdits = 2
  MaxHookFaults = 1
  MaxPage = 3
  Width = 6
  Connections = {n1, n2}
  CallerOf <- OneUser
  Rate = 2
  Burst = 3
  Ticks = 2
  IdleSeconds = 2
  Viewers = {e1}
  VariantsOf <- JobsOf
  MaxViews = 1
  MaxViewFaults = 1
SYMMETRY FeatureIdentities
CHECK_DEADLOCK FALSE
INVARIANTS
  ServedBounded
  PathFollowsParent
  ShownOnce
  PendingBounded
  LatePostsBounded
  WithinRate
  ShowsWhatIsThere
