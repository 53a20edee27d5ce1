SPECIFICATION FairPlanSpec
CONSTANTS
  Checkouts = {c1, c2}
  Clicks = {t1}
  Inquiries = {i1}
  StripeStatuses = {"active", "past_due", "incomplete"}
  MaxChanges = 1
  MaxAdmin = 1
  MaxSlips = 1
  NoId = NoId
CHECK_DEADLOCK FALSE
INVARIANTS
  SettledPlan
PROPERTY
  PaymentGrantsPro
