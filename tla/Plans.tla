------------------------------- MODULE Plans -------------------------------
(***************************************************************************)
(* The plan of one user: the billing columns of the row in users, written  *)
(* by the trial button, by Stripe's events, by administrators and by an    *)
(* approved enterprise inquiry.  Stripe sells subscriptions through the    *)
(* checkout sessions the program opens and reports what becomes of them    *)
(* in events, each repeated until it is answered 200, in any order.        *)
(***************************************************************************)
EXTENDS Naturals, FiniteSets, Sequences

CONSTANTS Checkouts,   \* requests for a checkout session; the customer and
                       \* the subscription one leads to bear its name
          Clicks,      \* requests to start a trial
          Inquiries,   \* enterprise contact forms
          StripeStatuses, \* of subscriptions that have not ended
          MaxChanges,  \* bound: changes of subscriptions at Stripe
          MaxAdmin,    \* bound: requests of administrators
          MaxSlips,   \* bound: failed statements and repeated events
          NoId

\* The first payment of a subscription is made, or not settled yet.
FirstStatuses == {"active", "incomplete"}

ASSUME PlanAssumption ==
  /\ NoId \notin Checkouts /\ IsFiniteSet(Checkouts)
  /\ FirstStatuses \subseteq StripeStatuses
  /\ {"none", "deleted"} \cap StripeStatuses = {}

VARIABLES
  plan,       \* users: tier, status, sub, customer, and the tier whose
              \* files_limit and transformations_limit the row holds
  stripe,     \* status of each subscription at Stripe
  outbox,     \* events Stripe still has to deliver
  sent, seen, \* per subscription: events sent, and handled in their order
  orderly,    \* every event so far was handled once and in order
  meddled,    \* something else wrote the plan since the last subscription
  checkout, customerOf,  \* per checkout: next step, the customer it uses
  click,      \* per trial request: next step
  inquiry,    \* enterprise_inquiries.status, and the steps before it
  approving,  \* approvals whose upgrade is still to come
  changes, admin, slips

stripeVars == <<stripe, sent, changes>>
eventVars == <<outbox, seen, orderly>>
checkoutVars == <<checkout, customerOf>>
inquiryVars == <<inquiry, approving, admin>>
planVars == <<plan, meddled, stripeVars, eventVars, checkoutVars, click, inquiryVars,
          slips>>

Tiers == {"free", "pro", "enterprise"}

PlanInit ==
  /\ plan = [tier |-> "free", status |-> "none", sub |-> NoId, customer |-> NoId,
            filesOf |-> "free", transformationsOf |-> "free"]
  /\ stripe = [c \in Checkouts |-> "none"]
  /\ outbox = {}
  /\ sent = [c \in Checkouts |-> 0]
  /\ seen = [c \in Checkouts |-> 0]
  /\ orderly = TRUE
  /\ meddled = FALSE
  /\ checkout = [c \in Checkouts |-> "start"]
  /\ customerOf = [c \in Checkouts |-> NoId]
  /\ click = [c \in Clicks |-> "start"]
  /\ inquiry = [i \in Inquiries |-> "start"]
  /\ approving = {}
  /\ changes = 0
  /\ admin = 0
  /\ slips = 0

Slip == slips < MaxSlips /\ slips' = slips + 1

----------------------------------------------------------------------------
(* The trial button: the plan is read, then written.                       *)

\* A payment that is past due counts as active for a grace period.
IsActive(graceOver) == \/ plan.status \in {"active", "trialing"}
                       \/ plan.status = "past_due" /\ ~graceOver
IsPro(graceOver) == plan.tier # "free" /\ IsActive(graceOver)

ReadPlan(c) ==
  /\ click[c] = "start"
  /\ \E graceOver \in BOOLEAN :
       click' = [click EXCEPT ![c] =
                   IF IsPro(graceOver) \/ plan.status \in {"trialing", "canceled"}
                   THEN "refused" ELSE "write"]
  /\ UNCHANGED <<plan, meddled, stripeVars, eventVars, checkoutVars, inquiryVars,
                 slips>>

StartTrial(c) ==
  /\ click[c] = "write"
  /\ click' = [click EXCEPT ![c] = "done"]
  /\ \/ /\ plan' = [plan EXCEPT !.tier = "pro", !.status = "trialing",
                              !.filesOf = "pro"]
        /\ meddled' = TRUE
        /\ UNCHANGED slips
     \/ Slip /\ UNCHANGED <<plan, meddled>>
  /\ UNCHANGED <<stripeVars, eventVars, checkoutVars, inquiryVars>>

----------------------------------------------------------------------------
(* Checkout: a customer is made at Stripe unless the row names one, then   *)
(* a session is opened, which the user pays.                               *)

FindCustomer(c) ==
  /\ checkout[c] = "start"
  /\ IF plan.customer # NoId
     THEN /\ customerOf' = [customerOf EXCEPT ![c] = plan.customer]
          /\ checkout' = [checkout EXCEPT ![c] = "session"]
     ELSE /\ customerOf' = [customerOf EXCEPT ![c] = c]
          /\ checkout' = [checkout EXCEPT ![c] = "store"]
  /\ UNCHANGED <<plan, meddled, stripeVars, eventVars, click, inquiryVars, slips>>

StoreCustomer(c) ==
  /\ checkout[c] = "store"
  /\ \/ /\ plan' = [plan EXCEPT !.customer = customerOf[c]]
        /\ checkout' = [checkout EXCEPT ![c] = "session"]
        /\ UNCHANGED slips
     \/ /\ Slip
        /\ checkout' = [checkout EXCEPT ![c] = "failed"]
        /\ UNCHANGED plan
  /\ UNCHANGED <<meddled, stripeVars, eventVars, customerOf, click, inquiryVars>>

\* The portal shows the subscriptions of the customer the row names.
InPortal == {c \in Checkouts : /\ plan.customer # NoId
                               /\ stripe[c] \notin {"none", "deleted"}
                               /\ customerOf[c] = plan.customer}

----------------------------------------------------------------------------
(* Stripe.                                                                 *)

Emit(c, kind, status) ==
  /\ stripe' = [stripe EXCEPT ![c] = status]
  /\ sent' = [sent EXCEPT ![c] = @ + 1]
  /\ outbox' = outbox \cup
       {[sub |-> c, n |-> sent[c] + 1, kind |-> kind, status |-> status]}
  /\ UNCHANGED <<plan, meddled, seen, orderly, click, inquiryVars, customerOf,
                 slips>>

Pay(c) ==
  /\ checkout[c] = "session"
  /\ checkout' = [checkout EXCEPT ![c] = "paid"]
  /\ \E s \in FirstStatuses : Emit(c, "created", s)
  /\ UNCHANGED changes

ChangeStatus(c) ==
  /\ stripe[c] \notin {"none", "deleted"}
  /\ changes < MaxChanges
  /\ changes' = changes + 1
  /\ \/ \E s \in StripeStatuses \ {stripe[c]} : Emit(c, "updated", s)
     \/ Emit(c, "deleted", "deleted")
  /\ UNCHANGED checkout

----------------------------------------------------------------------------
(* The webhook: one statement per event, whatever came before.             *)

\* The row knows fewer statuses than Stripe has.
MapStripeStatus(s) ==
  IF s \in {"trialing", "active", "past_due", "canceled", "unpaid"} THEN s ELSE "none"

\* Whatever the status, the tier is Pro.
HandleSubscriptionCreated(e) ==
  plan' = [plan EXCEPT !.sub = e.sub, !.status = MapStripeStatus(e.status),
                     !.tier = "pro", !.filesOf = "pro"]

\* The tier stays what it is, whatever the status.
HandleSubscriptionUpdated(e) ==
  plan' = [plan EXCEPT !.status = MapStripeStatus(e.status)]

\* Mutant: the subscription's id stays, as long as its status is known.
DeletedKeepsId(e) ==
  plan' = [plan EXCEPT !.status = "canceled", !.tier = "free", !.filesOf = "free"]

HandleSubscriptionDeleted(e) ==
  plan' = [plan EXCEPT !.sub = NoId, !.status = "canceled", !.tier = "free",
                     !.filesOf = "free"]

HandleEvent(e) ==
  \/ e.kind = "created" /\ HandleSubscriptionCreated(e) /\ meddled' = FALSE
  \/ e.kind = "updated" /\ HandleSubscriptionUpdated(e) /\ UNCHANGED meddled
  \/ e.kind = "deleted" /\ HandleSubscriptionDeleted(e) /\ UNCHANGED meddled

\* Answered 200: the event is gone, or the answer was lost and it stays.
Deliver(e) ==
  /\ e \in outbox
  /\ HandleEvent(e)
  /\ \/ outbox' = outbox \ {e} /\ UNCHANGED slips
     \/ Slip /\ UNCHANGED outbox
  /\ seen' = [seen EXCEPT ![e.sub] = IF e.n = @ + 1 THEN e.n ELSE @]
  /\ orderly' = (orderly /\ e.n = seen[e.sub] + 1)
  /\ UNCHANGED <<stripeVars, checkoutVars, click, inquiryVars>>

\* Mutant: a statement that fails is answered 200.
FailQuietly(e) ==
  /\ e \in outbox
  /\ Slip
  /\ outbox' = outbox \ {e}
  /\ orderly' = FALSE
  /\ UNCHANGED <<plan, meddled, stripeVars, seen, checkoutVars, click,
                 inquiryVars>>

\* Answered 500: Stripe sends the event again.
FailEvent(e) ==
  /\ e \in outbox
  /\ Slip
  /\ UNCHANGED <<plan, meddled, stripeVars, eventVars, checkoutVars, click,
                 inquiryVars>>

----------------------------------------------------------------------------
(* Administrators and the enterprise inquiry.                              *)

UpdateUserTier(t) ==
  /\ admin < MaxAdmin
  /\ admin' = admin + 1
  /\ plan' = [plan EXCEPT !.tier = t, !.filesOf = t, !.transformationsOf = t,
                        !.status = IF t = "free" THEN "none" ELSE "active"]
  /\ meddled' = TRUE
  /\ UNCHANGED <<stripeVars, eventVars, checkoutVars, click, inquiry, approving,
                 slips>>

\* The form looks for a pending inquiry (an error counts as none) and then
\* inserts one.
HasPending(i) ==
  /\ inquiry[i] = "start"
  /\ \/ /\ inquiry' = [inquiry EXCEPT ![i] =
             IF \E j \in Inquiries : inquiry[j] = "pending" THEN "refused"
             ELSE "insert"]
        /\ UNCHANGED slips
     \/ Slip /\ inquiry' = [inquiry EXCEPT ![i] = "insert"]
  /\ UNCHANGED <<plan, meddled, stripeVars, eventVars, checkoutVars, click,
                 approving, admin>>

CreateEnterpriseInquiry(i) ==
  /\ inquiry[i] = "insert"
  /\ inquiry' = [inquiry EXCEPT ![i] = "pending"]
  /\ UNCHANGED <<plan, meddled, stripeVars, eventVars, checkoutVars, click,
                 approving, admin, slips>>

\* A decision does not ask whether the inquiry is still pending.
ProcessInquiry(i, decision) ==
  /\ admin < MaxAdmin
  /\ admin' = admin + 1
  /\ inquiry[i] \in {"pending", "approved", "rejected"}
  /\ inquiry' = [inquiry EXCEPT ![i] = decision]
  /\ approving' = IF decision = "approved" THEN approving \cup {i} ELSE approving
  /\ UNCHANGED <<plan, meddled, stripeVars, eventVars, checkoutVars, click, slips>>

UpdateUserToEnterprise(i) ==
  /\ i \in approving
  /\ approving' = approving \ {i}
  /\ \/ /\ plan' = [plan EXCEPT !.tier = "enterprise", !.status = "active",
                              !.filesOf = "enterprise",
                              !.transformationsOf = "enterprise"]
        /\ meddled' = TRUE
        /\ UNCHANGED slips
     \/ Slip /\ UNCHANGED <<plan, meddled>>     \* only logged
  /\ UNCHANGED <<stripeVars, eventVars, checkoutVars, click, inquiry, admin>>

PlanNext ==
  \/ \E c \in Clicks : ReadPlan(c) \/ StartTrial(c)
  \/ \E c \in Checkouts : FindCustomer(c) \/ StoreCustomer(c) \/ Pay(c)
                            \/ ChangeStatus(c)
  \/ \E e \in outbox : Deliver(e) \/ FailEvent(e)
  \/ \E t \in Tiers : UpdateUserTier(t)
  \/ \E i \in Inquiries : \/ HasPending(i) \/ CreateEnterpriseInquiry(i)
                          \/ UpdateUserToEnterprise(i)
                          \/ \E d \in {"approved", "rejected"} : ProcessInquiry(i, d)

PlanSpec == PlanInit /\ [][PlanNext]_planVars

Created(c) == {e \in outbox : e.sub = c /\ e.kind = "created"}

\* Stripe repeats an event until it is answered.
FairPlanSpec ==
  PlanSpec /\ \A c \in Checkouts : WF_planVars(\E e \in Created(c) : Deliver(e))

----------------------------------------------------------------------------
Ever == {c \in Checkouts : stripe[c] # "none"}

\* Once all events of the user's only subscription were handled, in order
\* and once each, and nothing else wrote the plan since, the plan says what
\* Stripe says: the subscription, the Pro tier and its status, "none" where
\* the row has no word for it (a first payment that is not settled, a pause);
\* or, after its end, no subscription and the free tier.
SettledPlan ==
  outbox = {} /\ orderly /\ ~meddled /\ Cardinality(Ever) = 1 =>
    \A c \in Ever :
      IF stripe[c] = "deleted"
      THEN plan.tier = "free" /\ plan.status = "canceled" /\ plan.sub = NoId
      ELSE /\ plan.tier = "pro" /\ plan.sub = c
           /\ plan.status = MapStripeStatus(stripe[c])

\* Whoever wrote the plan last, the files limit is the one of the tier.
FilesLimitFollowsTier == plan.filesOf = plan.tier

\* The event of a finished checkout brings the Pro tier, however often handling
\* it fails at first and whether the subscription is active or incomplete.
PaymentGrantsPro ==
  \A c \in Checkouts : (Created(c) # {}) ~> (plan.tier = "pro")

\* The transformations limit is the one of the tier, as the table of limits
\* in the documentation has it.
TransformationsLimitFollowsTier == plan.transformationsOf = plan.tier

\* With all events handled in order, the user is Pro while any subscription
\* is active.
SubscriberIsPro ==
  outbox = {} /\ orderly /\ ~meddled /\ (\E c \in Ever : stripe[c] = "active")
    => plan.tier = "pro"

\* A trial takes nothing from a subscriber.
TrialKeepsSubscription ==
  [][(\E c \in Clicks : StartTrial(c)) => plan.sub = NoId]_planVars

\* The page of the portal shows the user's subscription.
PortalShowsSubscription == plan.sub # NoId => plan.sub \in InPortal

\* A user has one pending inquiry at most.
OnePending == Cardinality({i \in Inquiries : inquiry[i] = "pending"}) <= 1
============================================================================
