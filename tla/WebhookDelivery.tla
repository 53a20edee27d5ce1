-------------------------- MODULE WebhookDelivery --------------------------
(***************************************************************************)
(* Deliveries of one webhook: the rows the API creates, the messages that  *)
(* carry them, the worker handler that posts them to the owner's endpoint, *)
(* and the dead letter queue that takes what was refused too often and     *)
(* lets the owner retry it.  A worker may die between any two calls and    *)
(* its message comes back; database calls fail, most of them silently.     *)
(***************************************************************************)
EXTENDS Naturals, FiniteSets

CONSTANTS Deliveries,         \* ids for rows of webhook_deliveries
          Entries,            \* ids for rows of webhook_dlq
          Workers, Requests,  \* worker goroutines; retry requests of the owner
          MaxAttempts,        \* maxRetries of the handler
          MaxDeliveries,      \* bound: how often the broker hands out a message
          HandlerRegistered,  \* the worker registers webhook_delivery
          None                \* not a delivery, not an entry

ASSUME ConstantsAssumption == /\ MaxAttempts \in Nat \ {0}
                              /\ MaxDeliveries \in Nat \ {0}
                              /\ HandlerRegistered \in BOOLEAN
                              /\ None \notin Deliveries \cup Entries

VARIABLES
  status,     \* status of each row: "none" before, "gone" after its lifetime
  attempts,   \* its attempts column
  msg,        \* its message, as in JobLifecycle
  handed,     \* how often the broker has handed the message out
  posts,      \* POST requests that were sent for it
  accepted,   \* deliveries that the endpoint has processed
  webhook,    \* "there" or "deleted"
  entry,      \* "none", "retryable", "retried" or "deleted", for each entry
  entryOf,    \* the delivery an entry was made from
  entryTries, \* its attempts column
  origin,     \* the entry whose retry created a delivery (not a column)
  step, at, seen,     \* per worker: next call, its delivery, attempts it read
  asks, asked, fresh  \* per request: next call, its entry, its new delivery

rowVars == <<status, attempts>>
msgVars == <<msg, handed>>
endVars == <<posts, accepted>>
dlqVars == <<entry, entryOf, entryTries>>
workerVars == <<step, at, seen>>
requestVars == <<asks, asked, fresh>>
vars == <<rowVars, msgVars, endVars, webhook, dlqVars, origin, workerVars,
          requestVars>>

\* Every variable stays within its range.
TypeOK ==
  /\ status \in [Deliveries -> {"none", "pending", "retrying", "success",
                                "failed", "gone"}]
  /\ attempts \in [Deliveries -> Nat]
  /\ msg \in [Deliveries -> {"none", "unsent", "lost", "ready", "held",
                             "acked", "dead"}]
  /\ handed \in [Deliveries -> 0 .. MaxDeliveries]
  /\ posts \in [Deliveries -> Nat]
  /\ accepted \in SUBSET Deliveries
  /\ webhook \in {"there", "deleted"}
  /\ entry \in [Entries -> {"none", "retryable", "retried", "deleted"}]
  /\ entryOf \in [Entries -> Deliveries \cup {None}]
  /\ entryTries \in [Entries -> Nat]
  /\ origin \in [Deliveries -> Entries \cup {None}]
  /\ step \in [Workers -> {"idle", "get", "post", "ok", "refused", "dlq"}]
  /\ at \in [Workers -> Deliveries \cup {None}]
  /\ seen \in [Workers -> Nat]
  /\ asks \in [Requests -> {"idle", "create", "enqueue", "mark"}]
  /\ asked \in [Requests -> Entries \cup {None}]
  /\ fresh \in [Requests -> Deliveries \cup {None}]

Init ==
  /\ status = [d \in Deliveries |-> "none"]
  /\ attempts = [d \in Deliveries |-> 0]
  /\ msg = [d \in Deliveries |-> "none"]
  /\ handed = [d \in Deliveries |-> 0]
  /\ posts = [d \in Deliveries |-> 0]
  /\ accepted = {}
  /\ webhook = "there"
  /\ entry = [e \in Entries |-> "none"]
  /\ entryOf = [e \in Entries |-> None]
  /\ entryTries = [e \in Entries |-> 0]
  /\ origin = [d \in Deliveries |-> None]
  /\ step = [w \in Workers |-> "idle"]
  /\ at = [w \in Workers |-> None]
  /\ seen = [w \in Workers |-> 0]
  /\ asks = [r \in Requests |-> "idle"]
  /\ asked = [r \in Requests |-> None]
  /\ fresh = [r \in Requests |-> None]

-----------------------------------------------------------------------------
(* Dispatcher.Dispatch and TestWebhookHandler                              *)

\* The row refers to the webhook, so it cannot be created after the delete.
InsertRow(d) ==
  /\ webhook = "there"
  /\ status[d] = "none"
  /\ status' = [status EXCEPT ![d] = "pending"]

Dispatch(d) ==
  /\ InsertRow(d)
  /\ msg' = [msg EXCEPT ![d] = "unsent"]
  /\ UNCHANGED <<attempts, handed, endVars, webhook, dlqVars, origin,
                 workerVars, requestVars>>

\* The error of the broker is logged and the pending row stays.
Enqueue(d) ==
  /\ msg[d] = "unsent"
  /\ \E m \in {"ready", "lost"} : msg' = [msg EXCEPT ![d] = m]
  /\ UNCHANGED <<rowVars, handed, endVars, webhook, dlqVars, origin, workerVars,
                 requestVars>>

-----------------------------------------------------------------------------
(* WebhookDeliveryHandler                                                  *)

Goto(w, s) == step' = [step EXCEPT ![w] = s]

\* Mutant: a message that was handed out too often stays with its consumer.
KeepHeld(d) == IF handed[d] < MaxDeliveries THEN "ready" ELSE "held"

\* What the broker does with a message whose handler failed.
GiveBack(d) == IF handed[d] < MaxDeliveries THEN "ready" ELSE "dead"

\* The handler is done with its message.
Settle(w, m) == /\ msg' = [msg EXCEPT ![at[w]] = m]
                /\ step' = [step EXCEPT ![w] = "idle"]
                /\ at' = [at EXCEPT ![w] = None]
                /\ seen' = [seen EXCEPT ![w] = 0]

Take(w, d) ==
  /\ HandlerRegistered
  /\ step[w] = "idle"
  /\ msg[d] = "ready"
  /\ msg' = [msg EXCEPT ![d] = "held"]
  /\ handed' = [handed EXCEPT ![d] = @ + 1]
  /\ at' = [at EXCEPT ![w] = d]
  /\ Goto(w, "get")
  /\ UNCHANGED <<rowVars, endVars, webhook, dlqVars, origin, seen, requestVars>>

\* The handler does not look at the status: a delivery that has succeeded or
\* failed before is posted again when its message comes back.
GetDelivery(w) ==
  /\ step[w] = "get"
  /\ status[at[w]] # "gone"
  /\ seen' = [seen EXCEPT ![w] = attempts[at[w]]]
  /\ Goto(w, "post")
  /\ UNCHANGED <<rowVars, msgVars, endVars, webhook, dlqVars, origin, at,
                 requestVars>>

\* The row is gone with its webhook, or the query fails.
GetFails(w) ==
  /\ step[w] = "get"
  /\ Settle(w, GiveBack(at[w]))
  /\ UNCHANGED <<rowVars, handed, endVars, webhook, dlqVars, origin, requestVars>>

\* A request that times out may have been processed all the same.
Post(w) ==
  /\ step[w] = "post"
  /\ posts' = [posts EXCEPT ![at[w]] = @ + 1]
  /\ \/ Goto(w, "ok") /\ accepted' = accepted \cup {at[w]}
     \/ Goto(w, "refused") /\ accepted' \in {accepted, accepted \cup {at[w]}}
  /\ UNCHANGED <<rowVars, msgVars, webhook, dlqVars, origin, at, seen, requestVars>>

\* One of the three updates of the row; its error is only logged.
Mark(w, s) ==
  \/ /\ status[at[w]] # "gone"
     /\ status' = [status EXCEPT ![at[w]] = s]
     /\ attempts' = [attempts EXCEPT ![at[w]] = @ + 1]
  \/ UNCHANGED rowVars

MarkSuccess(w) ==
  /\ step[w] = "ok"
  /\ Mark(w, "success")
  /\ Settle(w, "acked")
  /\ UNCHANGED <<handed, endVars, webhook, dlqVars, origin, requestVars>>

Exhausted(w) == seen[w] + 1 >= MaxAttempts

\* Mutant: a refused delivery is finished, the retry was written to its row.
RetryIsDone(w) ==
  /\ step[w] = "refused"
  /\ ~Exhausted(w)
  /\ Mark(w, "retrying")
  /\ Settle(w, "acked")
  /\ UNCHANGED <<handed, endVars, webhook, dlqVars, origin, requestVars>>

UpdateRetry(w) ==
  /\ step[w] = "refused"
  /\ ~Exhausted(w)
  /\ Mark(w, "retrying")
  /\ Settle(w, GiveBack(at[w]))
  /\ UNCHANGED <<handed, endVars, webhook, dlqVars, origin, requestVars>>

\* Mutant: off by one, the attempt under way is counted twice.
MarkFailedEarly(w) ==
  /\ step[w] = "refused"
  /\ seen[w] + 2 >= MaxAttempts
  /\ Mark(w, "failed")
  /\ Goto(w, "dlq")
  /\ UNCHANGED <<msgVars, endVars, webhook, dlqVars, origin, at, seen, requestVars>>

MarkFailed(w) ==
  /\ step[w] = "refused"
  /\ Exhausted(w)
  /\ Mark(w, "failed")
  /\ Goto(w, "dlq")
  /\ UNCHANGED <<msgVars, endVars, webhook, dlqVars, origin, at, seen, requestVars>>

\* A permanent error: the broker gives the message up whether or not the entry
\* could be created.
AddToDLQ(w) ==
  /\ step[w] = "dlq"
  /\ \/ /\ webhook = "there"
        /\ \E e \in Entries :
             /\ entry[e] = "none"
             /\ entry' = [entry EXCEPT ![e] = "retryable"]
             /\ entryOf' = [entryOf EXCEPT ![e] = at[w]]
             /\ entryTries' = [entryTries EXCEPT ![e] = seen[w] + 1]
     \/ UNCHANGED dlqVars
  /\ Settle(w, "dead")
  /\ UNCHANGED <<rowVars, handed, endVars, webhook, origin, requestVars>>

\* The worker dies, or the job runs into its timeout.
Crash(w) ==
  /\ step[w] # "idle"
  /\ Settle(w, GiveBack(at[w]))
  /\ UNCHANGED <<rowVars, handed, endVars, webhook, dlqVars, origin, requestVars>>

-----------------------------------------------------------------------------
(* RetryWebhookDLQHandler                                                  *)

Answer(r) == /\ asks' = [asks EXCEPT ![r] = "idle"]
             /\ asked' = [asked EXCEPT ![r] = None]
             /\ fresh' = [fresh EXCEPT ![r] = None]

\* The entry and its can_retry are read once, before anything is written.
ReadEntry(r, e) ==
  /\ asks[r] = "idle"
  /\ entry[e] = "retryable"
  /\ asks' = [asks EXCEPT ![r] = "create"]
  /\ asked' = [asked EXCEPT ![r] = e]
  /\ UNCHANGED <<rowVars, msgVars, endVars, webhook, dlqVars, origin, workerVars,
                 fresh>>

CreateRetry(r, d) ==
  /\ asks[r] = "create"
  /\ InsertRow(d)
  /\ origin' = [origin EXCEPT ![d] = asked[r]]
  /\ asks' = [asks EXCEPT ![r] = "enqueue"]
  /\ fresh' = [fresh EXCEPT ![r] = d]
  /\ UNCHANGED <<attempts, msgVars, endVars, webhook, dlqVars, workerVars, asked>>

\* Mutant: the entry is marked even if the new delivery was not queued.
MarkUnqueued(r) ==
  /\ asks[r] = "enqueue"
  /\ \E m \in {"ready", "lost"} : msg' = [msg EXCEPT ![fresh[r]] = m]
  /\ asks' = [asks EXCEPT ![r] = "mark"]
  /\ UNCHANGED <<rowVars, handed, endVars, webhook, dlqVars, origin, workerVars,
                 asked, fresh>>

EnqueueRetry(r) ==
  /\ asks[r] = "enqueue"
  /\ \/ /\ msg' = [msg EXCEPT ![fresh[r]] = "ready"]
        /\ asks' = [asks EXCEPT ![r] = "mark"]
        /\ UNCHANGED <<asked, fresh>>
     \/ msg' = [msg EXCEPT ![fresh[r]] = "lost"] /\ Answer(r)
  /\ UNCHANGED <<rowVars, handed, endVars, webhook, dlqVars, origin, workerVars>>

\* An UPDATE: it does nothing when the entry was deleted meanwhile.
MarkRetried(r) ==
  /\ asks[r] = "mark"
  /\ entry' \in {entry, [entry EXCEPT ![asked[r]] =
                           IF @ = "retryable" THEN "retried" ELSE @]}
  /\ Answer(r)
  /\ UNCHANGED <<rowVars, msgVars, endVars, webhook, entryOf, entryTries, origin,
                 workerVars>>

\* An insert fails, or the API process dies between two calls.
RequestFails(r) ==
  /\ asks[r] # "idle"
  /\ Answer(r)
  /\ UNCHANGED <<rowVars, msgVars, endVars, webhook, dlqVars, origin, workerVars>>

-----------------------------------------------------------------------------
(* DeleteWebhookDLQEntryHandler and DeleteWebhookHandler                   *)

DeleteEntry(e) ==
  /\ entry[e] \in {"retryable", "retried"}
  /\ entry' = [entry EXCEPT ![e] = "deleted"]
  /\ UNCHANGED <<rowVars, msgVars, endVars, webhook, entryOf, entryTries, origin,
                 workerVars, requestVars>>

\* The rows of deliveries and entries go with the webhook; messages stay.
DeleteWebhook ==
  /\ webhook = "there"
  /\ webhook' = "deleted"
  /\ status' = [d \in Deliveries |-> IF status[d] = "none" THEN "none" ELSE "gone"]
  /\ entry' = [e \in Entries |-> IF entry[e] = "none" THEN "none" ELSE "deleted"]
  /\ UNCHANGED <<attempts, msgVars, endVars, entryOf, entryTries, origin,
                 workerVars, requestVars>>

-----------------------------------------------------------------------------
HandlerStep(w) ==
  \/ GetDelivery(w) \/ GetFails(w) \/ Post(w) \/ MarkSuccess(w) \/ UpdateRetry(w)
  \/ MarkFailed(w) \/ AddToDLQ(w)

WorkerStep(w) == HandlerStep(w) \/ Crash(w) \/ \E d \in Deliveries : Take(w, d)

RequestStep(r) ==
  \/ \E e \in Entries : ReadEntry(r, e)
  \/ \E d \in Deliveries : CreateRetry(r, d)
  \/ EnqueueRetry(r) \/ MarkRetried(r) \/ RequestFails(r)

Next == \/ \E d \in Deliveries : Dispatch(d) \/ Enqueue(d)
        \/ \E w \in Workers : WorkerStep(w)
        \/ \E r \in Requests : RequestStep(r)
        \/ \E e \in Entries : DeleteEntry(e)
        \/ DeleteWebhook

\* Workers and broker run on; the endpoint may refuse for ever.
Fairness == /\ \A d \in Deliveries : WF_vars(\E w \in Workers : Take(w, d))
            /\ \A w \in Workers : WF_vars(HandlerStep(w) \/ Crash(w))

Spec == Init /\ [][Next]_vars
FairSpec == Spec /\ Fairness
-----------------------------------------------------------------------------
(* Properties                                                              *)

\* A delivery is called failed, and listed in the dead letter queue, only after
\* the endpoint was really tried MaxAttempts times, whoever did the tries.
FailedOnlyExhausted ==
  /\ \A d \in Deliveries : status[d] = "failed" => posts[d] >= MaxAttempts
  /\ \A e \in Entries : entry[e] # "none" =>
       posts[entryOf[e]] >= entryTries[e] /\ entryTries[e] >= MaxAttempts

\* A row says success only if the endpoint has processed the delivery.
SuccessIsTrue == \A d \in Deliveries : status[d] = "success" => d \in accepted

\* The owner's retry is not lost: an entry that can no longer be retried has a
\* new delivery that reached the queue.
RetryIsQueued ==
  \A e \in Entries : entry[e] = "retried" =>
    \E d \in Deliveries : origin[d] = e /\ msg[d] \notin {"none", "unsent", "lost"}

\* The webhook pipeline keeps the promise of WorkDelivery: what was queued ends
\* as processed by the endpoint or is given up.
Delivery == INSTANCE WorkDelivery WITH
  Tasks  <- Deliveries,
  task   <- [d \in Deliveries |->
               CASE msg[d] \in {"none", "unsent", "lost"} -> "new"
                 [] msg[d] \in {"ready", "held"} -> "queued"
                 [] msg[d] = "acked" -> "finished"
                 [] msg[d] = "dead" -> "dropped"],
  stored <- accepted,
  waived <- {}

\* Steps of this module are steps of WorkDelivery.
ImplementsWorkDelivery == Delivery!Spec

\* Every message that was queued is acknowledged or given up, also after its
\* webhook was deleted.
DeliveriesSettle ==
  \A d \in Deliveries : msg[d] = "ready" ~> msg[d] \in {"acked", "dead"}

\* docs/API.md:2104: "Each DLQ entry can only be retried once".
RetriedOnce ==
  \A e \in Entries :
    Cardinality({d \in Deliveries : /\ origin[d] = e
                                   /\ msg[d] \notin {"none", "lost"}}) <= 1
-----------------------------------------------------------------------------
(* The inductive invariant behind the safety properties                    *)

\* A worker at work holds the message of an existing delivery, alone.
HeldByOne ==
  /\ \A w \in Workers : step[w] # "idle" =>
       at[w] \in Deliveries /\ msg[at[w]] = "held"
  /\ \A v, w \in Workers :
       v # w /\ step[v] # "idle" /\ step[w] # "idle" => at[v] # at[w]

HandedInBounds == \A d \in Deliveries :
  /\ msg[d] \in {"none", "unsent", "lost"} => handed[d] = 0
  /\ msg[d] = "ready" => handed[d] < MaxDeliveries

\* A row is created once, and a retry request queues the row it created.
FreshIsNew ==
  /\ \A d \in Deliveries : status[d] = "none" => msg[d] = "none"
  /\ \A r \in Requests : asks[r] # "idle" => asked[r] \in Entries
  /\ \A r \in Requests : asks[r] = "enqueue" =>
       /\ fresh[r] \in Deliveries
       /\ status[fresh[r]] # "none" /\ msg[fresh[r]] = "none"
  /\ \A q, r \in Requests :
       q # r /\ asks[q] = "enqueue" /\ asks[r] = "enqueue" => fresh[q] # fresh[r]

QueueInv == TypeOK /\ HeldByOne /\ HandedInBounds /\ FreshIsNew

\* Attempts are counted after the request, by the one worker that sent it.
CountedWasPosted ==
  /\ \A d \in Deliveries : attempts[d] <= posts[d]
  /\ \A w \in Workers : step[w] \in {"post", "ok", "refused"} =>
       seen[w] <= attempts[at[w]]
  /\ \A w \in Workers : step[w] \in {"ok", "refused"} =>
       attempts[at[w]] + 1 <= posts[at[w]]
  /\ \A w \in Workers : step[w] = "dlq" =>
       Exhausted(w) /\ seen[w] + 1 <= posts[at[w]]

EntryHasDelivery ==
  \A e \in Entries : entry[e] # "none" => entryOf[e] \in Deliveries

OkWasAccepted == \A w \in Workers : step[w] = "ok" => at[w] \in accepted

CountInv == /\ CountedWasPosted /\ EntryHasDelivery /\ FailedOnlyExhausted
            /\ OkWasAccepted /\ SuccessIsTrue

\* The row a retry request is about to queue, or has queued, is of its entry.
RetriesOwnEntry == \A r \in Requests :
  /\ asks[r] \in {"enqueue", "mark"} =>
       fresh[r] \in Deliveries /\ origin[fresh[r]] = asked[r]
  /\ asks[r] = "mark" => msg[fresh[r]] \notin {"none", "unsent", "lost"}

IInv == QueueInv /\ CountInv /\ RetriesOwnEntry /\ RetryIsQueued
=============================================================================
