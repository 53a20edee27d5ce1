------------------------------ MODULE Webhooks ------------------------------
(***************************************************************************)
(* The webhooks of one user as he edits them, while goroutines dispatch    *)
(* the events of uploads and jobs to them and workers post deliveries.     *)
(* A dispatcher works on the webhooks it has listed; a worker posts to the *)
(* webhook it has read.  What becomes of a delivery row and its message is *)
(* the subject of WebhookDelivery; here a delivery is tried MaxTries times.*)
(***************************************************************************)
EXTENDS Integers, FiniteSets

CONSTANTS
  Hooks, Urls,     \* ids of rows in webhooks; endpoints
  Subscriptions,   \* the sets of events a webhook may ask for
  DeliveryIds,     \* ids of rows in webhook_deliveries
  Dispatchers,     \* goroutines that dispatch an event each
  Posters,         \* workers that deliver
  MaxTries,        \* attempts of a delivery
  MaxEdits,        \* bound: changes to webhooks
  MaxHookFaults,   \* bound: statements and calls that fail
  MaxPage, Width   \* pages asked for; bits of an offset, 32 in the code

ValidEventTypes == {"file.uploaded", "processing.started",
                    "processing.completed", "processing.failed"}

ASSUME HooksAssumption ==
  /\ IsFiniteSet(Posters)
  /\ Subscriptions \subseteq SUBSET ValidEventTypes
  /\ MaxTries \in Nat \ {0} /\ MaxEdits \in Nat /\ MaxHookFaults \in Nat
  /\ MaxPage \in Nat \ {0} /\ Width \in Nat \ {0}

VARIABLES
  hook,      \* [id -> state, url, events, active; secret is who chose it]
  asked,     \* [id -> whether the creator named a secret, the active last sent]
  row,       \* [id -> state, webhook, event, the endpoint at its creation, tries]
  dispatch,  \* [goroutine -> next call, event, webhooks listed, row to queue]
  poster,    \* [worker -> next call, row, webhook's endpoint as read]
  late,      \* [webhook -> posts to another endpoint since its last change]
  job,       \* the job that is the source of the processing events
  edits, hookFaults

hookVars == <<hook, asked, row, dispatch, poster, late, job, edits, hookFaults>>

NoHook == [state |-> "none", url |-> "", events |-> {}, active |-> FALSE, secret |-> ""]
NoRow == [state |-> "none", webhook |-> "", event |-> "", url |-> "", tries |-> 0]
Rest == [at |-> "idle"]

HooksInit ==
  /\ hook = [h \in Hooks |-> NoHook]
  /\ asked = [h \in Hooks |-> [secret |-> FALSE, active |-> TRUE]]
  /\ row = [d \in DeliveryIds |-> NoRow]
  /\ dispatch = [g \in Dispatchers |-> Rest]
  /\ poster = [p \in Posters |-> Rest]
  /\ late = [h \in Hooks |-> 0]
  /\ job = "waiting"
  /\ edits = 0 /\ hookFaults = 0

HookFault == hookFaults < MaxHookFaults /\ hookFaults' = hookFaults + 1
Edit == edits < MaxEdits /\ edits' = edits + 1
There(h) == hook[h].state = "there"

----------------------------------------------------------------------------
(* The owner.                                                              *)

\* A secret in the request is not read; one is generated.
CreateWebhook(h, url, events, named) ==
  /\ Edit
  /\ hook[h].state = "none" /\ events # {}
  /\ hook' = [hook EXCEPT ![h] = [state |-> "there", url |-> url, events |-> events,
                                  active |-> TRUE, secret |-> "generated"]]
  /\ asked' = [asked EXCEPT ![h].secret = named]
  /\ UNCHANGED <<row, dispatch, poster, late, job, hookFaults>>

\* A field that is not sent is FALSE.
Decoded(active) == active = "true"

UpdateWebhook(h, url, events, active) ==
  /\ Edit
  /\ There(h) /\ events # {}
  /\ hook' = [hook EXCEPT ![h].url = url, ![h].events = events,
                          ![h].active = Decoded(active)]
  /\ asked' = [asked EXCEPT ![h].active =
                 IF active = "unsent" THEN @ ELSE active = "true"]
  /\ late' = [late EXCEPT ![h] = 0]
  /\ UNCHANGED <<row, dispatch, poster, job, hookFaults>>

\* The deliveries of a webhook are deleted with it.
DeleteWebhook(h) ==
  /\ Edit
  /\ There(h)
  /\ hook' = [hook EXCEPT ![h].state = "deleted"]
  /\ row' = [d \in DeliveryIds |-> IF row[d].webhook = h THEN [row[d] EXCEPT !.state = "gone"]
                                                  ELSE row[d]]
  /\ late' = [late EXCEPT ![h] = 0]
  /\ UNCHANGED <<asked, dispatch, poster, job, hookFaults>>

FreshRow == CHOOSE d \in DeliveryIds : row[d].state = "none"

\* The insert fails when the webhook is gone.
Insert(d, h, event) ==
  /\ row[d].state = "none" /\ d = FreshRow /\ There(h)
  /\ row' = [row EXCEPT ![d] = [state |-> "created", webhook |-> h, event |-> event,
                                url |-> hook[h].url, tries |-> 0]]

TestWebhook(g, h, d) ==
  /\ Edit
  /\ dispatch[g].at = "idle"
  /\ Insert(d, h, "test")
  /\ dispatch' = [dispatch EXCEPT ![g] = [at |-> "queue", event |-> "test",
                                          todo |-> {}, row |-> d]]
  /\ UNCHANGED <<hook, asked, poster, late, job, hookFaults>>

----------------------------------------------------------------------------
(* The events, dispatched in a goroutine each.                             *)

Start(g, event) ==
  /\ dispatch[g].at = "idle"
  /\ dispatch' = [dispatch EXCEPT ![g] = [at |-> "list", event |-> event]]
  /\ UNCHANGED <<hook, asked, row, poster, late, edits, hookFaults>>

FileUploaded(g) == Start(g, "file.uploaded") /\ job = "waiting" /\ job' = "ready"

\* A failed attempt is an event; the job may be tried again.
AttemptFails(g) == Start(g, "processing.failed") /\ job = "ready" /\ job' = "retrying"

JobCompletes(g) ==
  /\ Start(g, "processing.completed")
  /\ job \in {"ready", "retrying"}
  /\ job' = "completed"

ListActiveWebhooksByUserAndEvent(event) ==
  {h \in Hooks : There(h) /\ hook[h].active /\ event \in hook[h].events}

Finish(g) == [dispatch EXCEPT ![g] = Rest]

ListWebhooksFor(g) ==
  /\ dispatch[g].at = "list"
  /\ \/ LET todo == ListActiveWebhooksByUserAndEvent(dispatch[g].event)
        IN /\ dispatch' = IF todo = {} THEN Finish(g)
                          ELSE [dispatch EXCEPT ![g] = [at |-> "create", todo |-> todo,
                                                        event |-> dispatch[g].event]]
           /\ UNCHANGED hookFaults
     \/ HookFault /\ dispatch' = Finish(g)
  /\ UNCHANGED <<hook, asked, row, poster, late, job, edits>>

Onward(g, todo) ==
  IF todo = {} THEN Rest ELSE [at |-> "create", todo |-> todo, event |-> dispatch[g].event]

\* A delivery that cannot be created is passed over.
CreateDelivery(g, h) ==
  /\ dispatch[g].at = "create" /\ h \in dispatch[g].todo
  /\ \/ \E d \in DeliveryIds :
          /\ Insert(d, h, dispatch[g].event)
          /\ dispatch' = [dispatch EXCEPT ![g] = [at |-> "queue", row |-> d,
               todo |-> dispatch[g].todo \ {h}, event |-> dispatch[g].event]]
          /\ UNCHANGED hookFaults
     \/ /\ IF There(h) THEN HookFault ELSE UNCHANGED hookFaults
        /\ dispatch' = [dispatch EXCEPT ![g] = Onward(g, dispatch[g].todo \ {h})]
        /\ UNCHANGED row
  /\ UNCHANGED <<hook, asked, poster, late, job, edits>>

Enqueue(g) ==
  /\ dispatch[g].at = "queue"
  /\ \/ /\ row' = [row EXCEPT ![dispatch[g].row].state =
                     IF @ = "created" THEN "queued" ELSE @]
        /\ UNCHANGED hookFaults
     \/ HookFault /\ UNCHANGED row
  /\ dispatch' = [dispatch EXCEPT ![g] = Onward(g, dispatch[g].todo)]
  /\ UNCHANGED <<hook, asked, poster, late, job, edits>>

----------------------------------------------------------------------------
(* The workers.                                                            *)

Take(p, d) ==
  /\ poster[p].at = "idle" /\ row[d].state = "queued"
  /\ row' = [row EXCEPT ![d].state = "taken", ![d].tries = @ + 1]
  /\ poster' = [poster EXCEPT ![p] = [at |-> "read", row |-> d]]
  /\ UNCHANGED <<hook, asked, dispatch, late, job, edits, hookFaults>>

\* Mutant: the endpoint is the one the delivery was created for.
EndpointAtCreation(d) == row[d].url

GetWebhookByDeliveryID(d) == hook[row[d].webhook].url

\* Without its row the delivery ends here; active is not looked at.
ReadWebhook(p) ==
  LET d == poster[p].row
  IN /\ poster[p].at = "read"
     /\ poster' = [poster EXCEPT ![p] =
          IF row[d].state = "gone" THEN Rest
          ELSE [at |-> "post", row |-> d, url |-> GetWebhookByDeliveryID(d)]]
     /\ UNCHANGED <<hook, asked, row, dispatch, late, job, edits, hookFaults>>

\* Refused, or not answered: the delivery comes again, unless it was the last try.
Post(p) ==
  LET d == poster[p].row
      h == row[d].webhook
  IN /\ poster[p].at = "post"
     /\ late' = [late EXCEPT ![h] =
          IF There(h) /\ hook[h].url = poster[p].url THEN @ ELSE @ + 1]
     /\ \E result \in {"done", "queued"} :
          row' = [row EXCEPT ![d].state =
                    IF @ = "gone" THEN @
                    ELSE IF result = "queued" /\ row[d].tries >= MaxTries THEN "dead"
                    ELSE result]
     /\ poster' = [poster EXCEPT ![p] = Rest]
     /\ UNCHANGED <<hook, asked, dispatch, job, edits, hookFaults>>

\* The worker dies before it posted: the message comes back.
PosterDies(p) ==
  LET d == poster[p].row
  IN /\ poster[p].at # "idle"
     /\ HookFault
     /\ row' = [row EXCEPT ![d].state = IF @ = "gone" THEN @ ELSE "queued"]
     /\ poster' = [poster EXCEPT ![p] = Rest]
     /\ UNCHANGED <<hook, asked, dispatch, late, job, edits>>

----------------------------------------------------------------------------
(* What the API answers.                                                   *)

\* An offset is cut to Width bits, the first of them its sign.
Signed(n) ==
  LET bits == n % 2^Width IN IF bits < 2^(Width - 1) THEN bits ELSE bits - 2^Width

Offset(page, perPage) == Signed((page - 1) * perPage)

\* A page of a list of n rows: the database refuses a negative offset.
PageOf(n, page, perPage) ==
  LET from == Offset(page, perPage)
  IN IF from < 0 THEN [ok |-> FALSE, shown |-> 0]
     ELSE [ok |-> TRUE, shown |-> Cardinality((from + 1 .. from + perPage) \cap 1 .. n)]

CountWebhooksByUser == Cardinality({h \in Hooks : There(h)})
ListWebhooks(page, perPage) == PageOf(CountWebhooksByUser, page, perPage)

CountDeliveriesByWebhook(h) ==
  Cardinality({d \in DeliveryIds : row[d].webhook = h /\ row[d].state # "gone"})
ListDeliveries(h, page, perPage) == PageOf(CountDeliveriesByWebhook(h), page, perPage)

----------------------------------------------------------------------------

HooksNext ==
  \/ \E h \in Hooks, url \in Urls, events \in Subscriptions :
       \/ \E named \in BOOLEAN : CreateWebhook(h, url, events, named)
       \/ \E active \in {"true", "false", "unsent"} : UpdateWebhook(h, url, events, active)
  \/ \E h \in Hooks : DeleteWebhook(h)
  \/ \E g \in Dispatchers :
       \/ FileUploaded(g) \/ AttemptFails(g) \/ JobCompletes(g)
       \/ ListWebhooksFor(g) \/ Enqueue(g)
       \/ \E h \in Hooks : CreateDelivery(g, h) \/ \E d \in DeliveryIds : TestWebhook(g, h, d)
  \/ \E p \in Posters : ReadWebhook(p) \/ Post(p) \/ PosterDies(p) \/ \E d \in DeliveryIds : Take(p, d)

HooksSpec == HooksInit /\ [][HooksNext]_hookVars

----------------------------------------------------------------------------
(* Properties.                                                             *)

\* Once a change of a webhook is answered, or its deletion, each worker posts to
\* the former endpoint once more at the most, however many deliveries of it are
\* queued, retried or still being created by a dispatcher.
LatePostsBounded == \A h \in Hooks : late[h] <= Cardinality(Posters)

\* A webhook is active as the last request that said so left it (docs/API.md
\* sends "enabled", the handler reads "active").
KeepsActive == \A h \in Hooks : There(h) => hook[h].active = asked[h].active

\* A secret named by the owner is the one that signs (docs/API.md: "Secret for
\* signing webhook payloads").
SignsWithNamed == \A h \in Hooks : There(h) /\ asked[h].secret => hook[h].secret = "named"

\* An event that says a job failed is about a job that does not complete.
FailureIsFinal ==
  \A d \in DeliveryIds : row[d].event = "processing.failed" => job # "completed"

\* Every page of a list can be asked for.
PagesAnswered ==
  \A page, perPage \in 1 .. MaxPage :
    /\ ListWebhooks(page, perPage).ok
    /\ \A h \in Hooks : ListDeliveries(h, page, perPage).ok
============================================================================
