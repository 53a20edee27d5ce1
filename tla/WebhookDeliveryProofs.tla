------------------------ MODULE WebhookDeliveryProofs ------------------------
(***************************************************************************)
(* Theorems of WebhookDelivery, for any deliveries, entries, workers and   *)
(* requests and for any bounds.  The invariant has three layers: QueueInv  *)
(* (values, who holds which message), CountInv (what has been posted and   *)
(* accepted by then) and the two facts about retries.                      *)
(***************************************************************************)
EXTENDS WebhookDelivery, TLAPS

(* Every call keeps each variable in its range.                            *)
LEMMA TypeStep == QueueInv /\ [Next]_vars => TypeOK'
  <1> SUFFICES ASSUME QueueInv, [Next]_vars PROVE TypeOK'
    OBVIOUS
  <1> USE ConstantsAssumption
      DEF QueueInv, TypeOK, rowVars, msgVars, endVars, dlqVars, workerVars, requestVars
  <1>1. ASSUME NEW d \in Deliveries, Dispatch(d) PROVE TypeOK'
    BY <1>1 DEF Dispatch, InsertRow, HeldByOne, HandedInBounds, FreshIsNew
  <1>2. ASSUME NEW d \in Deliveries, Enqueue(d) PROVE TypeOK'
    BY <1>2 DEF Enqueue, HeldByOne, HandedInBounds, FreshIsNew
  <1>3. ASSUME NEW w \in Workers, NEW d \in Deliveries, Take(w, d) PROVE
     TypeOK'
    BY <1>3 DEF Take, Goto, HeldByOne, HandedInBounds, FreshIsNew
  <1>4. ASSUME NEW w \in Workers, GetDelivery(w) PROVE TypeOK'
    BY <1>4 DEF GetDelivery, Goto, HeldByOne, HandedInBounds, FreshIsNew
  <1>5. ASSUME NEW w \in Workers, GetFails(w) PROVE TypeOK'
    BY <1>5 DEF GetFails, Settle, GiveBack, HeldByOne, HandedInBounds,
       FreshIsNew
  <1>6. ASSUME NEW w \in Workers, Post(w) PROVE TypeOK'
    BY <1>6 DEF Post, Goto, HeldByOne, HandedInBounds, FreshIsNew
  <1>7. ASSUME NEW w \in Workers, MarkSuccess(w) PROVE TypeOK'
    BY <1>7 DEF MarkSuccess, Mark, Settle, HeldByOne, HandedInBounds,
       FreshIsNew
  <1>8. ASSUME NEW w \in Workers, UpdateRetry(w) PROVE TypeOK'
    BY <1>8 DEF UpdateRetry, Mark, Settle, GiveBack, Exhausted, HeldByOne,
       HandedInBounds, FreshIsNew
  <1>9. ASSUME NEW w \in Workers, MarkFailed(w) PROVE TypeOK'
    BY <1>9 DEF MarkFailed, Mark, Goto, Exhausted, HeldByOne, HandedInBounds,
       FreshIsNew
  <1>10. ASSUME NEW w \in Workers, AddToDLQ(w) PROVE TypeOK'
    BY <1>10 DEF AddToDLQ, Settle, HeldByOne, HandedInBounds, FreshIsNew
  <1>11. ASSUME NEW w \in Workers, Crash(w) PROVE TypeOK'
    BY <1>11 DEF Crash, Settle, GiveBack, HeldByOne, HandedInBounds,
       FreshIsNew
  <1>12. ASSUME NEW r \in Requests, NEW e \in Entries, ReadEntry(r, e) PROVE
     TypeOK'
    BY <1>12 DEF ReadEntry, HeldByOne, HandedInBounds, FreshIsNew
  <1>13. ASSUME NEW r \in Requests, NEW d \in Deliveries, CreateRetry(r, d)
     PROVE TypeOK'
    BY <1>13 DEF CreateRetry, InsertRow, HeldByOne, HandedInBounds, FreshIsNew
  <1>14. ASSUME NEW r \in Requests, EnqueueRetry(r) PROVE TypeOK'
    BY <1>14, SMTT(30) DEF EnqueueRetry, Answer, HeldByOne, HandedInBounds, FreshIsNew
  <1>15. ASSUME NEW r \in Requests, MarkRetried(r) PROVE TypeOK'
    BY <1>15 DEF MarkRetried, Answer, HeldByOne, HandedInBounds, FreshIsNew
  <1>16. ASSUME NEW r \in Requests, RequestFails(r) PROVE TypeOK'
    BY <1>16 DEF RequestFails, Answer, HeldByOne, HandedInBounds, FreshIsNew
  <1>17. ASSUME NEW e \in Entries, DeleteEntry(e) PROVE TypeOK'
    BY <1>17 DEF DeleteEntry, HeldByOne, HandedInBounds, FreshIsNew
  <1>18. CASE DeleteWebhook
    BY <1>18 DEF DeleteWebhook, HeldByOne, HandedInBounds, FreshIsNew
  <1>19. CASE UNCHANGED vars
    BY <1>19 DEF vars, HeldByOne, HandedInBounds, FreshIsNew
  <1> QED
    BY <1>1, <1>2, <1>3, <1>4, <1>5, <1>6, <1>7, <1>8, <1>9, <1>10, <1>11,
       <1>12, <1>13, <1>14, <1>15, <1>16, <1>17, <1>18, <1>19 DEF Next,
       HandlerStep, WorkerStep, RequestStep

(* The broker hands a message to one worker, and a row is queued once.     *)
LEMMA QueueStep == QueueInv /\ [Next]_vars => QueueInv'
  <1> SUFFICES ASSUME QueueInv, [Next]_vars PROVE QueueInv'
    OBVIOUS
  <1>0. TypeOK'
    BY TypeStep
  <1> USE ConstantsAssumption, <1>0
      DEF QueueInv, TypeOK, rowVars, msgVars, endVars, dlqVars, workerVars, requestVars
  <1>1. ASSUME NEW d \in Deliveries, Dispatch(d) PROVE QueueInv'
    <2>1. HeldByOne'
      BY <1>1 DEF Dispatch, InsertRow, HeldByOne, FreshIsNew
    <2>2. HandedInBounds'
      BY <1>1 DEF Dispatch, InsertRow, HeldByOne, HandedInBounds, FreshIsNew
    <2>3. FreshIsNew'
      BY <1>1 DEF Dispatch, InsertRow, HeldByOne, FreshIsNew
    <2> QED
      BY <2>1, <2>2, <2>3
  <1>2. ASSUME NEW d \in Deliveries, Enqueue(d) PROVE QueueInv'
    <2>1. HeldByOne'
      BY <1>2 DEF Enqueue, HeldByOne, FreshIsNew
    <2>2. HandedInBounds'
      BY <1>2 DEF Enqueue, HeldByOne, HandedInBounds, FreshIsNew
    <2>3. FreshIsNew'
      BY <1>2 DEF Enqueue, HeldByOne, FreshIsNew
    <2> QED
      BY <2>1, <2>2, <2>3
  <1>3. ASSUME NEW w \in Workers, NEW d \in Deliveries, Take(w, d) PROVE
     QueueInv'
    <2>1. HeldByOne'
      BY <1>3 DEF Take, Goto, HeldByOne, FreshIsNew
    <2>2. HandedInBounds'
      BY <1>3 DEF Take, Goto, HeldByOne, HandedInBounds, FreshIsNew
    <2>3. FreshIsNew'
      BY <1>3 DEF Take, Goto, HeldByOne, FreshIsNew
    <2> QED
      BY <2>1, <2>2, <2>3
  <1>4. ASSUME NEW w \in Workers, GetDelivery(w) PROVE QueueInv'
    <2>1. HeldByOne'
      BY <1>4 DEF GetDelivery, Goto, HeldByOne, FreshIsNew
    <2>2. HandedInBounds'
      BY <1>4 DEF GetDelivery, Goto, HeldByOne, HandedInBounds, FreshIsNew
    <2>3. FreshIsNew'
      BY <1>4 DEF GetDelivery, Goto, HeldByOne, FreshIsNew
    <2> QED
      BY <2>1, <2>2, <2>3
  <1>5. ASSUME NEW w \in Workers, GetFails(w) PROVE QueueInv'
    <2>1. HeldByOne'
      BY <1>5 DEF GetFails, Settle, GiveBack, HeldByOne, FreshIsNew
    <2>2. HandedInBounds'
      BY <1>5 DEF GetFails, Settle, GiveBack, HeldByOne, HandedInBounds,
         FreshIsNew
    <2>3. FreshIsNew'
      BY <1>5 DEF GetFails, Settle, GiveBack, HeldByOne, FreshIsNew
    <2> QED
      BY <2>1, <2>2, <2>3
  <1>6. ASSUME NEW w \in Workers, Post(w) PROVE QueueInv'
    <2>1. HeldByOne'
      BY <1>6 DEF Post, Goto, HeldByOne, FreshIsNew
    <2>2. HandedInBounds'
      BY <1>6 DEF Post, Goto, HeldByOne, HandedInBounds, FreshIsNew
    <2>3. FreshIsNew'
      BY <1>6 DEF Post, Goto, HeldByOne, FreshIsNew
    <2> QED
      BY <2>1, <2>2, <2>3
  <1>7. ASSUME NEW w \in Workers, MarkSuccess(w) PROVE QueueInv'
    <2>1. HeldByOne'
      BY <1>7 DEF MarkSuccess, Mark, Settle, HeldByOne, FreshIsNew
    <2>2. HandedInBounds'
      BY <1>7 DEF MarkSuccess, Mark, Settle, HeldByOne, HandedInBounds,
         FreshIsNew
    <2>3. FreshIsNew'
      BY <1>7 DEF MarkSuccess, Mark, Settle, HeldByOne, FreshIsNew
    <2> QED
      BY <2>1, <2>2, <2>3
  <1>8. ASSUME NEW w \in Workers, UpdateRetry(w) PROVE QueueInv'
    <2>1. HeldByOne'
      BY <1>8 DEF UpdateRetry, Mark, Settle, GiveBack, Exhausted, HeldByOne,
         FreshIsNew
    <2>2. HandedInBounds'
      BY <1>8 DEF UpdateRetry, Mark, Settle, GiveBack, Exhausted, HeldByOne,
         HandedInBounds, FreshIsNew
    <2>3. FreshIsNew'
      BY <1>8 DEF UpdateRetry, Mark, Settle, GiveBack, Exhausted, HeldByOne,
         FreshIsNew
    <2> QED
      BY <2>1, <2>2, <2>3
  <1>9. ASSUME NEW w \in Workers, MarkFailed(w) PROVE QueueInv'
    <2>1. HeldByOne'
      BY <1>9 DEF MarkFailed, Mark, Goto, Exhausted, HeldByOne, FreshIsNew
    <2>2. HandedInBounds'
      BY <1>9 DEF MarkFailed, Mark, Goto, Exhausted, HeldByOne,
         HandedInBounds, FreshIsNew
    <2>3. FreshIsNew'
      BY <1>9 DEF MarkFailed, Mark, Goto, Exhausted, HeldByOne, FreshIsNew
    <2> QED
      BY <2>1, <2>2, <2>3
  <1>10. ASSUME NEW w \in Workers, AddToDLQ(w) PROVE QueueInv'
    <2>1. HeldByOne'
      BY <1>10 DEF AddToDLQ, Settle, HeldByOne, FreshIsNew
    <2>2. HandedInBounds'
      BY <1>10 DEF AddToDLQ, Settle, HeldByOne, HandedInBounds, FreshIsNew
    <2>3. FreshIsNew'
      BY <1>10 DEF AddToDLQ, Settle, HeldByOne, FreshIsNew
    <2> QED
      BY <2>1, <2>2, <2>3
  <1>11. ASSUME NEW w \in Workers, Crash(w) PROVE QueueInv'
    <2>1. HeldByOne'
      BY <1>11 DEF Crash, Settle, GiveBack, HeldByOne, FreshIsNew
    <2>2. HandedInBounds'
      BY <1>11 DEF Crash, Settle, GiveBack, HeldByOne, HandedInBounds,
         FreshIsNew
    <2>3. FreshIsNew'
      BY <1>11 DEF Crash, Settle, GiveBack, HeldByOne, FreshIsNew
    <2> QED
      BY <2>1, <2>2, <2>3
  <1>12. ASSUME NEW r \in Requests, NEW e \in Entries, ReadEntry(r, e) PROVE
     QueueInv'
    <2>1. HeldByOne'
      BY <1>12 DEF ReadEntry, HeldByOne, FreshIsNew
    <2>2. HandedInBounds'
      BY <1>12 DEF ReadEntry, HeldByOne, HandedInBounds, FreshIsNew
    <2>3. FreshIsNew'
      BY <1>12 DEF ReadEntry, HeldByOne, FreshIsNew
    <2> QED
      BY <2>1, <2>2, <2>3
  <1>13. ASSUME NEW r \in Requests, NEW d \in Deliveries, CreateRetry(r, d)
     PROVE QueueInv'
    <2>1. HeldByOne'
      BY <1>13 DEF CreateRetry, InsertRow, HeldByOne, FreshIsNew
    <2>2. HandedInBounds'
      BY <1>13 DEF CreateRetry, InsertRow, HeldByOne, HandedInBounds,
         FreshIsNew
    <2>3. FreshIsNew'
      BY <1>13 DEF CreateRetry, InsertRow, HeldByOne, FreshIsNew
    <2> QED
      BY <2>1, <2>2, <2>3
  <1>14. ASSUME NEW r \in Requests, EnqueueRetry(r) PROVE QueueInv'
    <2>1. HeldByOne'
      BY <1>14 DEF EnqueueRetry, Answer, HeldByOne, FreshIsNew
    <2>2. HandedInBounds'
      BY <1>14 DEF EnqueueRetry, Answer, HeldByOne, HandedInBounds, FreshIsNew
    <2>3. FreshIsNew'
      BY <1>14, SMTT(30) DEF EnqueueRetry, Answer, HeldByOne, FreshIsNew
    <2> QED
      BY <2>1, <2>2, <2>3
  <1>15. ASSUME NEW r \in Requests, MarkRetried(r) PROVE QueueInv'
    <2>1. HeldByOne'
      BY <1>15 DEF MarkRetried, Answer, HeldByOne, FreshIsNew
    <2>2. HandedInBounds'
      BY <1>15 DEF MarkRetried, Answer, HeldByOne, HandedInBounds, FreshIsNew
    <2>3. FreshIsNew'
      BY <1>15 DEF MarkRetried, Answer, HeldByOne, FreshIsNew
    <2> QED
      BY <2>1, <2>2, <2>3
  <1>16. ASSUME NEW r \in Requests, RequestFails(r) PROVE QueueInv'
    <2>1. HeldByOne'
      BY <1>16 DEF RequestFails, Answer, HeldByOne, FreshIsNew
    <2>2. HandedInBounds'
      BY <1>16 DEF RequestFails, Answer, HeldByOne, HandedInBounds, FreshIsNew
    <2>3. FreshIsNew'
      BY <1>16 DEF RequestFails, Answer, HeldByOne, FreshIsNew
    <2> QED
      BY <2>1, <2>2, <2>3
  <1>17. ASSUME NEW e \in Entries, DeleteEntry(e) PROVE QueueInv'
    <2>1. HeldByOne'
      BY <1>17 DEF DeleteEntry, HeldByOne, FreshIsNew
    <2>2. HandedInBounds'
      BY <1>17 DEF DeleteEntry, HeldByOne, HandedInBounds, FreshIsNew
    <2>3. FreshIsNew'
      BY <1>17 DEF DeleteEntry, HeldByOne, FreshIsNew
    <2> QED
      BY <2>1, <2>2, <2>3
  <1>18. CASE DeleteWebhook
    <2>1. HeldByOne'
      BY <1>18 DEF DeleteWebhook, HeldByOne, FreshIsNew
    <2>2. HandedInBounds'
      BY <1>18 DEF DeleteWebhook, HeldByOne, HandedInBounds, FreshIsNew
    <2>3. FreshIsNew'
      BY <1>18 DEF DeleteWebhook, HeldByOne, FreshIsNew
    <2> QED
      BY <2>1, <2>2, <2>3
  <1>19. CASE UNCHANGED vars
    <2>1. HeldByOne'
      BY <1>19 DEF vars, HeldByOne, FreshIsNew
    <2>2. HandedInBounds'
      BY <1>19 DEF vars, HeldByOne, HandedInBounds, FreshIsNew
    <2>3. FreshIsNew'
      BY <1>19 DEF vars, HeldByOne, FreshIsNew
    <2> QED
      BY <2>1, <2>2, <2>3
  <1> QED
    BY <1>1, <1>2, <1>3, <1>4, <1>5, <1>6, <1>7, <1>8, <1>9, <1>10, <1>11,
       <1>12, <1>13, <1>14, <1>15, <1>16, <1>17, <1>18, <1>19 DEF Next,
       HandlerStep, WorkerStep, RequestStep

(* Attempts are counted after the requests they stand for.                 *)
LEMMA CountStep == QueueInv /\ CountInv /\ [Next]_vars => CountInv'
  <1> SUFFICES ASSUME QueueInv, CountInv, [Next]_vars PROVE CountInv'
    OBVIOUS
  <1>0. QueueInv'
    BY QueueStep
  <1> USE ConstantsAssumption, <1>0
      DEF QueueInv, CountInv, TypeOK, HeldByOne, rowVars, msgVars, endVars, dlqVars, workerVars, requestVars
  <1>1. ASSUME NEW d \in Deliveries, Dispatch(d) PROVE CountInv'
    <2>1. CountedWasPosted'
      BY <1>1 DEF Dispatch, InsertRow, CountedWasPosted, Exhausted
    <2>2. EntryHasDelivery' /\ FailedOnlyExhausted'
      BY <1>1 DEF Dispatch, InsertRow, CountedWasPosted, EntryHasDelivery,
         FailedOnlyExhausted, Exhausted
    <2>3. OkWasAccepted' /\ SuccessIsTrue'
      BY <1>1 DEF Dispatch, InsertRow, OkWasAccepted, SuccessIsTrue
    <2> QED
      BY <2>1, <2>2, <2>3
  <1>2. ASSUME NEW d \in Deliveries, Enqueue(d) PROVE CountInv'
    <2>1. CountedWasPosted'
      BY <1>2 DEF Enqueue, CountedWasPosted, Exhausted
    <2>2. EntryHasDelivery' /\ FailedOnlyExhausted'
      BY <1>2 DEF Enqueue, CountedWasPosted, EntryHasDelivery,
         FailedOnlyExhausted, Exhausted
    <2>3. OkWasAccepted' /\ SuccessIsTrue'
      BY <1>2 DEF Enqueue, OkWasAccepted, SuccessIsTrue
    <2> QED
      BY <2>1, <2>2, <2>3
  <1>3. ASSUME NEW w \in Workers, NEW d \in Deliveries, Take(w, d) PROVE
     CountInv'
    <2>1. CountedWasPosted'
      BY <1>3 DEF Take, Goto, CountedWasPosted, Exhausted
    <2>2. EntryHasDelivery' /\ FailedOnlyExhausted'
      BY <1>3 DEF Take, Goto, CountedWasPosted, EntryHasDelivery,
         FailedOnlyExhausted, Exhausted
    <2>3. OkWasAccepted' /\ SuccessIsTrue'
      BY <1>3 DEF Take, Goto, OkWasAccepted, SuccessIsTrue
    <2> QED
      BY <2>1, <2>2, <2>3
  <1>4. ASSUME NEW w \in Workers, GetDelivery(w) PROVE CountInv'
    <2>1. CountedWasPosted'
      BY <1>4 DEF GetDelivery, Goto, CountedWasPosted, Exhausted
    <2>2. EntryHasDelivery' /\ FailedOnlyExhausted'
      BY <1>4 DEF GetDelivery, Goto, CountedWasPosted, EntryHasDelivery,
         FailedOnlyExhausted, Exhausted
    <2>3. OkWasAccepted' /\ SuccessIsTrue'
      BY <1>4 DEF GetDelivery, Goto, OkWasAccepted, SuccessIsTrue
    <2> QED
      BY <2>1, <2>2, <2>3
  <1>5. ASSUME NEW w \in Workers, GetFails(w) PROVE CountInv'
    <2>1. CountedWasPosted'
      BY <1>5 DEF GetFails, Settle, GiveBack, CountedWasPosted, Exhausted
    <2>2. EntryHasDelivery' /\ FailedOnlyExhausted'
      BY <1>5 DEF GetFails, Settle, GiveBack, CountedWasPosted,
         EntryHasDelivery, FailedOnlyExhausted, Exhausted
    <2>3. OkWasAccepted' /\ SuccessIsTrue'
      BY <1>5 DEF GetFails, Settle, GiveBack, OkWasAccepted, SuccessIsTrue
    <2> QED
      BY <2>1, <2>2, <2>3
  <1>6. ASSUME NEW w \in Workers, Post(w) PROVE CountInv'
    <2>1. CountedWasPosted'
      BY <1>6 DEF Post, Goto, CountedWasPosted, Exhausted
    <2>2. EntryHasDelivery' /\ FailedOnlyExhausted'
      BY <1>6 DEF Post, Goto, CountedWasPosted, EntryHasDelivery,
         FailedOnlyExhausted, Exhausted
    <2>3. OkWasAccepted' /\ SuccessIsTrue'
      BY <1>6 DEF Post, Goto, OkWasAccepted, SuccessIsTrue
    <2> QED
      BY <2>1, <2>2, <2>3
  <1>7. ASSUME NEW w \in Workers, MarkSuccess(w) PROVE CountInv'
    <2>1. CountedWasPosted'
      BY <1>7 DEF MarkSuccess, Mark, Settle, CountedWasPosted, Exhausted
    <2>2. EntryHasDelivery' /\ FailedOnlyExhausted'
      BY <1>7 DEF MarkSuccess, Mark, Settle, CountedWasPosted,
         EntryHasDelivery, FailedOnlyExhausted, Exhausted
    <2>3. OkWasAccepted' /\ SuccessIsTrue'
      BY <1>7 DEF MarkSuccess, Mark, Settle, OkWasAccepted, SuccessIsTrue
    <2> QED
      BY <2>1, <2>2, <2>3
  <1>8. ASSUME NEW w \in Workers, UpdateRetry(w) PROVE CountInv'
    <2>1. CountedWasPosted'
      BY <1>8 DEF UpdateRetry, Mark, Settle, GiveBack, Exhausted,
         CountedWasPosted, Exhausted
    <2>2. EntryHasDelivery' /\ FailedOnlyExhausted'
      BY <1>8 DEF UpdateRetry, Mark, Settle, GiveBack, Exhausted,
         CountedWasPosted, EntryHasDelivery, FailedOnlyExhausted, Exhausted
    <2>3. OkWasAccepted' /\ SuccessIsTrue'
      BY <1>8 DEF UpdateRetry, Mark, Settle, GiveBack, Exhausted,
         OkWasAccepted, SuccessIsTrue
    <2> QED
      BY <2>1, <2>2, <2>3
  <1>9. ASSUME NEW w \in Workers, MarkFailed(w) PROVE CountInv'
    <2>1. CountedWasPosted'
      BY <1>9 DEF MarkFailed, Mark, Goto, Exhausted, CountedWasPosted,
         Exhausted
    <2>2. EntryHasDelivery' /\ FailedOnlyExhausted'
      BY <1>9 DEF MarkFailed, Mark, Goto, Exhausted, CountedWasPosted,
         EntryHasDelivery, FailedOnlyExhausted, Exhausted
    <2>3. OkWasAccepted' /\ SuccessIsTrue'
      BY <1>9 DEF MarkFailed, Mark, Goto, Exhausted, OkWasAccepted,
         SuccessIsTrue
    <2> QED
      BY <2>1, <2>2, <2>3
  <1>10. ASSUME NEW w \in Workers, AddToDLQ(w) PROVE CountInv'
    <2>1. CountedWasPosted'
      BY <1>10 DEF AddToDLQ, Settle, CountedWasPosted, Exhausted
    <2>2. EntryHasDelivery' /\ FailedOnlyExhausted'
      BY <1>10 DEF AddToDLQ, Settle, CountedWasPosted, EntryHasDelivery,
         FailedOnlyExhausted, Exhausted
    <2>3. OkWasAccepted' /\ SuccessIsTrue'
      BY <1>10 DEF AddToDLQ, Settle, OkWasAccepted, SuccessIsTrue
    <2> QED
      BY <2>1, <2>2, <2>3
  <1>11. ASSUME NEW w \in Workers, Crash(w) PROVE CountInv'
    <2>1. CountedWasPosted'
      BY <1>11 DEF Crash, Settle, GiveBack, CountedWasPosted, Exhausted
    <2>2. EntryHasDelivery' /\ FailedOnlyExhausted'
      BY <1>11 DEF Crash, Settle, GiveBack, CountedWasPosted,
         EntryHasDelivery, FailedOnlyExhausted, Exhausted
    <2>3. OkWasAccepted' /\ SuccessIsTrue'
      BY <1>11 DEF Crash, Settle, GiveBack, OkWasAccepted, SuccessIsTrue
    <2> QED
      BY <2>1, <2>2, <2>3
  <1>12. ASSUME NEW r \in Requests, NEW e \in Entries, ReadEntry(r, e) PROVE
     CountInv'
    <2>1. CountedWasPosted'
      BY <1>12 DEF ReadEntry, CountedWasPosted, Exhausted
    <2>2. EntryHasDelivery' /\ FailedOnlyExhausted'
      BY <1>12 DEF ReadEntry, CountedWasPosted, EntryHasDelivery,
         FailedOnlyExhausted, Exhausted
    <2>3. OkWasAccepted' /\ SuccessIsTrue'
      BY <1>12 DEF ReadEntry, OkWasAccepted, SuccessIsTrue
    <2> QED
      BY <2>1, <2>2, <2>3
  <1>13. ASSUME NEW r \in Requests, NEW d \in Deliveries, CreateRetry(r, d)
     PROVE CountInv'
    <2>1. CountedWasPosted'
      BY <1>13 DEF CreateRetry, InsertRow, CountedWasPosted, Exhausted
    <2>2. EntryHasDelivery' /\ FailedOnlyExhausted'
      BY <1>13 DEF CreateRetry, InsertRow, CountedWasPosted, EntryHasDelivery,
         FailedOnlyExhausted, Exhausted
    <2>3. OkWasAccepted' /\ SuccessIsTrue'
      BY <1>13 DEF CreateRetry, InsertRow, OkWasAccepted, SuccessIsTrue
    <2> QED
      BY <2>1, <2>2, <2>3
  <1>14. ASSUME NEW r \in Requests, EnqueueRetry(r) PROVE CountInv'
    <2>1. CountedWasPosted'
      BY <1>14 DEF EnqueueRetry, Answer, CountedWasPosted, Exhausted
    <2>2. EntryHasDelivery' /\ FailedOnlyExhausted'
      BY <1>14 DEF EnqueueRetry, Answer, CountedWasPosted, EntryHasDelivery,
         FailedOnlyExhausted, Exhausted
    <2>3. OkWasAccepted' /\ SuccessIsTrue'
      BY <1>14 DEF EnqueueRetry, Answer, OkWasAccepted, SuccessIsTrue
    <2> QED
      BY <2>1, <2>2, <2>3
  <1>15. ASSUME NEW r \in Requests, MarkRetried(r) PROVE CountInv'
    <2>1. CountedWasPosted'
      BY <1>15 DEF MarkRetried, Answer, CountedWasPosted, Exhausted
    <2>2. EntryHasDelivery' /\ FailedOnlyExhausted'
      BY <1>15 DEF MarkRetried, Answer, CountedWasPosted, EntryHasDelivery,
         FailedOnlyExhausted, Exhausted
    <2>3. OkWasAccepted' /\ SuccessIsTrue'
      BY <1>15 DEF MarkRetried, Answer, OkWasAccepted, SuccessIsTrue
    <2> QED
      BY <2>1, <2>2, <2>3
  <1>16. ASSUME NEW r \in Requests, RequestFails(r) PROVE CountInv'
    <2>1. CountedWasPosted'
      BY <1>16 DEF RequestFails, Answer, CountedWasPosted, Exhausted
    <2>2. EntryHasDelivery' /\ FailedOnlyExhausted'
      BY <1>16 DEF RequestFails, Answer, CountedWasPosted, EntryHasDelivery,
         FailedOnlyExhausted, Exhausted
    <2>3. OkWasAccepted' /\ SuccessIsTrue'
      BY <1>16 DEF RequestFails, Answer, OkWasAccepted, SuccessIsTrue
    <2> QED
      BY <2>1, <2>2, <2>3
  <1>17. ASSUME NEW e \in Entries, DeleteEntry(e) PROVE CountInv'
    <2>1. CountedWasPosted'
      BY <1>17 DEF DeleteEntry, CountedWasPosted, Exhausted
    <2>2. EntryHasDelivery' /\ FailedOnlyExhausted'
      BY <1>17 DEF DeleteEntry, CountedWasPosted, EntryHasDelivery,
         FailedOnlyExhausted, Exhausted
    <2>3. OkWasAccepted' /\ SuccessIsTrue'
      BY <1>17 DEF DeleteEntry, OkWasAccepted, SuccessIsTrue
    <2> QED
      BY <2>1, <2>2, <2>3
  <1>18. CASE DeleteWebhook
    <2>1. CountedWasPosted'
      BY <1>18 DEF DeleteWebhook, CountedWasPosted, Exhausted
    <2>2. EntryHasDelivery' /\ FailedOnlyExhausted'
      BY <1>18 DEF DeleteWebhook, CountedWasPosted, EntryHasDelivery,
         FailedOnlyExhausted, Exhausted
    <2>3. OkWasAccepted' /\ SuccessIsTrue'
      BY <1>18 DEF DeleteWebhook, OkWasAccepted, SuccessIsTrue
    <2> QED
      BY <2>1, <2>2, <2>3
  <1>19. CASE UNCHANGED vars
    <2>1. CountedWasPosted'
      BY <1>19 DEF vars, CountedWasPosted, Exhausted
    <2>2. EntryHasDelivery' /\ FailedOnlyExhausted'
      BY <1>19 DEF vars, CountedWasPosted, EntryHasDelivery,
         FailedOnlyExhausted, Exhausted
    <2>3. OkWasAccepted' /\ SuccessIsTrue'
      BY <1>19 DEF vars, OkWasAccepted, SuccessIsTrue
    <2> QED
      BY <2>1, <2>2, <2>3
  <1> QED
    BY <1>1, <1>2, <1>3, <1>4, <1>5, <1>6, <1>7, <1>8, <1>9, <1>10, <1>11,
       <1>12, <1>13, <1>14, <1>15, <1>16, <1>17, <1>18, <1>19 DEF Next,
       HandlerStep, WorkerStep, RequestStep

(* A retry request queues the row it created for its own entry.            *)
LEMMA RetryStep == IInv /\ [Next]_vars => IInv'
  <1> SUFFICES ASSUME IInv, [Next]_vars PROVE IInv'
    OBVIOUS
  <1>0. QueueInv' /\ CountInv'
    BY QueueStep, CountStep DEF IInv
  <1> USE ConstantsAssumption, <1>0
      DEF IInv, QueueInv, TypeOK, rowVars, msgVars, endVars, dlqVars, workerVars, requestVars
  <1>1. ASSUME NEW d \in Deliveries, Dispatch(d) PROVE IInv'
    <2>1. RetriesOwnEntry'
      BY <1>1 DEF Dispatch, InsertRow, RetriesOwnEntry, FreshIsNew, HeldByOne
    <2>2. RetryIsQueued'
      BY <1>1 DEF Dispatch, InsertRow, RetriesOwnEntry, RetryIsQueued,
         FreshIsNew, HeldByOne
    <2> QED
      BY <2>1, <2>2
  <1>2. ASSUME NEW d \in Deliveries, Enqueue(d) PROVE IInv'
    <2>1. RetriesOwnEntry'
      BY <1>2 DEF Enqueue, RetriesOwnEntry, FreshIsNew, HeldByOne
    <2>2. RetryIsQueued'
      BY <1>2 DEF Enqueue, RetriesOwnEntry, RetryIsQueued, FreshIsNew,
         HeldByOne
    <2> QED
      BY <2>1, <2>2
  <1>3. ASSUME NEW w \in Workers, NEW d \in Deliveries, Take(w, d) PROVE IInv'
    <2>1. RetriesOwnEntry'
      BY <1>3 DEF Take, Goto, RetriesOwnEntry, FreshIsNew, HeldByOne
    <2>2. RetryIsQueued'
      BY <1>3 DEF Take, Goto, RetriesOwnEntry, RetryIsQueued, FreshIsNew,
         HeldByOne
    <2> QED
      BY <2>1, <2>2
  <1>4. ASSUME NEW w \in Workers, GetDelivery(w) PROVE IInv'
    <2>1. RetriesOwnEntry'
      BY <1>4 DEF GetDelivery, Goto, RetriesOwnEntry, FreshIsNew, HeldByOne
    <2>2. RetryIsQueued'
      BY <1>4 DEF GetDelivery, Goto, RetriesOwnEntry, RetryIsQueued,
         FreshIsNew, HeldByOne
    <2> QED
      BY <2>1, <2>2
  <1>5. ASSUME NEW w \in Workers, GetFails(w) PROVE IInv'
    <2>1. RetriesOwnEntry'
      BY <1>5 DEF GetFails, Settle, GiveBack, RetriesOwnEntry, FreshIsNew,
         HeldByOne
    <2>2. RetryIsQueued'
      BY <1>5 DEF GetFails, Settle, GiveBack, RetriesOwnEntry, RetryIsQueued,
         FreshIsNew, HeldByOne
    <2> QED
      BY <2>1, <2>2
  <1>6. ASSUME NEW w \in Workers, Post(w) PROVE IInv'
    <2>1. RetriesOwnEntry'
      BY <1>6 DEF Post, Goto, RetriesOwnEntry, FreshIsNew, HeldByOne
    <2>2. RetryIsQueued'
      BY <1>6 DEF Post, Goto, RetriesOwnEntry, RetryIsQueued, FreshIsNew,
         HeldByOne
    <2> QED
      BY <2>1, <2>2
  <1>7. ASSUME NEW w \in Workers, MarkSuccess(w) PROVE IInv'
    <2>1. RetriesOwnEntry'
      BY <1>7 DEF MarkSuccess, Mark, Settle, RetriesOwnEntry, FreshIsNew,
         HeldByOne
    <2>2. RetryIsQueued'
      BY <1>7 DEF MarkSuccess, Mark, Settle, RetriesOwnEntry, RetryIsQueued,
         FreshIsNew, HeldByOne
    <2> QED
      BY <2>1, <2>2
  <1>8. ASSUME NEW w \in Workers, UpdateRetry(w) PROVE IInv'
    <2>1. RetriesOwnEntry'
      BY <1>8 DEF UpdateRetry, Mark, Settle, GiveBack, Exhausted,
         RetriesOwnEntry, FreshIsNew, HeldByOne
    <2>2. RetryIsQueued'
      BY <1>8 DEF UpdateRetry, Mark, Settle, GiveBack, Exhausted,
         RetriesOwnEntry, RetryIsQueued, FreshIsNew, HeldByOne
    <2> QED
      BY <2>1, <2>2
  <1>9. ASSUME NEW w \in Workers, MarkFailed(w) PROVE IInv'
    <2>1. RetriesOwnEntry'
      BY <1>9 DEF MarkFailed, Mark, Goto, Exhausted, RetriesOwnEntry,
         FreshIsNew, HeldByOne
    <2>2. RetryIsQueued'
      BY <1>9 DEF MarkFailed, Mark, Goto, Exhausted, RetriesOwnEntry,
         RetryIsQueued, FreshIsNew, HeldByOne
    <2> QED
      BY <2>1, <2>2
  <1>10. ASSUME NEW w \in Workers, AddToDLQ(w) PROVE IInv'
    <2>1. RetriesOwnEntry'
      BY <1>10 DEF AddToDLQ, Settle, RetriesOwnEntry, FreshIsNew, HeldByOne
    <2>2. RetryIsQueued'
      BY <1>10 DEF AddToDLQ, Settle, RetriesOwnEntry, RetryIsQueued,
         FreshIsNew, HeldByOne
    <2> QED
      BY <2>1, <2>2
  <1>11. ASSUME NEW w \in Workers, Crash(w) PROVE IInv'
    <2>1. RetriesOwnEntry'
      BY <1>11 DEF Crash, Settle, GiveBack, RetriesOwnEntry, FreshIsNew,
         HeldByOne
    <2>2. RetryIsQueued'
      BY <1>11 DEF Crash, Settle, GiveBack, RetriesOwnEntry, RetryIsQueued,
         FreshIsNew, HeldByOne
    <2> QED
      BY <2>1, <2>2
  <1>12. ASSUME NEW r \in Requests, NEW e \in Entries, ReadEntry(r, e) PROVE
     IInv'
    <2>1. RetriesOwnEntry'
      BY <1>12 DEF ReadEntry, RetriesOwnEntry, FreshIsNew, HeldByOne
    <2>2. RetryIsQueued'
      BY <1>12 DEF ReadEntry, RetriesOwnEntry, RetryIsQueued, FreshIsNew,
         HeldByOne
    <2> QED
      BY <2>1, <2>2
  <1>13. ASSUME NEW r \in Requests, NEW d \in Deliveries, CreateRetry(r, d)
     PROVE IInv'
    <2>1. RetriesOwnEntry'
      BY <1>13 DEF CreateRetry, InsertRow, RetriesOwnEntry, FreshIsNew,
         HeldByOne
    <2>2. RetryIsQueued'
      BY <1>13 DEF CreateRetry, InsertRow, RetriesOwnEntry, RetryIsQueued,
         FreshIsNew, HeldByOne
    <2> QED
      BY <2>1, <2>2
  <1>14. ASSUME NEW r \in Requests, EnqueueRetry(r) PROVE IInv'
    <2>1. RetriesOwnEntry'
      BY <1>14 DEF EnqueueRetry, Answer, RetriesOwnEntry, FreshIsNew,
         HeldByOne
    <2>2. RetryIsQueued'
      BY <1>14 DEF EnqueueRetry, Answer, RetriesOwnEntry, RetryIsQueued,
         FreshIsNew, HeldByOne
    <2> QED
      BY <2>1, <2>2
  <1>15. ASSUME NEW r \in Requests, MarkRetried(r) PROVE IInv'
    <2>1. RetriesOwnEntry'
      BY <1>15 DEF MarkRetried, Answer, RetriesOwnEntry, FreshIsNew, HeldByOne
    <2>2. RetryIsQueued'
      BY <1>15 DEF MarkRetried, Answer, RetriesOwnEntry, RetryIsQueued,
         FreshIsNew, HeldByOne
    <2> QED
      BY <2>1, <2>2
  <1>16. ASSUME NEW r \in Requests, RequestFails(r) PROVE IInv'
    <2>1. RetriesOwnEntry'
      BY <1>16 DEF RequestFails, Answer, RetriesOwnEntry, FreshIsNew,
         HeldByOne
    <2>2. RetryIsQueued'
      BY <1>16 DEF RequestFails, Answer, RetriesOwnEntry, RetryIsQueued,
         FreshIsNew, HeldByOne
    <2> QED
      BY <2>1, <2>2
  <1>17. ASSUME NEW e \in Entries, DeleteEntry(e) PROVE IInv'
    <2>1. RetriesOwnEntry'
      BY <1>17 DEF DeleteEntry, RetriesOwnEntry, FreshIsNew, HeldByOne
    <2>2. RetryIsQueued'
      BY <1>17 DEF DeleteEntry, RetriesOwnEntry, RetryIsQueued, FreshIsNew,
         HeldByOne
    <2> QED
      BY <2>1, <2>2
  <1>18. CASE DeleteWebhook
    <2>1. RetriesOwnEntry'
      BY <1>18 DEF DeleteWebhook, RetriesOwnEntry, FreshIsNew, HeldByOne
    <2>2. RetryIsQueued'
      BY <1>18 DEF DeleteWebhook, RetriesOwnEntry, RetryIsQueued, FreshIsNew,
         HeldByOne
    <2> QED
      BY <2>1, <2>2
  <1>19. CASE UNCHANGED vars
    <2>1. RetriesOwnEntry'
      BY <1>19 DEF vars, RetriesOwnEntry, FreshIsNew, HeldByOne
    <2>2. RetryIsQueued'
      BY <1>19 DEF vars, RetriesOwnEntry, RetryIsQueued, FreshIsNew, HeldByOne
    <2> QED
      BY <2>1, <2>2
  <1> QED
    BY <1>1, <1>2, <1>3, <1>4, <1>5, <1>6, <1>7, <1>8, <1>9, <1>10, <1>11,
       <1>12, <1>13, <1>14, <1>15, <1>16, <1>17, <1>18, <1>19 DEF Next,
       HandlerStep, WorkerStep, RequestStep

(* Nothing exists at the start.                                            *)
LEMMA InitIInv == Init => IInv
  <1> SUFFICES ASSUME Init PROVE IInv
    OBVIOUS
  <1>1. QueueInv
    BY ConstantsAssumption
       DEF Init, QueueInv, TypeOK, HeldByOne, HandedInBounds, FreshIsNew
  <1>2. CountInv
    BY ConstantsAssumption
       DEF Init, CountInv, CountedWasPosted, EntryHasDelivery,
           FailedOnlyExhausted, OkWasAccepted, SuccessIsTrue
  <1>3. RetriesOwnEntry /\ RetryIsQueued
    BY DEF Init, RetriesOwnEntry, RetryIsQueued
  <1> QED
    BY <1>1, <1>2, <1>3 DEF IInv

(* The invariant holds in every reachable state.                           *)
THEOREM Invariance == Spec => []IInv
  <1>1. Init => IInv
    BY InitIInv
  <1>2. IInv /\ [Next]_vars => IInv'
    BY RetryStep
  <1> QED
    BY <1>1, <1>2, PTL DEF Spec

(* Type correctness.                                                       *)
THEOREM Typing == Spec => []TypeOK
  <1>1. IInv => TypeOK
    BY DEF IInv, QueueInv
  <1> QED
    BY <1>1, Invariance, PTL

(* Only deliveries that were tried MaxAttempts times are called failed.    *)
THEOREM FailedIsExhausted == Spec => []FailedOnlyExhausted
  <1>1. IInv => FailedOnlyExhausted
    BY DEF IInv, CountInv
  <1> QED
    BY <1>1, Invariance, PTL

(* A row that says success was processed by the endpoint.                  *)
THEOREM SuccessIsAccepted == Spec => []SuccessIsTrue
  <1>1. IInv => SuccessIsTrue
    BY DEF IInv, CountInv
  <1> QED
    BY <1>1, Invariance, PTL

(* An entry marked as retried has a delivery in the queue.                 *)
THEOREM RetriedIsQueued == Spec => []RetryIsQueued
  <1>1. IInv => RetryIsQueued
    BY DEF IInv
  <1> QED
    BY <1>1, Invariance, PTL

(* A step of the webhook pipeline is a step of WorkDelivery or changes     *)
(* nothing that WorkDelivery sees: a success finds the delivery accepted.  *)
LEMMA DeliveryStep == IInv /\ [Next]_vars => [Delivery!Next]_(Delivery!vars)
  <1> SUFFICES ASSUME IInv, [Next]_vars
               PROVE  [Delivery!Next]_(Delivery!vars)
    OBVIOUS
  <1> DEFINE view(m) == CASE m \in {"none", "unsent", "lost"} -> "new"
                          [] m \in {"ready", "held"} -> "queued"
                          [] m = "acked" -> "finished"
                          [] m = "dead" -> "dropped"
             task == [d \in Deliveries |-> view(msg[d])]
  <1> TypeOK
    BY DEF IInv, QueueInv
  <1>0. ASSUME NEW k \in Deliveries, NEW m, msg' = [msg EXCEPT ![k] = m]
        PROVE  task[k] = view(msg[k]) /\ task' = [task EXCEPT ![k] = view(m)]
    <2> HIDE DEF view
    <2> QED
      BY <1>0 DEF TypeOK
  <1>1. CASE UNCHANGED <<msg, accepted>>
    BY <1>1 DEF Delivery!vars
  <1>2. ASSUME NEW k \in Deliveries, msg[k] \in {"none", "unsent"},
               \E m \in {"unsent", "ready", "lost"} :
                 msg' = [msg EXCEPT ![k] = m],
               accepted' = accepted
        PROVE  [Delivery!Next]_(Delivery!vars)
    <2>1. CASE \E m \in {"unsent", "lost"} : msg' = [msg EXCEPT ![k] = m]
      <3>1. task' = task
        BY <1>2, <2>1 DEF TypeOK
      <3> QED
        BY <1>2, <3>1 DEF Delivery!vars
    <2>2. CASE msg' = [msg EXCEPT ![k] = "ready"]
      <3>1. task[k] = "new" /\ task' = [task EXCEPT ![k] = "queued"]
        BY <1>2, <2>2, <1>0
      <3> QED
        BY <1>2, <3>1 DEF Delivery!Next, Delivery!Submit
    <2> QED
      BY <1>2, <2>1, <2>2
  <1>3. ASSUME NEW d \in Deliveries, Dispatch(d) \/ Enqueue(d)
        PROVE  [Delivery!Next]_(Delivery!vars)
    <2>1. /\ msg[d] \in {"none", "unsent"} /\ accepted' = accepted
          /\ \E m \in {"unsent", "ready", "lost"} : msg' = [msg EXCEPT ![d] = m]
      BY <1>3 DEF Dispatch, Enqueue, InsertRow, endVars, IInv, QueueInv, FreshIsNew
    <2> QED
      BY <2>1, <1>2
  <1>4. ASSUME NEW r \in Requests, EnqueueRetry(r)
        PROVE  [Delivery!Next]_(Delivery!vars)
    <2>1. /\ fresh[r] \in Deliveries /\ msg[fresh[r]] = "none"
          /\ accepted' = accepted
          /\ \E m \in {"ready", "lost"} : msg' = [msg EXCEPT ![fresh[r]] = m]
      BY <1>4 DEF EnqueueRetry, endVars, IInv, QueueInv, FreshIsNew
    <2> QED
      BY <2>1, <1>2
  <1>5. ASSUME NEW w \in Workers, NEW d \in Deliveries, Take(w, d)
        PROVE  [Delivery!Next]_(Delivery!vars)
    <2>1. task' = task /\ accepted' = accepted
      BY <1>5 DEF Take, TypeOK, endVars
    <2> QED
      BY <2>1 DEF Delivery!vars
  <1>6. ASSUME NEW w \in Workers, Post(w)
        PROVE  [Delivery!Next]_(Delivery!vars)
    <2>1. at[w] \in Deliveries /\ msg[at[w]] = "held" /\ msg' = msg
      BY <1>6 DEF Post, IInv, QueueInv, HeldByOne, msgVars
    <2>2. task[at[w]] = "queued" /\ task' = task
      BY <2>1
    <2>3. accepted' = accepted \cup {at[w]} \/ accepted' = accepted
      BY <1>6 DEF Post
    <2> QED
      BY <2>1, <2>2, <2>3 DEF Delivery!Next, Delivery!Store, Delivery!vars
  <1>7. ASSUME NEW w \in Workers,
               \/ GetFails(w) \/ MarkSuccess(w) \/ UpdateRetry(w)
               \/ AddToDLQ(w) \/ Crash(w)
        PROVE  [Delivery!Next]_(Delivery!vars)
    <2>1. at[w] \in Deliveries /\ msg[at[w]] = "held" /\ accepted' = accepted
      BY <1>7 DEF GetFails, MarkSuccess, UpdateRetry, AddToDLQ, Crash,
                  IInv, QueueInv, HeldByOne, endVars
    <2>2. \/ msg' = [msg EXCEPT ![at[w]] = "ready"]
          \/ msg' = [msg EXCEPT ![at[w]] = "dead"]
          \/ msg' = [msg EXCEPT ![at[w]] = "acked"] /\ at[w] \in accepted
      BY <1>7 DEF GetFails, MarkSuccess, UpdateRetry, AddToDLQ, Crash, Settle,
                  GiveBack, IInv, CountInv, OkWasAccepted
    <2>3. CASE msg' = [msg EXCEPT ![at[w]] = "ready"]
      <3>1. task' = task
        BY <2>1, <2>3 DEF TypeOK
      <3> QED
        BY <2>1, <3>1 DEF Delivery!vars
    <2>4. CASE msg' = [msg EXCEPT ![at[w]] = "dead"]
      <3>1. /\ task[at[w]] = "queued"
            /\ task' = [task EXCEPT ![at[w]] = "dropped"]
        BY <2>1, <2>4, <1>0
      <3> QED
        BY <2>1, <3>1 DEF Delivery!Next, Delivery!Drop
    <2>5. CASE msg' = [msg EXCEPT ![at[w]] = "acked"] /\ at[w] \in accepted
      <3>1. /\ task[at[w]] = "queued"
            /\ task' = [task EXCEPT ![at[w]] = "finished"]
        BY <2>1, <2>5, <1>0
      <3> QED
        BY <2>1, <2>5, <3>1 DEF Delivery!Next, Delivery!Finish
    <2> QED
      BY <2>2, <2>3, <2>4, <2>5
  <1>8. ASSUME NEW w \in Workers, GetDelivery(w) \/ MarkFailed(w)
        PROVE  UNCHANGED <<msg, accepted>>
    BY <1>8 DEF GetDelivery, MarkFailed, msgVars, endVars
  <1>9. ASSUME NEW r \in Requests,
               \/ \E e \in Entries : ReadEntry(r, e)
               \/ \E d \in Deliveries : CreateRetry(r, d)
               \/ MarkRetried(r) \/ RequestFails(r)
        PROVE  UNCHANGED <<msg, accepted>>
    BY <1>9 DEF ReadEntry, CreateRetry, MarkRetried, RequestFails, msgVars, endVars
  <1>10. ASSUME \/ \E e \in Entries : DeleteEntry(e)
                \/ DeleteWebhook \/ UNCHANGED vars
         PROVE  UNCHANGED <<msg, accepted>>
    BY <1>10 DEF DeleteEntry, DeleteWebhook, vars, msgVars, endVars
  <1> HIDE DEF task, view
  <1> QED
    BY <1>1, <1>3, <1>4, <1>5, <1>6, <1>7, <1>8, <1>9, <1>10
       DEF Next, WorkerStep, HandlerStep, RequestStep

(* The webhook pipeline implements the promise of WorkDelivery.            *)
THEOREM Refinement == Spec => ImplementsWorkDelivery
  <1>1. Init => Delivery!Init
    BY DEF Init, Delivery!Init
  <1>2. IInv /\ [Next]_vars => [Delivery!Next]_(Delivery!vars)
    BY DeliveryStep
  <1> QED
    BY <1>1, <1>2, Invariance, PTL DEF Spec, ImplementsWorkDelivery,
       Delivery!Spec
=============================================================================
