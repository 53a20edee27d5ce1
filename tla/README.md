# TLA+ models of file.cheap

file.cheap stores files, makes variants of them (thumbnails, transcodes, PDF
previews, ...) in background workers, shares them, sells plans with quotas,
tells its users about their jobs through webhooks and event streams, and has a
command line client.  This directory holds TLA+ modules of the parts in which
order, failure and concurrency matter, configurations that check them with TLC,
and proofs that TLAPS checks.  Paths below are relative to `src/`.

    tlc -config JobLifecycle_one_job.cfg MCJobLifecycle.tla    # a run
    tlapm JobLifecycleProofs.tla                               # a proof

`PROJECT.json` lists the runs, the lines each definition stands for, a mutated
definition for every property (a bug under which TLC reports that property),
the findings, the hazards and the theorems.

## 1. The system

### Parts, state and operations

| Part | State | Operations | Module |
|---|---|---|---|
| Processing jobs: `internal/worker`, `internal/api/jobs.go`, `cmd/worker` | rows of `processing_jobs` and `file_variants`, messages on Redis streams, objects in storage, usage counters | enqueue with a tracking row, twelve handlers, retry, cancel, bulk retry, timeout and redelivery | `JobLifecycle` |
| Transformation requests: `internal/api/routes.go`, `internal/web/handlers.go`, `internal/billing/limits.go` | `users.transformations_count` and `_limit`, `batch_operations`, `batch_items`, `files.status` | transform, batch, transcode, HLS; process, bundle and batch of the pages | `Transformations` |
| Chunked uploads: `internal/api/chunked_upload.go` | a map of sessions in memory, chunk objects | init, chunk, assemble, cancel, expire | `ChunkedUpload` |
| Live updates: `internal/api/sse.go` | the hub's list of streams, their channels; the upload session | connect, register, broadcast, hang up; watch an upload | `LiveUpdates`, `UploadProgress` |
| Webhook delivery: `internal/worker/webhook.go`, `internal/api/webhook_dlq.go` | `webhook_deliveries`, `webhook_dlq`, messages | deliver, back off, dead-letter, retry and delete a dead letter | `WebhookDelivery` |
| Webhook configuration and dispatch: `internal/api/webhooks.go`, `internal/webhook` | `webhooks`, `webhook_deliveries` | create, update, delete, test, dispatch, list | `Webhooks` |
| Device login: `internal/api/device_auth.go`, `internal/fc/cli/auth.go` | a map of codes in memory, `api_tokens`, the CLI's configuration | ask for a code, approve, poll, expire | `DeviceAuth` |
| File library: `internal/api/routes.go`, `internal/web/handlers.go`, `internal/worker/cleanup.go`, `cmd/cleanup` | `files`, `user_settings`, objects in storage | upload under the plan's limit, delete, batch delete, purge, retention | `FileLibrary` |
| Pages and endpoints of one file: `internal/web/handlers.go`, `internal/api/routes.go` | none of their own; they read `files`, `file_variants`, storage | status, detail, info, preview, download, HLS, embed | `Viewing` |
| Plans: `internal/billing`, `internal/web/billing_handlers.go`, `enterprise_handlers.go` | the billing columns of `users`, `enterprise_inquiries` | trial, checkout, portal, Stripe's events, inquiries, administrators | `Plans` |
| Accounts: `internal/auth`, `internal/web/handlers.go`, `oauth_handlers.go` | `users`, `sessions`, `email_verifications`, `password_resets`, `api_tokens`, `oauth_accounts`, `user_settings` | register, log in, OAuth, disconnect, verify, resend, forgot, change, profile, tokens, delete | `Accounts` |
| Shares and the CDN: `internal/api/cdn.go` | `file_shares`, `transform_cache` | create and delete a share; serve, transform, cache, count | `Sharing` |
| Folders and tags: `internal/api/folders.go`, `tags.go` | `folders` with stored paths, `files.folder_id`, `file_tags` | create, rename, move, delete, tag | `Folders` |
| Bulk downloads: `internal/api/bulk_download.go`, `ZipDownloadHandler` | `zip_downloads`, archives | request, build, list | `ZipDownloads` |
| Rate limits: `internal/api/middleware.go` | token buckets in memory | take a token, clean up | `RateLimiter` |
| Command line client: `internal/fc` | what one command keeps in memory, the user's disk | upload, batch, transform, video, delete, download, status and their waits | `Cli` |
| Everything else: processors, storage client, lists and dashboard, analytics, mail, audit, configuration, metrics, generated queries, deployment | none that spans two steps | | no, see section 8 |

### How the parts interact

* The API and the web server are one process.  They write a `processing_jobs`
  row and then put a message on the broker (`worker.EnqueueWithTracking`): two
  calls, either of which may fail.  `Transformations` has the requests in front
  of it, `JobLifecycle` what follows, `Viewing` what its result looks like to
  those who read meanwhile.
* A worker process takes messages and runs the handler registered for the job
  type.  A handler makes up to ten database and storage calls; none of them
  share a transaction.  The broker, the library job-queue, hands a message out
  again when its handler returned an error or its worker died.
* Owners act on the same rows at the same time: they retry and cancel jobs,
  delete files one by one or in a batch that takes variants and uploads along,
  delete webhooks, change their settings and their plan.
* Stripe reports what becomes of subscriptions in events that it repeats until
  they are answered 200, in any order.
* `cmd/cleanup` purges deleted files and expires old ones beside all of this.
* Upload sessions, device codes, the hub's streams and the buckets of the
  limiter live in the memory of one API process; a restart loses them.
* Events of uploads and jobs go to the dispatcher of webhooks (`Webhooks`),
  each delivery through the broker to a worker (`WebhookDelivery`).

### What is hard, and what makes each part correct

* **Jobs.**  Four writes make one result; a worker can die, and time out,
  between any two; messages come back after the result was stored; owners
  rewrite the row meanwhile.  Correct means: what is acknowledged or called
  completed is in storage unless its owner had it deleted, nothing that was
  queued hangs, and the original of a video only goes when its transcode is
  there, or with the file.
* **Transformation requests.**  The remainder is read once and counted job by
  job, errors ignored; a batch's rows are written around the loop.  Correct
  means: a bound on the overrun, each job counted once, a batch that names the
  jobs that were queued for it.
* **Chunked uploads.**  Requests for different chunks run in parallel, and the
  one that completes the set assembles the file while cancel and expiry delete
  chunks.  Correct means: one file for one upload, no row without its object,
  no chunk lost by a failed assembly, nobody blocked for ever on the lock.
* **Live updates.**  Register and unregister hand over to the hub without a
  buffer, senders hold the list's lock for reading while they send into
  channels the hub closes.  Correct means: no send on a closed channel, and a
  stream whose client is gone ends; the second is not so as the binaries are
  (section 4).
* **Webhooks.**  At-least-once messages, updates whose errors are ignored, a
  dead letter that its owner retries and deletes; endpoints that change while
  deliveries are under way.  Correct means: failure is told truly, a retry is
  not lost, every message settles, and what was edited away is not posted to
  for long.
* **Device login.**  Token requests read a code without the lock under which an
  approval writes it; answers get lost after the code was used up.  Correct
  means: a key that was handed out works, a code is good for one login, the
  CLI does not wait for ever.
* **File library.**  The limit is checked long before the row is inserted;
  storage and database are changed one after the other, by the owner, by video
  jobs and by the cleanup, with errors that are only logged; the cleanup works off a list while the owner goes on.  Correct
  means: the overrun is bounded, storage never loses what its owner keeps,
  nothing is forgotten in storage without a failure, the grace period is kept,
  the trash is emptied.
* **Views of a file.**  Status, variants and links are read one after the other
  while jobs write them in their own order.  Correct means: who is told the
  file is completed is shown a variant, and it is there.
* **Plans.**  Trials, events, administrators and inquiries write the same
  columns after reading them earlier; events come twice, late and in any
  order; Stripe has more statuses than the row.  Correct means: after events in order the row says what Stripe says,
  and a payment brings the plan in the end.
* **Accounts.**  OAuth and verification take several statements without a
  transaction.  Correct means: an account keeps a way to sign in, and links do
  not pile up.
* **Shares, bulk downloads.**  Counts are read before and written after, the
  latter in goroutines.  Correct means: a bound on what passes the limit.
* **Folders.**  The path of a folder is copied from a parent that was read
  earlier.  Correct means: paths are stale only where the parent was written
  again, and every file and folder is found in exactly one list.
* **Rate limits.**  Whole seconds, minutes of idleness, a cap: correct means
  that none of the roundings gives requests away.
* **Client.**  Goroutines report through a channel somebody must close; answers
  get lost after the API did what was asked.  Correct means: the summary is
  true, the command ends.

`PROJECT.json` lists these hazards at their lines.

## 2. The plan

1. `WorkDelivery`, the abstract promise of a queue, and `JobLifecycle`, which
   implements it.  Done, with proofs.
2. `ChunkedUpload`, `WebhookDelivery` (implements `WorkDelivery` as well),
   `DeviceAuth`, `FileLibrary`.  Done, with proofs.
3. `Transformations`, `Plans`, `Accounts`, `Cli`.  Done, with proofs.
4. `Sharing`, `Folders`, `ZipDownloads`, `Webhooks`, `RateLimiter`, `Viewing`,
   composed in one run by `MCFeatures`; `LiveUpdates` and `UploadProgress`,
   composed by `MCUploads`.  Done, with proofs.

Every safety property that a run checks is now a theorem; what stays with TLC
is liveness (section 7).

Each module has its own actions and properties and can be checked by itself;
several small ones share a run because none of them has a question that needs
a run of its own.

## 3. The modules

One action is one call that can fail or one critical section, because between
two of them any other party can act.  Failing calls are disjuncts of the same
action.  Data are model values: names, sizes, types and payloads are left out
unless a guard depends on them.

### WorkDelivery
A task is new, queued, finished or dropped; it is finished only after its
result was stored, or when its owner has waived the result (`Waive`), which may
then be removed (`Remove`).  It has no counterpart in the code: it is what both
queues promise.

### JobLifecycle (`MCJobLifecycle`, `JobLifecycleProofs`)
Rows, messages, variant rows, objects, files and per worker the next call.

* `CreateJob`, `Enqueue` are the two halves of `EnqueueWithTracking`.
* `Deliver`, `Settle`, `Crash`, `JobTimeout` are the broker and its worker pool:
  outside the repository, modelled from the way `cmd/worker/main.go` sets them
  up.  A message is given up after `MaxDeliveries` deliveries.
* `MarkRunning`, `Load`, `Fetch`, `Upload`, `SaveVariant`, `UpdateFileStatus`,
  `MeterUsage`, `DeleteOriginal`, `MarkOriginalDeleted`, `MarkCompleted`,
  `MarkFailed` are the calls of a handler.  The twelve handlers have the same
  shape; the table `Profile` says which of the calls each one makes
  (`ThumbnailJob` ... `VideoWatermarkJob`).
* `ApproveRetry`/`RetryJob` and `ApproveCancel`/`CancelJob` are the two
  statements of those endpoints, `BulkRetry` the one of the third.
* `UserDelete` is `DeleteFile`, which marks the row only; `PurgeBlob` and
  `PurgeRow` are the cleanup's purge.
* `BatchDelete`, `ListVariants`, `DeleteVariantObject`, `DeleteVariantRows`,
  `EraseUpload`, `SoftDelete` are the calls of `BatchDeleteFiles`
  (`internal/web/handlers.go:1986`) for one file, whose row stays live up to the
  last of them; the retention pass (`RetentionExpires`) makes the last two.
  Each of them may fail and the next one follows all the same.  `erase` is the
  place in this sequence, `listed` the variants still to remove.
* What a batch delete may have taken from a job is in `doomed`: the jobs that
  existed as it listed the variants, and those whose row came before it had
  deleted the variant rows.  The properties about stored results except these
  and no others: a job whose row came later is owed its result, also when the
  batch delete fails to delete the file in the end.  Likewise `erasures` counts
  the deletions of a file that were begun, and its original is kept until a
  transcode is there only as long as there are none.
* `Registered` are the types `cmd/worker/main.go` registers in the build with
  video; the build without it registers fewer (`cmd/worker/video_stub.go`).

### ChunkedUpload (`UploadsProofs`)
One session, with parallel chunk requests.  `FindSession`, `StoreChunk`,
`MarkLoaded` (the critical section that decides who assembles), then
`ReadChunk`, `PutFinal`, `TidyChunk`, `CreateFile`, `DropSession` of
`assembleChunks`.  Cancel and expiry are two sweepers (`StartSweep`,
`SweepChunk`, `EndSweep`); the expiry sweeps while it holds the store's lock
(`StoreFree`).  `Restart` loses the session and every request.

### WebhookDelivery (`MCWebhookDelivery`, `WebhookDeliveryProofs`)
`Dispatch` and `Enqueue` are `Dispatcher.Dispatch`; the test endpoint makes the
same two calls, and as the binaries pass no dispatcher to the API it is the
only one that queues deliveries today.  `Take`, `GetDelivery`/`GetFails`,
`Post`, then `MarkSuccess`, `UpdateRetry` or `MarkFailed` and `AddToDLQ` are the
handler.  `ReadEntry`, `CreateRetry`, `EnqueueRetry`, `MarkRetried`, `Answer`,
`RequestFails` are the retry of a dead letter.  No binary of this commit
registers the handler: `HandlerRegistered` is a constant, TRUE in the runs, so
that they ask about the handler and not about the wiring.

### DeviceAuth (`ServicesProofs`)
One code.  `GetCode`, `ReadApproved`, `ReadKey`, `DeleteCode` are one token
request: after `Get` has returned the pointer, the fields are read without the
lock while `SetApproved` and `SetKey` write them under it.  That is a data
race; the model lets the reads see any prefix of the writes.  `FindCode`,
`InsertToken`, `Approve` are an approval, `Poll`, `Receive`, `LoseAnswer`,
`GiveUp` the loop of the CLI.  `Expire`, `Cleanup` and `Restart` take the code
away.

### FileLibrary (`FileLibraryProofs`)
The files of one user, by their rows (`row`), objects (`original`) and ages in
days.  `Admit` and `AdmitUncounted` are the limit check of both upload handlers
(`UnderLimit`; a count that fails counts as zero), `PutObject` and `CreateFile`
the two calls after it.  `DeleteFile` sets `deleted_at` and nothing else;
`BeginErase`, `EraseObject`, `EraseRow` are one file of a batch delete, whose
storage errors are dropped.  `StartCleanup`, `ListBatch`, `DeleteObject`,
`DeleteRow`, `NextPass` are `RunCleanup` with its two passes;
`ExpiredTrash` and `PastRetention` are the two queries.  `StopApi` and
`StopCleanup` end the processes between two calls.  `DropOriginal` and
`MarkOriginalDeleted` are the two calls of a video job with auto-deletion, from
the point of view of the library: between them, or for good when the second
fails (its error is only logged) or never comes, the live row names an object
that is gone (`unmarked`).  Three simplifications: the web page takes the limit from the plan and the API
from `users.files_limit` (one constant `FilesLimit` here), the files of one
form are uploaded one after the other in the code and in any order here, and
one cleanup runs at a time.  New files get their identifiers by a fixed choice
(`Placings`), because which of the fresh ones they are matters to nothing.

### Transformations (`MCTransformations`, `TransformationsProofs`)
`Transform`, `BatchTransform`, `VideoTranscode`, `VideoHLS`, `ProcessFile`,
`ProcessBundle` and `BatchProcessFiles` are the entries of the seven handlers
up to their loop: who may call them (`BillingMiddleware`, `CanUseFeature`), and
what is left to do.  `CheckUsage`, `CreateBatchOperation`, `HasVariant`,
`CreateJob`, `Enqueue`, `IncrementTransformationCount`, `CreateBatchItem`,
`MarkProcessing` are the calls of the loop, each of which may fail with the
consequence it has in the code.  `CreateVariant`, `CompleteJob`, `FailJob` are
a worker in three strokes, `UpdateUserTier`, `UpdateUserSubscription` and
`CancelUserSubscription` the changes of plan.

### Plans (`OwnerProofs`)
One user's row and the subscriptions at Stripe.  `ReadPlan`/`StartTrial`,
`FindCustomer`/`StoreCustomer`, `HasPending`/`CreateEnterpriseInquiry`,
`ProcessInquiry`/`UpdateUserToEnterprise` are handlers that read with one
statement and write with another.  `Pay` and `ChangeStatus` are Stripe, `Deliver`
and `FailEvent` an event that reaches the handler, in any order and again after
a failure.  `StripeStatuses` are the statuses of a subscription that has not
ended; a new one is active or incomplete (`FirstStatuses`).  `MapStripeStatus` is
`mapStripeStatus`: incomplete, incomplete_expired, paused and whatever else
Stripe may say become none, and the tier is Pro all the same.  A limit is
modelled as the tier whose limit it is.

### Accounts (`OwnerProofs`)
One e-mail address.  Every browser has one request under way; `Pages` are the
requests, `Statements` their statements in order, `Fail` any of them failing.
Using a reset link is not an action: nothing mails one.

### Cli (`MCCli`, `OwnerProofs`)
One command.  `Start` is any command with any files, `Handle` what the client
does next for a file, `Serve`, `Refuse`, `CallFails` what becomes of its
request, the last of them before or after the API has done it.  `Collect`,
`CloseResults` and `End` are the goroutines around the upload workers.

### Sharing, Folders, ZipDownloads, Webhooks, RateLimiter, Viewing (`MCFeatures`)
`PagesProofs` has the theorems of `Sharing`, `Folders`, `Viewing` and
`RateLimiter`, `ServicesProofs` those of `ZipDownloads` and `Webhooks`.

* `Sharing`: `Arrive`, `ReadLimit`, `ReadTransforms`, `ServeOriginal`,
  `ServeTransform` are the steps of the CDN handler, `IncrementShareAccessCount`
  and `...DownloadCount` its goroutines.  Hits of the cache are left out: the
  cache is never filled (see `CachedAfterThree`).
* `Folders`: `ReadForCreate`/`CreateFolder`, `ReadForUpdate`/`UpdateFolder`,
  `ReadForMove`/`MoveFileToFolder` have the read of the parent and the write of
  the row as two steps; deletions cascade as the foreign keys say.
* `ZipDownloads`: `CountPending`, `CreateZipDownload`, `QueueZip` are the
  request, `StartZip`, `CollectFiles`, `StoreArchive`,
  `UpdateZipDownloadCompleted` the handler, with `StepFails` and `WorkerDies`.
* `Webhooks`: the owner's changes, the dispatcher call by call, and a worker's
  reading of the webhook it posts to.  What becomes of a delivery row is
  `WebhookDelivery`.
* `RateLimiter`: the bucket in whole seconds beside an exact one (`credit`,
  not in the code).
* `Viewing`: `Ask` starts one of nine read endpoints, each a sequence of calls
  (`Calls`), `Look` is the next call; a job makes its variants beside it, and
  deletes, batch deletes and the purge take the file away.

The six share no state that a property tells apart, so `MCFeatures` lets each
behaviour be one of one part (`Untouched`); this keeps the sum of their states
instead of the product and changes nothing a part can do.

### LiveUpdates and UploadProgress (`MCUploads`, `UploadsProofs`)
`Connect`, `Register`, `Serve` (receive, write, read the initial status),
`Depart`, `Unregister` are a stream, `HubLock` the hub, `Broadcast` and `Send` a
sender with the lock (`ListCopied`, `NoReader`).  `UploadProgress` extends
`ChunkedUpload` by the stream that looks at its session (`Watch`, `Poll`,
`Unwatch`).  No binary starts the hub or sends through it: `HubStarted` is a
constant.  The run has it TRUE and asks only what the hub's code is safe of,
should it be started (`NoSendOnClosed`); that a stream ends (`StreamsEnd`) is
claimed nowhere, because it is false of the binaries (section 4).
The hub's channel for broadcasts has no sender and is left out.

Variables marked "history" (`doomed`, `erasures`, `stray`, `unchecked`,
`failures`, `peak`, `slack`, `blind`, `behind`, `orderly`, `meddled`, `raced`,
`moved`, `misread`, `late`, `credit`, `finished` and the like) record
what has happened for the properties; no guard of the code depends on them.

## 4. The runs

| Run | Shows |
|---|---|
| `job_one` | One PDF job, delivered up to twice, while its owner retries, cancels and deletes, alone or in a batch, and the cleanup expires and purges.  Acknowledged or completed work is stored unless a batch delete met the job, stale requests never touch a completed row, every accepted message settles, and the pipeline implements `WorkDelivery`. |
| `job_two_transcodes` | Two transcodes of one video on two workers, with auto-deletion of the original and one batch delete or expiry of the file: variant rows have objects unless the batch met the job, the original is kept until a transcode is there or the file is being deleted. |
| `job_retry_queues` | *Finding.*  Retry resets the row and sends no message; the API says "Job queued for retry" (docs/API.md:1462). |
| `uploads_and_streams` | Two requests in flight, two chunks, each sent up to twice, with cancel, expiry, restart and a stream that watches; or two streams of file events with a sender and the hub.  No row without its object, no loaded chunk lost, one file per upload; nobody sends on a closed channel; requests are answered and the stream of an upload ends. |
| `webhook_retry` | Two workers, a delivery and the retry of its dead letter, with crashes, lost messages, failing updates and the webhook deleted at any time. |
| `device_auth` | Three polls, two approvals, expiry, lost answers, restart. |
| `file_library` | Three files, two uploads in flight at a limit of one, deletes, video jobs that drop originals and may not mark them, a cleanup in batches of one and one failure anywhere: the overrun is bounded, only files on their way out or so dropped are without an object, nothing is forgotten without a failure, the grace period is kept, the trash is emptied. |
| `transformations` | Two requests at any of the seven endpoints on a video, with a failed call, a deletion, a worker and a change of plan in any order: the overrun is bounded by what was in flight, each queued job is counted once, a batch names its jobs. |
| `plans` | Two checkouts, a trial, an inquiry and an administrator, subscriptions active, past due or incomplete; events in any order, repeated and failing: the row settles as Stripe says, as far as it has a word for it, and a finished checkout brings the tier. |
| `accounts` | Four requests of two browsers, statement by statement: the account keeps a way to sign in, links are bounded. |
| `user_features` | The six parts of `MCFeatures`, each by itself: downloads over a share's limit, paths and lists of folders, unfinished bulk downloads, posts to a former endpoint and requests over the rate are bounded; a view shows what is there. |
| `cli_command` | Any one command over three files, with refused, unanswered and half answered requests and Ctrl-C: its summary is true, and it ends. |

### Findings

`PROJECT.json` lists where the code and what the repository says of it part.
One has a run.  The others can be reproduced by naming the property in the
configuration of its module; these configurations are kept for it:
`JobLifecycle_cancel_sticks.cfg`, `JobLifecycle_hls.cfg`,
`WebhookDelivery_retried_once.cfg`, `DeviceAuth_keyless.cfg`,
`FileLibrary_never.cfg`, `Accounts_reset.cfg`.  Some need other
values: `OnePending` two inquiries, `AcceptedIsStorable` a kind such as
"webm_480p", `StreamsNamedFile` two files in `Watched`, `SegmentsFound` a video
whose job makes "hls_master", `EntriesDistinct` files named a, a and a_2 in one
archive, `PagesAnswered` a `MaxPage` of 9.
Temporal ones are refuted under the fairness of section 6: `InterruptEnds`, and
`StreamsEnd` of `LiveUpdates` with `LiveSpec` and `HubStarted = FALSE`, which is how
the binaries are: a stream waits in its registration (`internal/api/sse.go:163`)
for ever, also after its client has hung up.  Findings without a property are
calls that nothing makes (`CheckTrialExpiration`, `ResetExpiredTransformations`,
`NewDispatcher`), routes and handlers that are not registered, and tables of the
documentation that differ from the code.

Some things the runs show that are not findings, because the repository does
not promise otherwise: an upload whose row cannot be inserted leaves its object
behind (`stray`); uploads side by side pass the plan's limit, but never by more
than can be in flight; a batch delete or a retention pass that is interrupted, or
whose last statement fails, leaves a live row without its object, and a batch
delete also a completed job without its variant (`doomed`); a video job whose
`MarkOriginalDeleted` fails leaves a live row with the key of an object that is
gone (`unmarked`); a subscription that is incomplete or paused has tier Pro and
status none: the limits of the plan without its features (`IsPro` wants an
active status).

Properties that are stated but in no run: the type invariants of the modules that
have proofs are proved (section 7), as are `SuccessIsTrue` and
`OneTimeCode`; `SpentLinkVerifies`, `FilesLimitFollowsTier` hold in the runs' models but say
less than the properties the runs name.

Deadlock is not checked, because every one of these systems may really come to
rest: all jobs done, the login finished, every file purged.

## 5. Bounds

* `MaxDeliveries` 2 (`job_one`, bulk downloads) and 3 (webhooks): a message comes
  back at least once after each kind of failure; 3 lets a delivery be refused
  `MaxAttempts` = 2 times and still crash in between.  The code's limit is 10
  attempts (`maxRetries`, `internal/worker/webhook.go:23`); the comparison is the
  same.  `job_two_transcodes` asks about two jobs of one file rather than about
  one job twice, and has 1.
* `MaxErasures` 1: a batch delete or an expiry of the file begins at any point
  of a job and does any of its calls, and what follows when it could not delete
  the file is in the run; a second one would doom the same jobs again.
* `MaxRequests` 2 (jobs): a retry and a cancel that both passed their check
  race; 4 (accounts): sign up, link a second provider, and two requests that
  overlap.
* Two workers, two jobs of one file: the least with which jobs interfere.  A
  third worker adds no pair of steps that two do not have.
* Chunks 2, requests 2, `MaxSends` 2: two requests that complete the set, one
  of them with a chunk that was sent again.  A client that watches its upload
  sends each chunk once (`Watching` in `MCUploads`).
* Two streams, one sender, one file and `MaxMessages` 2 with a `Buffer` of 1
  (10 in the code): a message finds the channel free, and full, and one stream
  leaves while the sender goes through a list of both.
* Polls 3, approvals 2, `MaxErrors` 2: a key that is lost in an answer, a poll
  after it, and one more that is refused; two approvals that overwrite each
  other's key.
* Files 3, slots 2, `FilesLimit` 1: the bound of `OverrunIsBounded` is
  1 - 1 + 2 = 2 live files, which is reached; a third file would break it.
  `BatchSize` 1 makes every pass list more than once.  `MaxAge`, `TrashDays`
  and `Retentions` of one day: a row is either young or old, which is all the
  queries ask.  `MaxFailures` 1: one failed call or stopped process at any
  point; the theorems hold for any number.
* Transformations: two requests for up to `MaxAsk` = 2 jobs each with
  `FreeLimit` 1 and `ProLimit` 2, so that one alone can exceed the limit and two
  together certainly do; `MaxWorked` 1 job is taken up by workers; `MaxUpsets` 1
  failed call or change of plan.
* Plans: two checkouts (with one there is no second customer or subscription),
  `MaxChanges` 1, `MaxAdmin` 1, `MaxSlips` 1: an event that fails and comes
  again, or comes twice.  Three statuses: one is mapped to none, two are not,
  so that a change can be told from its absence.
* Shares: a limit of 1, two visitors and `MaxVisits` 3, so that two pass the
  limit together and one comes after; `MaxLosses` 1 lost count.
* Folders: three folders, two names, two users with a file each, two handlers,
  `MaxCalls` 4 and `MaxFaults` 1: create, nest, rename the parent, move.
* Bulk downloads: `MaxZipPending` 1 for the 3 of the code, two clients, three
  rows: the bound is 2, a third row would break it.  `MaxZipFaults` 1.
* Webhooks: two hooks, two endpoints, two rows, two workers, `MaxTries` 2,
  `MaxEdits` 2, `MaxHookFaults` 1; `MaxPage` 3 and offsets of `Width` 6 bits
  (32 in the code) matter only to `PagesAnswered`, a finding.
* Rate limits: `Rate` 2, `Burst` 3, `Ticks` 2 half seconds, `IdleSeconds` 2: a
  request in the middle of a second, a full bucket and a forgotten one.
* Views: one viewer, `MaxViews` 1 request, `MaxViewFaults` 1; every content
  type, every endpoint.  A reader changes nothing, so a second one adds nothing.
* Client: three files, two of the same name, `Parallel` 2, `Chunks` 2,
  `maxConsecutiveErrors` 2 for 5: the count of errors is reset and reached.

The proofs do not depend on any of these bounds.

## 6. Fairness

* Jobs: a worker takes waiting messages and goes on with its handler
  (`TakeJob`, `HandlerStep`): goroutines of the pool, whose calls return
  because the job's context ends (`JobTimeout` may come but need not).
  Nothing is assumed of owners, the API or the cleanup.
* Webhooks: the same; the HTTP client has a timeout of 30 seconds.
* Chunked uploads: a request that was received is handled, a sweep goes on, the
  ticker of a stream ticks.  Clients need not send anything, or hang up.
* Event streams: the run asks nothing temporal of them.  `LiveSpec`, under which
  `StreamsEnd` is refuted, gives them all the fairness there can be: goroutines
  run on, and as a select with several ready cases picks one at random, strong
  fairness of `Register`, `Unregister` and `Depart`.  Even so, a
  stream does not end without the hub.
* Device login: token and approval requests that were sent are handled, the CLI
  goes on with its loop, and its code expires after 15 minutes.  Nobody has to
  approve.
* File library: days pass; the cleanup is started again after it has ended and
  goes on (its context ends after 30 minutes).  The repository has the command
  but nothing that schedules it, so `TrashIsEmptied` says what a schedule
  achieves, in spite of batches and failed calls.
* Plans: the event of a new subscription, whatever its status, is handled in the end, because Stripe
  repeats an event until it is answered 200 and slips are bounded.  Nothing is
  assumed of the other events, or of users.
* Client: every step of the command, and a request ends at the latest by the
  timeout of the HTTP client (`CallFails`).  The deadline of a watch is in a
  select with the ticker: strong fairness, as for the streams in `LiveSpec`.  The API need
  not answer, and jobs need not end.

In `MCFeatures` and `MCUploads` nothing that is fair is enabled in a part that has
not begun, so that composing them adds no obligation.  Safety properties are
checked and proved without fairness.

## 7. The proofs

The theorems are in eight modules, apart from the components: four of one
component each, and four of several that share lemmas about counting
(`UploadsProofs`, `ServicesProofs`, `PagesProofs`, `OwnerProofs`).  They assume
only what the component's module states about its constants: `ConstantsAssumption`, or
`LiveAssumption`, `FoldersAssumption`, `ViewingAssumption`, `LimiterAssumption`,
`ZipAssumption`, `HooksAssumption`, `PlanAssumption`, `CliAssumption` where it
has another name.  These say that limits are numbers, that a value such as
`None` is none of the values it stands beside, and that what a theorem counts
(visitors, clients, browsers, checkouts, ...) is a finite set.  The theorems hold for any
such sets of jobs, workers, files, requests and any limits.

| Theorems | Inductive invariant and why it is needed |
|---|---|
| `JobLifecycleProofs`: `Typing`, `AckedIsStored`, `CompletedIsStored`, `VariantsHaveObjects`, `CompletedIsFinal`, `OriginalIsKept`, `Refinement` | In four layers.  `TypeInv`; `QueueInv`: a held message has one worker and was handed out at most `MaxDeliveries` times; `StoreInv`: how far a handler has come says what it has stored (`ProgressStored`).  Without the last one, nothing connects the step "acknowledge" with the storage calls before it; without `HeldByOne`, two workers could share that progress.  `KeptInv` adds that only a handler that has stored a transcode comes to the calls that drop an original, whatever other job of the file it races.  `SweepDooms` ties the batch delete to this: what it has listed is doomed, and while it removes variants so is every job of the file that has a row; all of `StoreInv` is therefore about the jobs that are not doomed, and their progress is safe from it.  In the refinement a doomed job is one whose result is waived. |
| `UploadsProofs`: `Typing`, `RowsHaveObjects`, `LoadedIsKept`, `OneFile` | `PastPutHasFinal` carries the assembled object from the upload to the row, `MarkingNotLost` covers a chunk between its storage and its mark, `QuietBeforeInit` the time before the session.  `OnceInv`: a chunk that is sent once is carried by one request (`CarriedOnce`), so one request marks the last chunk, assembles, and does it once (`AssembledOnce`). |
| `UploadsProofs`: `NobodySendsOnClosed` | `LiveInv`: a stream is on the hub's list between its registration and its end, once, and its channel is closed as it leaves (`InTurn`); who holds the lock for reading serves streams of the list (`ServesClients`), because the hub needs the lock for writing. |
| `WebhookDeliveryProofs`: `Typing`, `FailedIsExhausted`, `SuccessIsAccepted`, `RetriedIsQueued`, `Refinement` | `QueueInv` as above; `CountInv` relates the attempts column, what a worker has read of it, and the requests really sent; `RetriesOwnEntry` says that a request queues the row it created for its own entry. |
| `ServicesProofs` (device login): `Typing`, `LoginWorks`, `CodeIsUsedUp` | `KeysAreTokens`: whatever a token request can read without the lock was inserted before; `AnsweredIsDeleted`: a key leaves the server only after its code was deleted. |
| `ServicesProofs` (bulk downloads): `PendingIsBounded` | `PlacesBounded`: a request that has counted holds a place like the row it will insert, and rows and places together stay below the limit and the number of clients.  Rows that came back from failed are outside the bound: `PendingUntilDelivered` says that until its message is delivered, a row is as it was inserted, so that the first delivery makes no row unfinished again. |
| `ServicesProofs` (webhooks): `LatePostsAreBounded` | `LateAndStale`: posts to a former endpoint and the workers that are about to make one, counted together, are no more than the workers; `RowHasHook` and `PosterHasRow` say whose endpoint that is. |
| `FileLibraryProofs`: `Typing`, `BoundedOverrun`, `KeptFilesAreSafe`, `NothingForgotten`, `GraceIsKept` | `SeatInv`: uploads in flight have files of their own without rows.  `RoomInv` counts live rows and uploads in flight together, so that the insert moves a file from one to the other; the admission fills at most the free slots.  `CleanupInv` says that what the cleanup has listed is still what it was listed for, whatever the owner did since, and that its object is gone or known to be left; `EraseInv` says the same of a batch delete.  `EmptiedInv` says of the originals that video jobs dropped that they are gone, marked or not, and that the unmarked ones have a live row. |
| `TransformationsProofs`: `OverrunIsBounded`, `EveryJobIsCounted`, `BatchesAccount` | `RequestFits`: what each request has done is what the place in its loops says: jobs inserted, queued, counted, items written except for the file in hand.  `OverrunBounded` is inductive only beside `PeakHolds` and the room that each request has read: counted jobs, jobs in flight and room left are bounded together. |
| `PagesProofs` (shares): `SharesAreBounded` | `AdmittedBounded`: what was served, is about to be counted or is under way is within the limit, but for visitors that read the count while another was uncounted (`behind`) or read no limit (`blind`). |
| `PagesProofs` (folders): `PathsFollowTheirParents`, `EverythingIsShownOnce` | `ParentsThere` and `FilesPlaced`: the foreign keys; `ReadsHold`: what a handler has read of a parent is true as long as nobody writes the parent.  `CascadeClosed` is about what a deletion takes along, the least set closed under children; it exists because an intersection of closed sets is closed, which needs no induction. |
| `PagesProofs` (views): `ShownIsThere` | `JobInOrder`, `FileInOrder`: an object is there before its row and the row before the status, by every job; `ViewsHold`: a request reads the status before it lists, so what it has read holds on while jobs go on. |
| `PagesProofs` (rate limits): `RateIsKept` | `BucketBelowCredit`: after any idle time the bucket of the code would hold at most what the exact one holds.  `RefillBelow` is its arithmetic (whole seconds never make more than the time they were cut from), `IdleFills` the reason why a bucket may be forgotten; it rests on the assumption that ten minutes fill a bucket. |
| `OwnerProofs` (accounts): `SignInStays`, `LinksAreBounded` | `OneStays`: what a disconnect was allowed for (a password, or another provider) still holds when it deletes, unless two overlap; `PasswordStays`: a password is never taken away.  For the links, the live ones and the requests about to issue one are counted together, and `NobodyBeforeRow` has the start. |
| `OwnerProofs` (plans): `PlanSettles` | `EventsTellStripe`: the events of a subscription are numbered, the last one says how it is, none follows its deletion; `RestIsComing`: as long as the order was kept, what was not handled is still in the outbox, so an empty one means that the last was handled; `PlanFollows`: the row is then as the handled events say, through `MapStripeStatus`.  It holds for any set of statuses. |
| `OwnerProofs` (client): `CommandsAccount` | `Praised` and `Blamed` count a thing from the moment its goroutine reports it, so reading the channel changes neither (`Collecting`).  `JudgedOnce`: each thing is in one of them exactly when it is done; `UploadsAreThere`, `ChunksMakeAVideo` and `DeletedAreGone`: praise is deserved when it is given, and what deserves it stays; `EndedIsDone`: nothing is left in the channel. |

The invariants were checked with TLC before they were proved.  Each theorem
follows from three facts: the initial states satisfy the invariant, every step
keeps it, and it implies the property.  `Refinement` shows that initial states
and steps map to those of `WorkDelivery` or to stuttering.  The initial states
and the steps are non-temporal lemmas, one step per action or per group of
actions that do the same to the invariant (`Settling`, `Sending` and `Answering` in
the client, `QuietStatements` and `RowStatements` in the accounts).

Only model-checked: liveness (`EveryMessageSettles`, `AnswersAndStreamsEnd`,
`DeliveriesSettle`, `LoginEnds`, `TrashIsEmptied`,
`PaymentGrantsPro`, `CommandEnds`), which needs fairness and ENABLED and is out
of the prover's reach.  `SpentLinkVerifies` and `FilesLimitFollowsTier`, which no run names (section 4), are
not proved.

## 8. What is not modelled

* Security headers, CORS and the validation of names: functions of one request.
* Lists, search, the dashboard, usage and analytics: single reads.
* Processors, the storage client, mail, audit log: their work is one call that
  succeeds or fails in the modules above.
* The broker and its worker pool are a library; their actions are modelled from
  how the repository uses them and marked external.
* The generated queries have no module of their own: each module maps the
  statements it uses.
* The Redis and hybrid rate limiters and the webhook circuit breaker: nothing
  constructs them.
* Of the client: configuration and presets (a file that one command reads or
  writes), share, list, the printer.
* Of accounts: hashes, cookies, client addresses; and using a reset link,
  which nobody can hold.
* Of webhook deliveries: signatures, payloads, backoff times.  Times appear only
  as events (expiry, timeouts), days and ticks.
* The values of `allowed_transforms`, which nothing sets, and the expiry of bulk
  downloads, a constant in the worker.
* Variants in `FileLibrary`: `JobLifecycle` and `Viewing` have them.  Two batch
  deletions of one file at the same time are not in `JobLifecycle` either.
* Goroutine leaks and memory.
* Configuration, logging, metrics, tracing, health, deployment.
