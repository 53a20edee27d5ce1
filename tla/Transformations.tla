-------------------------- MODULE Transformations --------------------------
(***************************************************************************)
(* Requests that start processing jobs.  The API offers transform, batch,  *)
(* transcode and hls; they check the transformations left in the plan once *)
(* and count each job after it was queued.  The web pages offer process,   *)
(* bundle and a batch of their own; they count nothing, look for existing  *)
(* variants and set the file's status after the jobs were queued.          *)
(* Meanwhile workers finish jobs, the owner deletes files and the plan     *)
(* changes.  What a worker does with a job in detail is JobLifecycle.      *)
(***************************************************************************)
EXTENDS Integers, FiniteSets, FiniteSetsExt

CONSTANTS Requests, Files,
          Videos,          \* the files that are videos
          Kinds,           \* the actions, presets and resolutions asked for
          MaxAsk,          \* bound: jobs one request asks for
          MaxWorked,       \* bound: jobs workers take up
          FreeLimit, ProLimit,  \* transformations_limit of the plans
          FirstTiers,      \* the plans the owner may have at first
          MaxUpsets,       \* bound: failed calls and plan changes together
          NoFile

ASSUME ConstantsAssumption ==
  /\ Videos \subseteq Files
  /\ NoFile \notin Files
  /\ FirstTiers \subseteq {"free", "pro", "enterprise"}
  /\ {FreeLimit, ProLimit} \subseteq Nat
  /\ MaxAsk \in Nat \ {0}
  /\ IsFiniteSet(Requests) /\ IsFiniteSet(Files) /\ IsFiniteSet(Kinds)

VARIABLES
  tier, limit, count,   \* the owner's row in users
  live, status,         \* files not deleted, the status column
  variants,             \* file_variants: pairs of file and variant type
  jobs,                 \* per request, file and kind: none, row (created but
                        \* not queued), queued, stored, done or failed
  req,                  \* per request: where it is and what it knows
  batch, items,         \* requests with a batch_operations row; the kinds
                        \* each batch_items row names, per request and file
  lost,                 \* counts that failed
  itemsLost,            \* items that could not be written
  peak, slack, blind,   \* largest limit so far; most jobs that others still
                        \* had to queue at a check; jobs nobody checked
  upsets

userVars == <<tier, limit, peak>>
fileVars == <<live, status, variants>>
batchVars == <<batch, items, itemsLost>>
vars == <<userVars, count, fileVars, jobs, req, batchVars, lost, slack, blind,
          upsets>>

Unlimited == -1
Tiers == {"free", "pro", "enterprise"}
LimitOf(t) == CASE t = "free" -> FreeLimit
                [] t = "pro" -> ProLimit
                [] OTHER -> Unlimited

Presets == {"thumbnail", "sm", "md", "lg", "xl"}
Social == {"og", "twitter", "instagram_square", "instagram_portrait",
           "instagram_story"}
ImageKinds == Presets \cup Social \cup {"webp", "watermark"}
Resolutions == [mp4_480p |-> 480, mp4_1080p |-> 1080, mp4_2160p |-> 2160,
                webm_480p |-> 480, webm_1080p |-> 1080]
VideoKinds == DOMAIN Resolutions \cup {"video_thumbnail"}

AllowedProcessing(t) ==
  IF t = "free" THEN {"thumbnail", "sm", "video_thumbnail"}
  ELSE ImageKinds \cup {"video_thumbnail", "video_transcode", "video_watermark"}

MaxVideoResolution(t) ==
  CASE t = "free" -> 480 [] t = "pro" -> 1080 [] OTHER -> 2160

CanUseFeature(t, kind) == kind \in AllowedProcessing(t)
CanUseAPI(t) == t # "free"

\* The variant a job stores, and those the column variant_type can hold.
VariantOf(kind) == CASE kind = "watermark" -> "watermarked"
                     [] kind = "hls" -> "hls_master"
                     [] OTHER -> kind
VariantTypes ==
  Presets \cup Social \cup {"webp", "watermarked", "optimized", "pdf_preview",
    "video_thumbnail", "mp4_480p", "mp4_1080p", "mp4_2160p", "webm_1080p",
    "hls_master", "video_watermarked"}

\* The actions a file page offers, and those only for videos.
PageActions == ImageKinds \cup {"pdf_preview", "video_thumbnail", "hls"}

AtMost(S) == {ks \in SUBSET (S \cap Kinds) : Cardinality(ks) \in 1 .. MaxAsk}
Small(fs, ks) == Cardinality(fs) * Cardinality(ks) <= MaxAsk

Pages == {"process", "bundle", "pageBatch"}

Idle == [pc |-> "unsent", endpoint |-> "none", tier |-> "free", todo |-> {},
         at |-> NoFile, job |-> <<NoFile, "none">>]

Init ==
  /\ tier \in FirstTiers
  /\ limit = LimitOf(tier)
  /\ count = 0
  /\ live = Files
  /\ status = [f \in Files |-> "completed"]
  /\ variants = {}
  /\ jobs = [r \in Requests |-> [j \in Files \X Kinds |-> "none"]]
  /\ req = [r \in Requests |-> Idle]
  /\ batch = {}
  /\ items = [r \in Requests |-> [f \in Files |-> {}]]
  /\ lost = 0
  /\ itemsLost = {}
  /\ peak = IF limit = Unlimited THEN 0 ELSE limit
  /\ slack = 0
  /\ blind = 0
  /\ upsets = 0

\* A call fails, or not.
Fails == upsets < MaxUpsets /\ upsets' = upsets + 1
Works == UNCHANGED upsets

----------------------------------------------------------------------------
(* Arrival: a request that is refused leaves no trace, so the guards are   *)
(* the reasons not to refuse.                                              *)

Accept(r, e, step, fs, ks) ==
  /\ req[r].pc = "unsent"
  /\ req' = [req EXCEPT ![r] = [Idle EXCEPT !.pc = step, !.endpoint = e,
                                            !.tier = tier, !.todo = fs \X ks]]
  /\ blind' = IF e = "hls" THEN blind + 1 ELSE blind
  /\ UNCHANGED <<userVars, count, fileVars, jobs, batchVars, lost, slack,
                 upsets>>

\* The middleware reads the plan before any handler runs.
BillingMiddleware == CanUseAPI(tier)

Transform(r) ==
  /\ BillingMiddleware
  /\ \E f \in live, ks \in AtMost(ImageKinds) :
       /\ \A k \in ks : CanUseFeature(tier, k) \/ k = "webp"
       /\ Accept(r, "transform", "usage", {f}, ks)

\* The files are read after the check, those deleted by then are left out.
BatchTransform(r) ==
  /\ BillingMiddleware
  /\ \E fs \in SUBSET Files \ {{}}, ks \in AtMost(ImageKinds) :
       /\ Small(fs, ks)
       /\ \A k \in ks : CanUseFeature(tier, k) \/ k = "webp"
       /\ Accept(r, "batch", "usage", fs, ks)

VideoTranscode(r) ==
  /\ BillingMiddleware
  /\ \E f \in live \cap Videos, ks \in AtMost(VideoKinds) :
       /\ ks \cap DOMAIN Resolutions # {}
       /\ \A k \in ks \cap DOMAIN Resolutions :
            Resolutions[k] <= MaxVideoResolution(tier)
       /\ Accept(r, "transcode", "usage", {f}, ks)

VideoHLS(r) ==
  /\ BillingMiddleware
  /\ "hls" \in Kinds
  /\ \E f \in live \cap Videos : Accept(r, "hls", "queue", {f}, {"hls"})

ProcessFile(r) ==
  \E f \in live, k \in PageActions \cap Kinds :
    /\ CanUseFeature(tier, k)
    /\ k \in {"video_thumbnail", "hls"} => f \in Videos
    /\ Accept(r, "process", "queue", {f}, {k})

ProcessBundle(r) ==
  \E f \in live :
    \/ Accept(r, "bundle", "queue", {f}, (Presets \ {"thumbnail"}) \cap Kinds)
    \/ /\ CanUseFeature(tier, "social")
       /\ Accept(r, "bundle", "queue", {f}, Social \cap Kinds)

BatchProcessFiles(r) ==
  \E fs \in SUBSET Files \ {{}}, k \in {"thumbnail", "webp", "watermark"} \cap Kinds :
    Accept(r, "pageBatch", "queue", fs, {k})

----------------------------------------------------------------------------
(* The check of the API.                                                   *)

\* Jobs an admitted API request may still count.
Left(r) ==
  IF req[r].endpoint \in Pages \/ req[r].pc \in {"unsent", "usage", "answered"}
  THEN {}
  ELSE req[r].todo \cup (IF req[r].pc \in {"enqueue", "count"} THEN {req[r].job} ELSE {})

InFlight(R) == Cardinality({p \in R \X (Files \X Kinds) : p[2] \in Left(p[1])})

Admit(r, unchecked) ==
  /\ req' = [req EXCEPT ![r].pc =
               IF req[r].endpoint = "batch" THEN "batch" ELSE "queue"]
  /\ slack' = Max({slack, InFlight(Requests \ {r})})
  /\ blind' = blind + unchecked

\* The resolutions or presets asked for, times the files asked for.
Needed(r) == Cardinality(req[r].todo)

\* Mutant: lets a request in while anything is left.
CheckAnyLeft(r) ==
  /\ req[r].pc = "usage"
  /\ \/ limit - count > 0 /\ Admit(r, 0)
     \/ limit = Unlimited /\ Admit(r, Needed(r))
  /\ UNCHANGED <<userVars, count, fileVars, jobs, batchVars, lost, upsets>>

CheckUsage(r) ==
  /\ req[r].pc = "usage"
  /\ \/ limit # Unlimited /\ limit - count >= Needed(r) /\ Admit(r, 0) /\ Works
     \/ limit = Unlimited /\ Admit(r, Needed(r)) /\ Works
     \/ limit # Unlimited /\ limit - count < Needed(r) /\ Works
        /\ req' = [req EXCEPT ![r].pc = "answered"]
        /\ UNCHANGED <<slack, blind>>
     \/ Fails /\ Admit(r, Needed(r))   \* the usage could not be read: no check
  /\ UNCHANGED <<userVars, count, fileVars, jobs, batchVars, lost>>

\* The batch row; no file left, or an error, ends the request.
CreateBatchOperation(r) ==
  LET left == {j \in req[r].todo : j[1] \in live}
  IN /\ req[r].pc = "batch"
     /\ \/ /\ left # {} /\ Works
           /\ batch' = batch \cup {r}
           /\ req' = [req EXCEPT ![r].pc = "queue", ![r].todo = left]
        \/ /\ IF left = {} THEN Works ELSE Fails
           /\ req' = [req EXCEPT ![r].pc = "answered"]
           /\ batch' = batch
     /\ UNCHANGED <<userVars, count, fileVars, jobs, items, itemsLost, lost,
                    slack, blind>>

----------------------------------------------------------------------------
(* The loop over the jobs.                                                 *)

IsQueued(r, j) == jobs[r][j] \notin {"none", "row"}
QueuedFor(r, f) == {k \in Kinds : IsQueued(r, <<f, k>>)}
QueuedBy(r) == {j \in Files \X Kinds : IsQueued(r, j)}

FileDone(r) == req[r].at # NoFile /\ \A j \in req[r].todo : j[1] # req[r].at

\* A batch writes an item for a file once its jobs are queued.
ItemDue(r) == /\ req[r].endpoint = "batch"
              /\ FileDone(r)
              /\ QueuedFor(r, req[r].at) # {}

\* The next job: files one after the other.
Ready(r) ==
  CASE req[r].pc = "row" -> {req[r].job}
    [] req[r].pc = "queue" /\ ~ItemDue(r) ->
         {j \in req[r].todo : req[r].at = NoFile \/ FileDone(r) \/ j[1] = req[r].at}
    [] OTHER -> {}

Skip(r, j) ==
  req' = [req EXCEPT ![r].todo = @ \ {j}, ![r].at = j[1], ![r].pc = "queue"]

\* Before a job, process and bundle look for the variant, the batch of the
\* pages for the file.
HasVariant(r) ==
  /\ req[r].endpoint \in Pages
  /\ req[r].pc = "queue"
  /\ \E j \in Ready(r) :
       LET goOn == IF req[r].endpoint = "pageBatch" THEN j[1] \in live
                   ELSE <<j[1], VariantOf(j[2])>> \notin variants
       IN \/ /\ goOn /\ Works
             /\ req' = [req EXCEPT ![r].pc = "row", ![r].job = j]
          \/ Skip(r, j) /\ IF goOn THEN Fails ELSE Works
  /\ UNCHANGED <<userVars, count, fileVars, jobs, batchVars, lost, slack, blind>>

\* EnqueueWithTracking: the row first, then the broker.
CreateJob(r) ==
  /\ req[r].pc = IF req[r].endpoint \in Pages THEN "row" ELSE "queue"
  /\ \E j \in Ready(r) :
       \/ /\ Works
          /\ jobs' = [jobs EXCEPT ![r][j] = "row"]
          /\ req' = [req EXCEPT ![r].todo = @ \ {j}, ![r].at = j[1],
                                ![r].pc = "enqueue", ![r].job = j]
       \/ Skip(r, j) /\ Fails /\ UNCHANGED jobs
  /\ UNCHANGED <<userVars, count, fileVars, batchVars, lost, slack, blind>>

\* Mutant: counts a job whose message was not queued.
CountBefore(r) ==
  /\ req[r].pc = "enqueue"
  /\ \/ Works /\ jobs' = [jobs EXCEPT ![r][req[r].job] = "queued"]
     \/ Fails /\ UNCHANGED jobs
  /\ req' = [req EXCEPT ![r].pc =
               IF req[r].endpoint \in Pages THEN "queue" ELSE "count"]
  /\ UNCHANGED <<userVars, count, fileVars, batchVars, lost, slack, blind>>

Enqueue(r) ==
  /\ req[r].pc = "enqueue"
  /\ \/ /\ Works
        /\ jobs' = [jobs EXCEPT ![r][req[r].job] = "queued"]
        /\ req' = [req EXCEPT ![r].pc =
                     IF req[r].endpoint \in Pages THEN "queue" ELSE "count"]
     \/ /\ Fails
        /\ req' = [req EXCEPT ![r].pc = "queue"]
        /\ UNCHANGED jobs
  /\ UNCHANGED <<userVars, count, fileVars, batchVars, lost, slack, blind>>

IncrementTransformationCount(r) ==
  /\ req[r].pc = "count"
  /\ \/ Works /\ count' = count + 1 /\ UNCHANGED lost
     \/ Fails /\ lost' = lost + 1 /\ UNCHANGED count
  /\ req' = [req EXCEPT ![r].pc = "queue"]
  /\ UNCHANGED <<userVars, fileVars, jobs, batchVars, slack, blind>>

\* Mutant: names the jobs whose message was not queued, too.
ItemNamesRows(r) ==
  /\ req[r].pc = "queue"
  /\ ItemDue(r)
  /\ items' = [items EXCEPT ![r][req[r].at] =
                 {k \in Kinds : jobs[r][<<req[r].at, k>>] # "none"}]
  /\ req' = [req EXCEPT ![r].at = NoFile]
  /\ UNCHANGED <<userVars, count, fileVars, jobs, batch, itemsLost, lost, slack,
                 blind, upsets>>

CreateBatchItem(r) ==
  /\ req[r].pc = "queue"
  /\ ItemDue(r)
  /\ \/ /\ Works
        /\ items' = [items EXCEPT ![r][req[r].at] = QueuedFor(r, req[r].at)]
        /\ UNCHANGED itemsLost
     \/ /\ Fails
        /\ itemsLost' = itemsLost \cup {<<r, req[r].at>>}
        /\ UNCHANGED items
  /\ req' = [req EXCEPT ![r].at = NoFile]
  /\ UNCHANGED <<userVars, count, fileVars, jobs, batch, lost, slack, blind>>

\* The end of the loop: process and bundle still have the status to set.
Finish(r) ==
  /\ req[r].pc = "queue"
  /\ req[r].todo = {}
  /\ ~ItemDue(r)
  /\ req' = [req EXCEPT ![r].pc =
               IF req[r].endpoint \in {"process", "bundle"} /\ QueuedBy(r) # {}
               THEN "mark" ELSE "answered"]
  /\ UNCHANGED <<userVars, count, fileVars, jobs, batchVars, lost, slack, blind,
                 upsets>>

SetStatus(f, s) == status' = IF f \in live THEN [status EXCEPT ![f] = s] ELSE status

MarkProcessing(r) ==
  /\ req[r].pc = "mark"
  /\ \/ Works /\ SetStatus(req[r].at, "processing")
     \/ Fails /\ UNCHANGED status      \* only logged
  /\ req' = [req EXCEPT ![r].pc = "answered"]
  /\ UNCHANGED <<userVars, count, live, variants, jobs, batchVars, lost, slack,
                 blind>>

----------------------------------------------------------------------------
(* Workers, owner and plan.                                                *)

\* The worker binary has no handler for video_hls.
MayTakeUp(r, j) ==
  /\ jobs[r][j] = "queued"
  /\ j[2] # "hls"
  /\ Cardinality({p \in Requests \X (Files \X Kinds) :
                    jobs[p[1]][p[2]] \in {"stored", "done", "failed"}}) < MaxWorked

CreateVariant(r, j) ==
  /\ MayTakeUp(r, j)
  /\ VariantOf(j[2]) \in VariantTypes
  /\ jobs' = [jobs EXCEPT ![r][j] = "stored"]
  /\ variants' = variants \cup {<<j[1], VariantOf(j[2])>>}
  /\ UNCHANGED <<userVars, count, live, status, req, batchVars, lost, slack, blind,
                 upsets>>

CompleteJob(r, j) ==
  /\ jobs[r][j] = "stored"
  /\ jobs' = [jobs EXCEPT ![r][j] = "done"]
  /\ SetStatus(j[1], "completed")
  /\ UNCHANGED <<userVars, count, live, variants, req, batchVars, lost, slack,
                 blind, upsets>>

FailJob(r, j) ==
  /\ MayTakeUp(r, j)
  /\ jobs' = [jobs EXCEPT ![r][j] = "failed"]
  /\ UNCHANGED <<userVars, count, fileVars, req, batchVars, lost, slack, blind,
                 upsets>>

SoftDeleteFile(f) ==
  /\ f \in live
  /\ live' = live \ {f}
  /\ UNCHANGED <<userVars, count, status, variants, jobs, req, batchVars, lost,
                 slack, blind, upsets>>

PlanChange(t, l) ==
  /\ upsets < MaxUpsets
  /\ upsets' = upsets + 1
  /\ tier' = t
  /\ limit' = l
  /\ peak' = IF l = Unlimited THEN peak ELSE Max({peak, l})
  /\ UNCHANGED <<count, fileVars, jobs, req, batchVars, lost, slack, blind>>

\* An administrator sets tier and limits together.
UpdateUserTier == \E t \in Tiers : PlanChange(t, LimitOf(t))
\* Stripe's events set the tier and leave transformations_limit alone.
UpdateUserSubscription == PlanChange("pro", limit)
CancelUserSubscription == PlanChange("free", limit)

Handle(r) == \/ Transform(r) \/ BatchTransform(r) \/ VideoTranscode(r)
             \/ VideoHLS(r) \/ ProcessFile(r) \/ ProcessBundle(r)
             \/ BatchProcessFiles(r) \/ CheckUsage(r)
             \/ CreateBatchOperation(r) \/ HasVariant(r) \/ CreateJob(r)
             \/ Enqueue(r) \/ IncrementTransformationCount(r)
             \/ CreateBatchItem(r) \/ Finish(r) \/ MarkProcessing(r)

Work(r) == \E j \in Files \X Kinds :
             CreateVariant(r, j) \/ CompleteJob(r, j) \/ FailJob(r, j)

Next == \/ \E r \in Requests : Handle(r) \/ Work(r)
        \/ \E f \in Files : SoftDeleteFile(f)
        \/ UpdateUserTier \/ UpdateUserSubscription \/ CancelUserSubscription

Spec == Init /\ [][Next]_vars

----------------------------------------------------------------------------
\* However requests overlap and whatever the plan becomes, a user's count
\* passes the largest limit of the plan by no more than the jobs other
\* requests still had to queue when one was checked, and the jobs that were
\* let in without a check.
OverrunBounded == count + InFlight(Requests) <= peak + slack + blind

\* Every job the API queued is counted exactly once, unless the statement
\* that counts it failed; a job whose message was not queued and a job of
\* the pages are not counted.
ChargedJobs == UNION {{<<r, j>> : j \in QueuedBy(r)} :
                        r \in {q \in Requests : req[q].endpoint \notin Pages}}
CountedOnce ==
  count + lost = Cardinality(ChargedJobs)
                   - Cardinality({r \in Requests : req[r].pc = "count"})

\* When a batch is answered, the item of each file names exactly the jobs
\* that were queued for it, and no file with a queued job lacks an item,
\* except where the item could not be written.
BatchAccountsForJobs ==
  \A r \in batch : req[r].pc = "answered" =>
    \A f \in Files : <<r, f>> \notin itemsLost => items[r][f] = QueuedFor(r, f)

\* A file is not left "processing" once all its jobs are done ("Refresh the
\* page to see the result").  The pages set the status after they queued the
\* job, so a worker that is faster is overwritten.
StatusSettles ==
  \A f \in live :
    (\A r \in Requests :
        /\ req[r].pc \in {"unsent", "answered"}
        /\ \A k \in Kinds : jobs[r][<<f, k>>] \in {"none", "done"})
      => status[f] # "processing"

\* A job that the API accepts and charges can succeed: its variant fits the
\* column.  The formats mp4 and webm combine with every resolution.
AcceptedIsStorable ==
  \A r \in Requests : \A j \in QueuedBy(r) : VariantOf(j[2]) \in VariantTypes

\* Once all jobs of a batch are done, its status says so.
GetBatch(r) == [status |-> "pending", total |-> Cardinality(DOMAIN items[r]),
                completed |-> 0, items |-> items[r]]
BatchCompletes ==
  \A r \in batch :
    /\ req[r].pc = "answered"
    /\ QueuedBy(r) # {}
    /\ \A j \in QueuedBy(r) : jobs[r][j] = "done"
    => GetBatch(r).status = "completed"

\* Only processing the plan allows is queued for a user of the free plan.
PlanKinds ==
  \A r \in Requests : \A j \in QueuedBy(r) : CanUseFeature(req[r].tier, j[2])
=============================================================================
