---------------------------- MODULE JobLifecycle ----------------------------
(***************************************************************************)
(* The life of a processing job of file.cheap: the API writes a row to     *)
(* processing_jobs and puts a message on the broker (EnqueueWithTracking), *)
(* a worker takes the message and runs the handler of the job's type, and  *)
(* meanwhile the owner may retry or cancel the job or delete the file,     *)
(* alone or in a batch that takes its variants along, and the cleanup      *)
(* command may expire the file or purge it.                                *)
(*                                                                         *)
(* Every database and storage call of a handler is a step of its own,      *)
(* because between two of them any other party can act; each call can      *)
(* fail.  Twelve handlers share one shape and differ in which of the steps *)
(* they take: the table Profile says which.                                *)
(*                                                                         *)
(* The broker is the job-queue library, which is not in the repository: a  *)
(* message is taken by one worker, is redelivered after a retryable error  *)
(* or after the death of its worker, and is given up after MaxDeliveries.  *)
(***************************************************************************)
EXTENDS Naturals, FiniteSets

CONSTANTS Jobs, Files, Workers,
          FileOf,          \* the file each job works on
          KindOf,          \* the job_type of each job
          MaxDeliveries,   \* how often the broker hands out one message
          AutoDelete,      \* the owner's auto_delete_originals setting
          MaxRequests,     \* bound: retry and cancel requests in flight
          MaxErasures,     \* bound: batch deletes and expiries of one file
          NoJob

(***************************************************************************)
(* What each handler does besides load - download - process - upload:      *)
(* check the content type, insert a variant row, set the file's status,    *)
(* and, for transcodes, charge the usage and drop the original.            *)
(***************************************************************************)
FileJob == [validates |-> FALSE, saves |-> TRUE,
            completesFile |-> TRUE, transcodes |-> FALSE]

ThumbnailJob      == FileJob
ResizeJob         == FileJob
WebPJob           == FileJob
WatermarkJob      == FileJob
PDFThumbnailJob   == [FileJob EXCEPT !.validates = TRUE]
MetadataJob       == [FileJob EXCEPT !.saves = FALSE, !.completesFile = FALSE]
OptimizeJob       == FileJob
ConvertJob        == [FileJob EXCEPT !.completesFile = FALSE]
VideoThumbnailJob == FileJob
VideoTranscodeJob == [FileJob EXCEPT !.transcodes = TRUE]
VideoHLSJob       == FileJob
VideoWatermarkJob == FileJob

Profile ==
  [thumbnail |-> ThumbnailJob, resize |-> ResizeJob, webp |-> WebPJob,
   watermark |-> WatermarkJob, pdf_thumbnail |-> PDFThumbnailJob,
   metadata |-> MetadataJob, optimize |-> OptimizeJob,
   convert |-> ConvertJob, video_thumbnail |-> VideoThumbnailJob,
   video_transcode |-> VideoTranscodeJob, video_hls |-> VideoHLSJob,
   video_watermark |-> VideoWatermarkJob]

\* The job types the worker binary registers a handler for.
Registered == {"thumbnail", "resize", "webp", "watermark", "pdf_thumbnail",
               "metadata", "optimize", "convert",
               "video_thumbnail", "video_transcode"}

ASSUME ConstantsAssumption ==
  /\ FileOf \in [Jobs -> Files]
  /\ KindOf \in [Jobs -> DOMAIN Profile]
  /\ MaxDeliveries \in Nat \ {0}
  /\ AutoDelete \in BOOLEAN
  /\ MaxRequests \in Nat
  /\ MaxErasures \in Nat
  /\ NoJob \notin Jobs

Validates(j)     == Profile[KindOf[j]].validates
Saves(j)         == Profile[KindOf[j]].saves
CompletesFile(j) == Profile[KindOf[j]].completesFile
Transcodes(j)    == Profile[KindOf[j]].transcodes

VARIABLES
  row,        \* processing_jobs.status; "absent" before, "gone" after the row
  cause,      \* who wrote processing_jobs.error_message
  attempts,   \* processing_jobs.attempts
  msg,        \* the job's message at the broker
  delivered,  \* how often the broker has handed the message out
  variants,   \* number of file_variants rows the job has inserted
  blob,       \* jobs whose variant object is in storage
  file,       \* "live", "soft" (deleted_at set) or "gone"
  fileDone,   \* files whose status is "completed"
  original,   \* files whose uploaded object is in storage
  keySet,     \* files whose row still has a storage_key
  charged,    \* usage increments booked for the job
  approved,   \* retry and cancel requests that passed the handler's check
  erase,      \* per file: next step of a batch delete or of its expiry
  listed,     \* jobs whose variant a batch delete has listed to remove
  erasures,   \* history: batch deletes and expiries begun, per file
  doomed,     \* history: jobs that met a batch delete of their file
  pc, at, verdict, expired   \* per worker: next step, job, result, timed out

rowVars    == <<row, cause, attempts>>
msgVars    == <<msg, delivered>>
resultVars == <<variants, blob, charged>>
fileVars   == <<file, fileDone, original, keySet>>
eraseVars  == <<erase, listed, erasures, doomed>>
workerVars == <<pc, at, verdict, expired>>
vars == <<rowVars, msgVars, resultVars, fileVars, approved, eraseVars,
          workerVars>>

RowStates == {"absent", "pending", "running", "completed", "failed", "gone"}
MsgStates == {"none", "unsent", "lost", "ready", "held", "acked", "dead"}
Steps == {"idle", "mark", "load", "fetch", "upload", "save", "status",
          "meter", "trim", "clear", "complete", "failing", "settle"}

\* Every variable stays within the values the schema and the code give it.
TypeOK ==
  /\ row \in [Jobs -> RowStates]
  /\ cause \in [Jobs -> {"none", "error", "cancelled"}]
  /\ attempts \in [Jobs -> Nat]
  /\ msg \in [Jobs -> MsgStates]
  /\ delivered \in [Jobs -> Nat]
  /\ variants \in [Jobs -> Nat]
  /\ blob \in SUBSET Jobs
  /\ file \in [Files -> {"live", "soft", "gone"}]
  /\ fileDone \in SUBSET Files
  /\ original \in SUBSET Files
  /\ keySet \in SUBSET Files
  /\ charged \in [Jobs -> Nat]
  /\ approved \in SUBSET ({"retry", "cancel"} \X Jobs)
  /\ erase \in [Files -> {"none", "list", "sweep", "upload", "row"}]
  /\ listed \in SUBSET Jobs
  /\ erasures \in [Files -> Nat]
  /\ doomed \in SUBSET Jobs
  /\ pc \in [Workers -> Steps]
  /\ at \in [Workers -> Jobs \cup {NoJob}]
  /\ verdict \in [Workers -> {"none", "ok", "retry", "permanent"}]
  /\ expired \in [Workers -> BOOLEAN]

Init ==
  /\ row = [j \in Jobs |-> "absent"]
  /\ cause = [j \in Jobs |-> "none"]
  /\ attempts = [j \in Jobs |-> 0]
  /\ msg = [j \in Jobs |-> "none"]
  /\ delivered = [j \in Jobs |-> 0]
  /\ variants = [j \in Jobs |-> 0]
  /\ blob = {}
  /\ file = [f \in Files |-> "live"]
  /\ fileDone = {}
  /\ original = Files
  /\ keySet = Files
  /\ charged = [j \in Jobs |-> 0]
  /\ approved = {}
  /\ erase = [f \in Files |-> "none"]
  /\ listed = {}
  /\ erasures = [f \in Files |-> 0]
  /\ doomed = {}
  /\ pc = [w \in Workers |-> "idle"]
  /\ at = [w \in Workers |-> NoJob]
  /\ verdict = [w \in Workers |-> "none"]
  /\ expired = [w \in Workers |-> FALSE]

-----------------------------------------------------------------------------
(* The API: EnqueueWithTracking                                            *)

CreateJob(j) ==
  /\ row[j] = "absent"
  /\ file[FileOf[j]] # "gone"
  /\ row' = [row EXCEPT ![j] = "pending"]
  /\ msg' = [msg EXCEPT ![j] = "unsent"]
  /\ doomed' = IF erase[FileOf[j]] = "sweep" THEN doomed \cup {j} ELSE doomed
  /\ UNCHANGED <<cause, attempts, delivered, resultVars, fileVars, approved,
                 erase, listed, erasures, workerVars>>

\* A failed Enqueue (or a dead API process) leaves the pending row behind.
Enqueue(j) ==
  /\ msg[j] = "unsent"
  /\ \E outcome \in {"ready", "lost"} : msg' = [msg EXCEPT ![j] = outcome]
  /\ UNCHANGED <<rowVars, delivered, resultVars, fileVars, approved,
                 eraseVars, workerVars>>

-----------------------------------------------------------------------------
(* The API: retry and cancel.  The handler reads the job, decides, and     *)
(* then updates the row in a second statement that repeats the condition.  *)

ApproveRetry(j) ==
  /\ row[j] = "failed"
  /\ file[FileOf[j]] = "live"
  /\ Cardinality(approved) < MaxRequests
  /\ approved' = approved \cup {<<"retry", j>>}
  /\ UNCHANGED <<rowVars, msgVars, resultVars, fileVars, eraseVars,
                 workerVars>>

ApproveCancel(j) ==
  /\ row[j] \in {"pending", "running"}
  /\ file[FileOf[j]] = "live"
  /\ Cardinality(approved) < MaxRequests
  /\ approved' = approved \cup {<<"cancel", j>>}
  /\ UNCHANGED <<rowVars, msgVars, resultVars, fileVars, eraseVars,
                 workerVars>>

\* The UPDATE of RetryJob.
ResetToPending(S) ==
  /\ row' = [j \in Jobs |-> IF j \in S THEN "pending" ELSE row[j]]
  /\ cause' = [j \in Jobs |-> IF j \in S THEN "none" ELSE cause[j]]

\* Mutant: the UPDATE does not repeat the condition the handler checked.
RetryWhateverStatus(j) == {j}
RetryTargets(j) == {k \in {j} : row[k] = "failed"}

RetryJob(j) ==
  /\ <<"retry", j>> \in approved
  /\ \/ ResetToPending(RetryTargets(j))
     \/ UNCHANGED <<row, cause>>
  /\ approved' = approved \ {<<"retry", j>>}
  /\ UNCHANGED <<attempts, msgVars, resultVars, fileVars, eraseVars,
                 workerVars>>

CancelTargets(j) == {k \in {j} : row[k] \in {"pending", "running"}}

CancelJob(j) ==
  /\ <<"cancel", j>> \in approved
  /\ \/ /\ row' = [k \in Jobs |-> IF k \in CancelTargets(j)
                                  THEN "failed" ELSE row[k]]
        /\ cause' = [k \in Jobs |-> IF k \in CancelTargets(j)
                                    THEN "cancelled" ELSE cause[k]]
     \/ UNCHANGED <<row, cause>>
  /\ approved' = approved \ {<<"cancel", j>>}
  /\ UNCHANGED <<attempts, msgVars, resultVars, fileVars, eraseVars,
                 workerVars>>

\* All the jobs belong to one owner here: one statement resets them all.
BulkRetry ==
  /\ ResetToPending({j \in Jobs : row[j] = "failed" /\ file[FileOf[j]] = "live"})
  /\ UNCHANGED <<attempts, msgVars, resultVars, fileVars, approved, eraseVars,
                 workerVars>>

-----------------------------------------------------------------------------
(* The worker.  A call succeeds only while the job's context is alive.     *)

Goto(w, step) == pc' = [pc EXCEPT ![w] = step]

\* Mutant: the error is logged and the handler returns nil.
SwallowError(w, v) == /\ Goto(w, "failing")
                      /\ verdict' = [verdict EXCEPT ![w] = "ok"]

\* Every error path first records the failure (MarkFailed), then returns.
Fail(w, v) == /\ Goto(w, "failing")
              /\ verdict' = [verdict EXCEPT ![w] = v]

\* UPDATE ... WHERE id: finds nothing once the row is gone.
Write(j, status) == /\ row[j] # "gone"
                    /\ row' = [row EXCEPT ![j] = status]

Deliver(w, j) ==
  /\ pc[w] = "idle"
  /\ msg[j] = "ready"
  /\ KindOf[j] \in Registered
  /\ msg' = [msg EXCEPT ![j] = "held"]
  /\ delivered' = [delivered EXCEPT ![j] = @ + 1]
  /\ Goto(w, "mark")
  /\ at' = [at EXCEPT ![w] = j]
  /\ verdict' = [verdict EXCEPT ![w] = "none"]
  /\ expired' = [expired EXCEPT ![w] = FALSE]
  /\ UNCHANGED <<rowVars, resultVars, fileVars, approved, eraseVars>>

MarkRunning(w) ==
  /\ pc[w] = "mark"
  /\ Goto(w, "load")
  /\ \/ /\ ~expired[w]
        /\ Write(at[w], "running")
        /\ attempts' = [attempts EXCEPT ![at[w]] = @ + 1]
     \/ UNCHANGED <<row, attempts>>
  /\ UNCHANGED <<cause, msgVars, resultVars, fileVars, approved, eraseVars,
                 at, verdict, expired>>

Load(w) ==
  /\ pc[w] = "load"
  /\ \/ /\ ~expired[w]
        /\ file[FileOf[at[w]]] = "live"
        /\ \/ Goto(w, "fetch") /\ UNCHANGED verdict
           \/ Validates(at[w]) /\ Fail(w, "permanent")
     \/ Fail(w, "retry")
  /\ UNCHANGED <<rowVars, msgVars, resultVars, fileVars, approved, eraseVars,
                 at, expired>>

\* Download and process.  A missing processor makes MustGet panic, which the
\* recovery middleware turns into an error without recording the failure.
Fetch(w) ==
  /\ pc[w] = "fetch"
  /\ \/ /\ ~expired[w]
        /\ FileOf[at[w]] \in original
        /\ \/ Goto(w, "upload") /\ UNCHANGED verdict
           \/ Fail(w, "permanent")
           \/ Goto(w, "settle") /\ verdict' = [verdict EXCEPT ![w] = "retry"]
     \/ Fail(w, "retry")
  /\ UNCHANGED <<rowVars, msgVars, resultVars, fileVars, approved, eraseVars,
                 at, expired>>

\* Mutant: the row is inserted although the upload failed.
UploadBestEffort(w) ==
  /\ pc[w] = "upload"
  /\ blob' \in {blob, blob \cup {at[w]}}
  /\ Goto(w, IF Saves(at[w]) THEN "save" ELSE "complete")
  /\ UNCHANGED <<rowVars, msgVars, variants, charged, fileVars, approved,
                 eraseVars, at, verdict, expired>>

Upload(w) ==
  /\ pc[w] = "upload"
  /\ \/ /\ ~expired[w]
        /\ blob' = blob \cup {at[w]}
        /\ Goto(w, IF Saves(at[w]) THEN "save" ELSE "complete")
        /\ UNCHANGED verdict
     \/ Fail(w, "retry") /\ UNCHANGED blob
  /\ UNCHANGED <<rowVars, msgVars, variants, charged, fileVars, approved,
                 eraseVars, at, expired>>

\* Mutant: the handler goes on when the INSERT failed.
SaveBestEffort(w) ==
  /\ pc[w] = "save"
  /\ variants' \in {variants, [variants EXCEPT ![at[w]] = @ + 1]}
  /\ Goto(w, IF CompletesFile(at[w]) THEN "status" ELSE "complete")
  /\ UNCHANGED <<rowVars, msgVars, blob, charged, fileVars, approved,
                 eraseVars, at, verdict, expired>>

\* The foreign key makes the INSERT fail once the file's row is gone.
SaveVariant(w) ==
  /\ pc[w] = "save"
  /\ \/ /\ ~expired[w]
        /\ file[FileOf[at[w]]] # "gone"
        /\ variants' = [variants EXCEPT ![at[w]] = @ + 1]
        /\ Goto(w, IF CompletesFile(at[w]) THEN "status" ELSE "complete")
        /\ UNCHANGED verdict
     \/ Fail(w, "retry") /\ UNCHANGED variants
  /\ UNCHANGED <<rowVars, msgVars, blob, charged, fileVars, approved,
                 eraseVars, at, expired>>

UpdateFileStatus(w) ==
  /\ pc[w] = "status"
  /\ \/ /\ ~expired[w]
        /\ fileDone' = fileDone \cup {f \in {FileOf[at[w]]} : file[f] = "live"}
        /\ Goto(w, IF Transcodes(at[w]) THEN "meter" ELSE "complete")
        /\ UNCHANGED verdict
     \/ Fail(w, "retry") /\ UNCHANGED fileDone
  /\ UNCHANGED <<rowVars, msgVars, resultVars, file, original, keySet,
                 approved, eraseVars, at, expired>>

\* Usage is booked best-effort; then the owner's settings are read.
MeterUsage(w) ==
  /\ pc[w] = "meter"
  /\ \/ ~expired[w] /\ charged' = [charged EXCEPT ![at[w]] = @ + 1]
     \/ UNCHANGED charged
  /\ \/ AutoDelete /\ ~expired[w] /\ Goto(w, "trim")
     \/ Goto(w, "complete")
  /\ UNCHANGED <<rowVars, msgVars, variants, blob, fileVars, approved,
                 eraseVars, at, verdict, expired>>

DeleteOriginal(w) ==
  /\ pc[w] = "trim"
  /\ \/ /\ ~expired[w]
        /\ original' = original \ {FileOf[at[w]]}
        /\ Goto(w, "clear")
     \/ Goto(w, "complete") /\ UNCHANGED original
  /\ UNCHANGED <<rowVars, msgVars, resultVars, file, fileDone, keySet,
                 approved, eraseVars, at, verdict, expired>>

MarkOriginalDeleted(w) ==
  /\ pc[w] = "clear"
  /\ Goto(w, "complete")
  /\ \/ /\ ~expired[w]
        /\ keySet' = keySet \ {f \in {FileOf[at[w]]} : file[f] = "live"}
     \/ UNCHANGED keySet
  /\ UNCHANGED <<rowVars, msgVars, resultVars, file, fileDone, original,
                 approved, eraseVars, at, verdict, expired>>

\* The error of the UPDATE is only logged: the handler returns nil anyway.
MarkCompleted(w) ==
  /\ pc[w] = "complete"
  /\ Goto(w, "settle")
  /\ verdict' = [verdict EXCEPT ![w] = "ok"]
  /\ \/ ~expired[w] /\ Write(at[w], "completed")
     \/ UNCHANGED row
  /\ UNCHANGED <<cause, attempts, msgVars, resultVars, fileVars, approved,
                 eraseVars, at, expired>>

MarkFailed(w) ==
  /\ pc[w] = "failing"
  /\ Goto(w, "settle")
  /\ \/ /\ ~expired[w]
        /\ Write(at[w], "failed")
        /\ cause' = [cause EXCEPT ![at[w]] = "error"]
     \/ UNCHANGED <<row, cause>>
  /\ UNCHANGED <<attempts, msgVars, resultVars, fileVars, approved, eraseVars,
                 at, verdict, expired>>

\* Mutant: a message that was handed out too often is left with its consumer.
KeepHolding(j) == IF delivered[j] < MaxDeliveries THEN "ready" ELSE "held"
\* Mutant: a failed job is put back by a new request of the API.
Resubmit(j) == IF delivered[j] < MaxDeliveries THEN "unsent" ELSE "dead"
GiveBack(j) == IF delivered[j] < MaxDeliveries THEN "ready" ELSE "dead"

Release(w) == /\ Goto(w, "idle")
              /\ at' = [at EXCEPT ![w] = NoJob]
              /\ verdict' = [verdict EXCEPT ![w] = "none"]
              /\ expired' = [expired EXCEPT ![w] = FALSE]

\* The broker acts on what the handler returned.  The timeout middleware may
\* report its own error for a handler that returned nil too late.
Settle(w) ==
  /\ pc[w] = "settle"
  /\ \/ verdict[w] = "ok" /\ msg' = [msg EXCEPT ![at[w]] = "acked"]
     \/ /\ verdict[w] = "retry" \/ (verdict[w] = "ok" /\ expired[w])
        /\ msg' = [msg EXCEPT ![at[w]] = GiveBack(at[w])]
     \/ verdict[w] = "permanent" /\ msg' = [msg EXCEPT ![at[w]] = "dead"]
  /\ Release(w)
  /\ UNCHANGED <<rowVars, delivered, resultVars, fileVars, approved,
                 eraseVars>>

JobTimeout(w) ==
  /\ pc[w] # "idle"
  /\ ~expired[w]
  /\ expired' = [expired EXCEPT ![w] = TRUE]
  /\ UNCHANGED <<rowVars, msgVars, resultVars, fileVars, approved, eraseVars,
                 pc, at, verdict>>

\* The worker process dies; the unacknowledged message is handed out again.
Crash(w) ==
  /\ pc[w] # "idle"
  /\ msg' = [msg EXCEPT ![at[w]] = GiveBack(at[w])]
  /\ Release(w)
  /\ UNCHANGED <<rowVars, delivered, resultVars, fileVars, approved,
                 eraseVars>>

-----------------------------------------------------------------------------
(* DeleteFile of the API and of the web marks the row only.                *)

UserDelete(f) ==
  /\ file[f] = "live"
  /\ file' = [file EXCEPT ![f] = "soft"]
  /\ UNCHANGED <<rowVars, msgVars, resultVars, fileDone, original, keySet,
                 approved, eraseVars, workerVars>>

-----------------------------------------------------------------------------
(* BatchDeleteFiles, for one file of the selection: read the file, list    *)
(* its variants, remove each object, all variant rows, the upload, and     *)
(* mark the row.  No result is looked at, so every call may have failed; a *)
(* request that is cut off is one whose remaining calls fail.  Bound: one  *)
(* deletion of a file at a time, MaxErasures in all.                       *)

JobsOf(f) == {j \in Jobs : FileOf[j] = f /\ row[j] # "absent"}

BeginErasure(f, step) ==
  /\ file[f] = "live"
  /\ erase[f] = "none"
  /\ erasures[f] < MaxErasures
  /\ erase' = [erase EXCEPT ![f] = step]
  /\ erasures' = [erasures EXCEPT ![f] = @ + 1]
  /\ UNCHANGED <<rowVars, msgVars, resultVars, fileVars, approved, listed,
                 doomed, workerVars>>

BatchDelete(f) == BeginErasure(f, "list")

\* cleanupRetentionExpiredFiles: its last two calls are those of the batch.
RetentionExpires(f) == BeginErasure(f, "upload")

ListVariants(f) ==
  /\ erase[f] = "list"
  /\ erase' = [erase EXCEPT ![f] = "sweep"]
  /\ listed' \in {listed, listed \cup {j \in JobsOf(f) : variants[j] > 0}}
  /\ doomed' = doomed \cup JobsOf(f)
  /\ UNCHANGED <<rowVars, msgVars, resultVars, fileVars, approved, erasures,
                 workerVars>>

DeleteVariantObject(j) ==
  /\ j \in listed
  /\ listed' = listed \ {j}
  /\ blob' \in {blob, blob \ {j}}
  /\ UNCHANGED <<rowVars, msgVars, variants, charged, fileVars, approved,
                 erase, erasures, doomed, workerVars>>

DeleteVariantRows(f) ==
  /\ erase[f] = "sweep"
  /\ \A j \in listed : FileOf[j] # f
  /\ erase' = [erase EXCEPT ![f] = "upload"]
  /\ \/ variants' = [j \in Jobs |-> IF FileOf[j] = f THEN 0 ELSE variants[j]]
     \/ UNCHANGED variants
  /\ UNCHANGED <<rowVars, msgVars, blob, charged, fileVars, approved, listed,
                 erasures, doomed, workerVars>>

EraseUpload(f) ==
  /\ erase[f] = "upload"
  /\ erase' = [erase EXCEPT ![f] = "row"]
  /\ original' \in {original, original \ {f}}
  /\ UNCHANGED <<rowVars, msgVars, resultVars, file, fileDone, keySet, approved,
                 listed, erasures, doomed, workerVars>>

SoftDelete(f) ==
  /\ erase[f] = "row"
  /\ erase' = [erase EXCEPT ![f] = "none"]
  /\ \/ file[f] = "live" /\ file' = [file EXCEPT ![f] = "soft"]
     \/ UNCHANGED file
  /\ UNCHANGED <<rowVars, msgVars, resultVars, fileDone, original, keySet,
                 approved, listed, erasures, doomed, workerVars>>

-----------------------------------------------------------------------------
(* The cleanup command purges a deleted file later: first its object (best *)
(* effort), then the row, which takes the rows of jobs and variants along. *)

PurgeBlob(f) ==
  /\ file[f] = "soft"
  /\ f \in keySet
  /\ original' = original \ {f}
  /\ UNCHANGED <<rowVars, msgVars, resultVars, file, fileDone, keySet, approved,
                 eraseVars, workerVars>>

PurgeRow(f) ==
  /\ file[f] = "soft"
  /\ file' = [file EXCEPT ![f] = "gone"]
  /\ row' = [j \in Jobs |-> IF FileOf[j] = f /\ row[j] # "absent"
                            THEN "gone" ELSE row[j]]
  /\ variants' = [j \in Jobs |-> IF FileOf[j] = f THEN 0 ELSE variants[j]]
  /\ UNCHANGED <<cause, attempts, msgVars, blob, charged, fileDone, original,
                 keySet, approved, eraseVars, workerVars>>

-----------------------------------------------------------------------------
ApiStep == \/ \E j \in Jobs : \/ CreateJob(j) \/ Enqueue(j)
                              \/ ApproveRetry(j) \/ ApproveCancel(j)
                              \/ RetryJob(j) \/ CancelJob(j)
           \/ BulkRetry

HandlerStep(w) ==
  \/ MarkRunning(w) \/ Load(w) \/ Fetch(w) \/ Upload(w) \/ SaveVariant(w)
  \/ UpdateFileStatus(w) \/ MeterUsage(w) \/ DeleteOriginal(w)
  \/ MarkOriginalDeleted(w) \/ MarkCompleted(w) \/ MarkFailed(w) \/ Settle(w)

TakeJob(w) == \E j \in Jobs : Deliver(w, j)

WorkerStep(w) == TakeJob(w) \/ HandlerStep(w) \/ JobTimeout(w) \/ Crash(w)

EraseStep ==
  \/ \E f \in Files : \/ BatchDelete(f) \/ RetentionExpires(f)
                       \/ ListVariants(f) \/ DeleteVariantRows(f)
                       \/ EraseUpload(f) \/ SoftDelete(f)
  \/ \E j \in Jobs : DeleteVariantObject(j)

FileStep == \E f \in Files : UserDelete(f) \/ PurgeBlob(f) \/ PurgeRow(f)

Next == ApiStep \/ (\E w \in Workers : WorkerStep(w)) \/ FileStep \/ EraseStep

Spec == Init /\ [][Next]_vars

\* The pool polls the queue and runs every handler to its end.  Nothing
\* obliges users to act, contexts to expire or processes to die.
Fairness == \A w \in Workers : WF_vars(TakeJob(w)) /\ WF_vars(HandlerStep(w))

FairSpec == Spec /\ Fairness
-----------------------------------------------------------------------------
(* Properties                                                              *)

\* A message is acknowledged only after the job's object is in storage and,
\* for the types that keep one, its variant row is in the database: whatever
\* fails, times out or dies on the way, the handler never acknowledges work
\* it has not stored.  Only a purge of the file, or a batch delete that the
\* job met, takes the result away again.
AckedWorkIsStored ==
  \A j \in Jobs \ doomed : msg[j] = "acked" =>
    /\ j \in blob
    /\ Saves(j) => variants[j] > 0 \/ row[j] = "gone"

\* A job the API reports as completed has its result, also after retries,
\* cancellations and redeliveries have rewritten the row, and also when it
\* ran after a batch delete that could not delete the file.
CompletedHasResult ==
  \A j \in Jobs \ doomed : row[j] = "completed" =>
    /\ j \in blob
    /\ Saves(j) => variants[j] > 0

\* A variant row only points to an object that is missing when a batch delete
\* of the file met the job: that removes objects first, and rows best-effort.
NoDanglingVariant ==
  \A j \in Jobs \ doomed : variants[j] > 0 => j \in blob

\* Unless a batch delete or the retention pass began to delete the file, its
\* upload is only dropped in favour of a transcoded variant that exists.
OriginalKeptUntilStored ==
  \A f \in Files : file[f] = "live" /\ f \notin original =>
    \/ erasures[f] > 0
    \/ \E j \in Jobs : FileOf[j] = f /\ Transcodes(j) /\ variants[j] > 0

\* Neither a stale retry nor a stale cancel touches a finished job: a
\* completed row changes only because its message was delivered once more.
CompletedOnlyRedelivered ==
  [][\A j \in Jobs : row[j] = "completed" /\ row'[j] # "completed" =>
       row'[j] = "gone" \/ (msg[j] = "held" /\ delivered[j] > 1)]_vars

\* Every message the broker accepted for a registered type is acknowledged or
\* given up, however often its worker fails.
EveryMessageSettles ==
  \A j \in Jobs : KindOf[j] \in Registered =>
    (msg[j] = "ready" ~> msg[j] \in {"acked", "dead"})

\* The pipeline implements the promise of WorkDelivery.
Delivery == INSTANCE WorkDelivery WITH
  Tasks  <- Jobs,
  task   <- [j \in Jobs |->
               CASE msg[j] \in {"none", "unsent", "lost"} -> "new"
                 [] msg[j] \in {"ready", "held"} -> "queued"
                 [] msg[j] = "acked" -> "finished"
                 [] msg[j] = "dead" -> "dropped"],
  stored <- blob,
  waived <- doomed

\* Work is finished only after it was stored, unless its owner had it deleted,
\* and nothing that was queued is forgotten: the steps of this module are
\* steps of WorkDelivery.
ImplementsWorkDelivery == Delivery!Spec

-----------------------------------------------------------------------------
(* The inductive invariant behind the safety properties                    *)

ActiveOnJob == \A w \in Workers : pc[w] # "idle" => at[w] \in Jobs

\* A held message has one worker; only a held message can be settled.
HeldByOne ==
  /\ \A w \in Workers : pc[w] # "idle" => msg[at[w]] = "held"
  /\ \A v, w \in Workers :
       v # w /\ pc[v] # "idle" /\ pc[w] # "idle" => at[v] # at[w]

RowBeforeMessage == \A j \in Jobs : row[j] = "absent" => msg[j] = "none"

DeliveryBudget ==
  \A j \in Jobs : /\ msg[j] = "ready" => delivered[j] < MaxDeliveries
                  /\ msg[j] = "held" => delivered[j] \in 1..MaxDeliveries
                  /\ row[j] = "completed" => delivered[j] > 0
                  /\ msg[j] \in {"none", "unsent", "lost"} => delivered[j] = 0

Stored(j) == Saves(j) => variants[j] > 0 \/ row[j] = "gone"

\* How far a handler has come says what it has stored.
HandlerDone(w) == pc[w] # "idle" /\ verdict[w] = "ok"
PastUpload(w) ==
  pc[w] \in {"save", "status", "meter", "trim", "clear", "complete"} \/ HandlerDone(w)
PastSave(w) ==
  pc[w] \in {"status", "meter", "trim", "clear", "complete"} \/ HandlerDone(w)

ProgressStored ==
  \A w \in Workers : at[w] \notin doomed =>
    /\ PastUpload(w) => at[w] \in blob
    /\ PastSave(w) => Stored(at[w])

\* A batch delete takes nothing from a job it does not doom.
SweepDooms ==
  /\ listed \subseteq doomed
  /\ \A j \in Jobs : erase[FileOf[j]] = "sweep" /\ row[j] # "absent" => j \in doomed

\* Before its last step, a worker sees a completed row only on a redelivery.
CompletedBefore ==
  \A w \in Workers : pc[w] \notin {"idle", "settle"} =>
    (row[at[w]] = "completed" => delivered[at[w]] > 1)

TypeInv == TypeOK /\ ActiveOnJob
QueueInv == TypeInv /\ HeldByOne /\ RowBeforeMessage /\ DeliveryBudget
StoreInv == /\ QueueInv /\ SweepDooms /\ ProgressStored /\ NoDanglingVariant
        /\ AckedWorkIsStored /\ CompletedHasResult /\ CompletedBefore

-----------------------------------------------------------------------------
(* What the documentation and the replies of the API say.                  *)

\* The retry handler replies "Job queued for retry": a job that goes back to
\* pending has a message that a worker is still going to be given.
RetryQueues ==
  [][\A j \in Jobs : row[j] = "failed" /\ row'[j] = "pending" =>
       msg'[j] \notin {"acked", "dead"}]_vars

\* The cancel handler replies "Job cancelled": only a retry ends that.
CancelSticks ==
  [][\A j \in Jobs : row[j] = "failed" /\ cause[j] = "cancelled" =>
       row'[j] \in {"failed", "pending", "gone"}]_vars

\* Every job type the documentation lists is processed: a worker gets to it
\* once it is queued.
EveryKindIsHandled ==
  \A j \in Jobs : msg[j] = "ready" ~> \E w \in Workers : at[w] = j
=============================================================================
