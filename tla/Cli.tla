-------------------------------- MODULE Cli --------------------------------
(***************************************************************************)
(* One command of fc, the command line client: uploads by several          *)
(* goroutines at once, loops over file ids, chunked video uploads, and the *)
(* waiting for work that the API only queued.  A command walks every thing *)
(* it was given (a file, or the batch made of them) through operations; an *)
(* operation is a request that the API serves, refuses or leaves           *)
(* unanswered.  The API is seen from the client: what it stored and the    *)
(* status it answers.                                                      *)
(***************************************************************************)
EXTENDS Integers, FiniteSets

CONSTANTS
  Files,
  Batch,         \* the batch that a batch command orders
  Parallel,      \* cfg.Parallel or -p
  Chunks,        \* chunks of a video
  maxConsecutiveErrors,
  NameOf,        \* the name under which a file is saved
  Nothing

Things == Files \cup {Batch}
Parallelised == {"upload", "batch --config"}
Uploading == Parallelised \cup {"batch", "upload --stdin", "social", "video upload"}
Single == {"upload --stdin", "social", "video upload", "video transcode", "status"}
Looping == {"transform", "delete", "download"}
Final == {"completed", "failed", "partial"}
Polls == {"wait", "watch"}
Kinds == Uploading \cup Single \cup Looping \cup {"status --batch", "batch --ids"}
Commands == [kind : Kinds, things : SUBSET Things, wait : BOOLEAN, quiet : BOOLEAN,
             transcode : BOOLEAN]

ASSUME CliAssumption ==
  /\ Batch \notin Files
  /\ Nothing \notin Commands
  /\ Parallel \in Nat \ {0}
  /\ Chunks \in Nat \ {0}
  /\ maxConsecutiveErrors \in Nat \ {0}

VARIABLES
  command,       \* what was typed: Nothing, or kind, things, wait, quiet, transcode
  stage,         \* "input", "running" or "ended"
  interrupted,   \* Ctrl-C: the root context is cancelled
  op,            \* [thing -> the operation it is at]
  call,          \* [thing -> its request, or the answer that has arrived]
  results,       \* the channel of the upload goroutines
  closed,        \* results is closed
  tally,         \* what the command counts: ok, ok but with a warning, and bad
  errors,        \* consecutive errors of a watch
  session,       \* chunks that the API holds
  output,        \* what -o names: "directory", "file", "new" or "new/"
  disk,          \* [name -> the file saved under it]
  stored,        \* files the API has
  status,        \* [thing -> the status the API answers]
  queued         \* things with jobs that the worker has not done yet

cliVars == <<command, stage, interrupted, op, call, results, closed, tally, errors,
             session, output, disk, stored, status, queued>>
network == <<session, stored, status, queued>>
local == <<output, disk>>

Names == {NameOf[f] : f \in Files} \cup {"output"}

Width == IF command.kind \in Parallelised THEN Parallel ELSE 1
Counted(x, verdict) == [tally EXCEPT ![verdict] = @ \cup {x}]
Successful == tally.ok \cup tally.warned
Active == {x \in Things : op[x] \notin {"queued", "done"}}

CliInit ==
  /\ command = Nothing
  /\ stage = "ended"
  /\ interrupted = FALSE
  /\ op = [x \in Things |-> "done"]
  /\ call = [x \in Things |-> "none"]
  /\ results = {}
  /\ closed = FALSE
  /\ tally = [ok |-> {}, warned |-> {}, bad |-> {}]
  /\ errors = 0
  /\ session = 0
  /\ output \in {"directory", "file", "new", "new/"}
  /\ disk = [n \in Names |-> Nothing]
  /\ stored \in {{}, Files}
  /\ status \in [Things -> {"pending", "completed"}]
  /\ \A x \in Things : status[x] = "completed" => x \in stored
  /\ queued = {}

----------------------------------------------------------------------------
(* A command starts.  A pipe or a prompt is read before the work begins.   *)

FirstOp(kind) ==
  CASE kind = "video upload" -> "init"
    [] kind \in Uploading \ {"video upload"} -> "upload"
    [] kind \in {"transform", "video transcode", "batch --ids"} -> "order"
    [] kind = "delete" -> "delete"
    [] kind = "download" -> "download"
    [] kind \in {"status", "status --batch"} -> "watch"

\* What a kind of command is given: one file, all of them, or a batch.
Given(kind) ==
  CASE kind \in Single -> {{f} : f \in Files}
    [] kind \in {"status --batch", "batch --ids"} -> {{Batch}}
    [] OTHER -> {Files}

Start(kind, things, wait, quiet, transcode) ==
  /\ command = Nothing
  /\ kind \in Uploading <=> stored = {}
  /\ things \in Given(kind)
  /\ quiet => kind \in {"transform", "video upload", "video transcode"}
  /\ transcode => kind = "video upload"
  /\ output = "directory" \/ kind = "download"
  /\ command' = [kind |-> kind, things |-> things, wait |-> wait, quiet |-> quiet,
                 transcode |-> transcode]
  /\ stage' = IF kind \in {"upload --stdin", "delete"} THEN "input" ELSE "running"
  /\ op' = [x \in Things |-> IF x \in things THEN "queued" ELSE "done"]
  /\ UNCHANGED <<interrupted, call, results, closed, tally, errors, local, network>>

\* Standard input has been read, or the deletion was confirmed.
InputRead ==
  /\ stage = "input"
  /\ stage' = "running"
  /\ UNCHANGED <<command, interrupted, op, call, results, closed, tally, errors, local, network>>

\* The deletion was not confirmed.
Declined ==
  /\ stage = "input" /\ command.kind = "delete"
  /\ stage' = "ended"
  /\ UNCHANGED <<command, interrupted, op, call, results, closed, tally, errors, local, network>>

Interrupt ==
  /\ stage # "ended"
  /\ ~interrupted
  /\ interrupted' = TRUE
  /\ UNCHANGED <<command, stage, op, call, results, closed, tally, errors, local, network>>

----------------------------------------------------------------------------
(* Requests: sent by the client, served by the API, and answered or not.   *)

Send(x, o) ==
  /\ op' = [op EXCEPT ![x] = o]
  /\ call' = [call EXCEPT ![x] = IF interrupted THEN "lost" ELSE "sent"]

\* A goroutine gets the semaphore, or the loop reaches the next argument.
Take(x) ==
  /\ stage = "running"
  /\ op[x] = "queued"
  /\ Cardinality(Active) < Width
  /\ Send(x, FirstOp(command.kind))
  /\ UNCHANGED <<command, stage, interrupted, results, closed, tally, errors, local, network>>

\* uploadAndBatchProcess orders one batch for the files that were uploaded.
OrderBatch ==
  /\ stage = "running" /\ command.kind = "batch"
  /\ \A x \in command.things : op[x] = "done"
  /\ Batch \notin Successful \cup tally.bad
  /\ tally.ok # {}
  /\ Active = {}
  /\ Send(Batch, "order")
  /\ UNCHANGED <<command, stage, interrupted, results, closed, tally, errors, local, network>>

\* The two second ticker of a wait or a watch.
Tick(x) ==
  /\ op[x] \in Polls /\ call[x] = "none"
  /\ Send(x, op[x])
  /\ UNCHANGED <<command, stage, interrupted, results, closed, tally, errors, local, network>>

\* The effect of a request at the API.
ServeUpload(x) ==
  /\ stored' = stored \cup {x}
  /\ UNCHANGED <<session, status, queued>>
ServeChunk(x) ==
  /\ session' = session + 1
  /\ stored' = IF session' = Chunks THEN stored \cup {x} ELSE stored
  /\ UNCHANGED <<status, queued>>
ServeOrder(x) ==
  /\ queued' = queued \cup {x}
  /\ UNCHANGED <<session, stored, status>>
ServeDelete(x) ==
  /\ stored' = stored \ {x}
  /\ UNCHANGED <<session, status, queued>>

Answer(x) == IF op[x] \in Polls THEN status[x] ELSE "yes"

\* The API does what was asked; its answer may not get back.
Serve(x) ==
  /\ call[x] = "sent"
  /\ op[x] \in {"init", "upload", "chunk"} \/ x \in stored \cup {Batch}
  /\ CASE op[x] = "upload" -> ServeUpload(x)
       [] op[x] = "chunk" -> ServeChunk(x)
       [] op[x] = "order" -> ServeOrder(x)
       [] op[x] = "delete" -> ServeDelete(x)
       [] OTHER -> UNCHANGED network
  /\ \E a \in {Answer(x), "lost"} :
       /\ interrupted => a = "lost"
       /\ call' = [call EXCEPT ![x] = a]
  /\ UNCHANGED <<command, stage, interrupted, op, results, closed, tally, errors, local>>

\* It answers with an error: the key is not valid, or anything else.
Refuse(x) ==
  /\ call[x] = "sent"
  /\ \E a \in {"unauthorized", "refused"} : call' = [call EXCEPT ![x] = a]
  /\ UNCHANGED <<command, stage, interrupted, op, results, closed, tally, errors, local, network>>

\* Mutant: the HTTP client of a poll has no timeout.
PollsHang(x) ==
  /\ call[x] = "sent"
  /\ op[x] \notin Polls
  /\ call' = [call EXCEPT ![x] = "lost"]
  /\ UNCHANGED <<command, stage, interrupted, op, results, closed, tally, errors, local, network>>

\* No connection, no answer within the five minutes of the HTTP client, or a
\* cancelled context.
CallFails(x) ==
  /\ call[x] = "sent"
  /\ call' = [call EXCEPT ![x] = "lost"]
  /\ UNCHANGED <<command, stage, interrupted, op, results, closed, tally, errors, local, network>>

\* The worker finishes the job that came with the upload, or those ordered
\* since; either way the status of the file is written.  No code writes the
\* status of a batch.
WorkerFinishes(f) ==
  /\ \/ f \in stored /\ status[f] = "pending" /\ UNCHANGED queued
     \/ f \in queued /\ queued' = queued \ {f}
  /\ status' = [status EXCEPT ![f] = "completed"]
  /\ UNCHANGED <<command, stage, interrupted, op, call, results, closed, tally, errors,
                 local, session, stored>>

----------------------------------------------------------------------------
(* What the client does with an answer.                                    *)

\* x is finished: counted by the loop itself, or reported by its goroutine
\* through the channel, which releases the semaphore.
Settle(x, verdict) ==
  /\ op' = [op EXCEPT ![x] = "done"]
  /\ call' = [call EXCEPT ![x] = "none"]
  /\ IF command.kind \in Parallelised
     THEN results' = results \cup {<<x, verdict>>} /\ UNCHANGED tally
     ELSE tally' = Counted(x, verdict) /\ UNCHANGED results

\* On to the next operation; a poll waits for its ticker first.
GoOn(x, o) ==
  /\ op' = [op EXCEPT ![x] = o]
  /\ call' = [call EXCEPT ![x] = IF o \in Polls THEN "none"
                                 ELSE IF interrupted THEN "lost" ELSE "sent"]
  /\ UNCHANGED <<results, tally>>

Failed(x) == call[x] \in {"unauthorized", "refused", "lost"}

\* --wait is not looked at under --quiet by the commands that report on a spinner.
Waits == command.wait /\ ~command.quiet

\* The upload of a file.  The commands upload and batch are done with it.
UploadReturns(x) ==
  /\ op[x] = "upload" /\ call[x] \notin {"none", "sent"}
  /\ command.kind \notin {"social", "upload --stdin"}
  /\ Settle(x, IF Failed(x) THEN "bad" ELSE "ok")
  /\ UNCHANGED <<command, stage, interrupted, closed, errors, local, network>>

\* The image is uploaded for its social variants, which are ordered next.
SocialUploadReturns(x) ==
  /\ op[x] = "upload" /\ call[x] \notin {"none", "sent"} /\ command.kind = "social"
  /\ IF Failed(x) THEN Settle(x, "bad") ELSE GoOn(x, "order")
  /\ UNCHANGED <<command, stage, interrupted, closed, errors, local, network>>

\* UploadReader: what came through a pipe is sent from memory.
PipeUploadReturns(x) ==
  /\ op[x] = "upload" /\ call[x] \notin {"none", "sent"} /\ command.kind = "upload --stdin"
  /\ CASE Failed(x) -> Settle(x, "bad")
       [] ~Failed(x) /\ command.wait -> GoOn(x, "wait")
       [] OTHER -> Settle(x, "ok")
  /\ UNCHANGED <<command, stage, interrupted, closed, errors, local, network>>

\* A file that cannot be opened never reaches the network.
CannotRead(x) ==
  /\ stage = "running" /\ op[x] = "queued"
  /\ FirstOp(command.kind) \in {"upload", "init"} /\ command.kind # "upload --stdin"
  /\ Cardinality(Active) < Width
  /\ Settle(x, "bad")
  /\ UNCHANGED <<command, stage, interrupted, closed, errors, local, network>>

\* UploadLargeFile: a session, then its chunks one after the other until an
\* answer says complete; any error gives the upload up and leaves the session.
ChunkReturns(x) ==
  /\ op[x] \in {"init", "chunk"} /\ call[x] \notin {"none", "sent"}
  /\ IF Failed(x) THEN Settle(x, "bad")
     ELSE IF op[x] = "init" \/ session < Chunks THEN GoOn(x, "chunk")
     ELSE GoOn(x, "order")
  /\ UNCHANGED <<command, stage, interrupted, closed, errors, local, network>>

\* The file has become shorter than it was when the session was made.
FileEndsEarly(x) ==
  /\ op[x] \in {"init", "chunk"} /\ call[x] = "yes" /\ session < Chunks
  /\ Settle(x, "bad")
  /\ UNCHANGED <<command, stage, interrupted, closed, errors, local, network>>

\* An order that fails is only a warning once the video is uploaded.
OrderReturns(x) ==
  /\ op[x] = "order" /\ call[x] \notin {"none", "sent"}
  /\ CASE Failed(x) -> Settle(x, IF command.kind = "video upload" THEN "warned" ELSE "bad")
       [] ~Failed(x) /\ Waits -> GoOn(x, IF x = Batch THEN "watch" ELSE "wait")
       [] OTHER -> Settle(x, "ok")
  /\ UNCHANGED <<command, stage, interrupted, closed, errors, local, network>>

DeleteReturns(x) ==
  /\ op[x] = "delete" /\ call[x] \notin {"none", "sent"}
  /\ Settle(x, IF Failed(x) THEN "bad" ELSE "ok")
  /\ UNCHANGED <<command, stage, interrupted, closed, errors, local, network>>

\* Where downloadSingleFile saves f: into the directory, or as the path itself.
SavedAs(f) == IF output = "directory" THEN NameOf[f] ELSE "output"

\* The parent of "new/" is "new" itself: the directory is made, and creating a
\* file under the name of a directory fails.
DownloadReturns(x) ==
  /\ op[x] = "download" /\ call[x] \notin {"none", "sent"}
  /\ Settle(x, IF Failed(x) \/ output = "new/" THEN "bad" ELSE "ok")
  /\ IF Failed(x) THEN UNCHANGED local
     ELSE /\ output' = CASE output = "new/" -> "directory"
                         [] output = "new" -> "file"
                         [] OTHER -> output
          /\ disk' = IF output = "new/" THEN disk ELSE [disk EXCEPT ![SavedAs(x)] = x]
  /\ UNCHANGED <<command, stage, interrupted, closed, errors, network>>

\* The body ends before its time: the file was already emptied.
DownloadBreaksOff(x) ==
  /\ op[x] = "download" /\ call[x] = "yes" /\ output # "new/"
  /\ Settle(x, "bad")
  /\ disk' = [disk EXCEPT ![SavedAs(x)] = "part"]
  /\ output' = IF output = "new" THEN "file" ELSE output
  /\ UNCHANGED <<command, stage, interrupted, closed, errors, network>>

\* WaitForFile ends at the first error; its callers warn and count a success.
WaitReturns(x) ==
  /\ op[x] = "wait" /\ call[x] \notin {"none", "sent"}
  /\ CASE Failed(x) -> Settle(x, "warned")
       [] call[x] \in Final -> Settle(x, "ok")
       [] OTHER -> GoOn(x, "wait")
  /\ UNCHANGED <<command, stage, interrupted, closed, errors, local, network>>

Watched(x) ==
  /\ errors' = IF Failed(x) THEN errors + 1 ELSE 0
  /\ CASE call[x] = "unauthorized" \/ errors' >= maxConsecutiveErrors -> Settle(x, "bad")
       [] call[x] \in Final -> Settle(x, "ok")
       [] OTHER -> GoOn(x, "watch")
  /\ UNCHANGED <<command, stage, interrupted, closed, local, network>>

\* A watch bears with some errors in a row, unlike a wait.
WatchReturns(x) ==
  /\ op[x] = "watch" /\ call[x] \notin {"none", "sent"} /\ x \in Files
  /\ Watched(x)

\* The same after a batch was ordered with --wait, or for its status.
BatchWatchReturns(x) ==
  /\ op[x] = "watch" /\ call[x] \notin {"none", "sent"} /\ x = Batch
  /\ Watched(x)

\* A watch looks at its timer and at the context between two requests only.
WatchTimesOut(x) ==
  /\ op[x] = "watch" /\ call[x] = "none"
  /\ Settle(x, "bad")
  /\ UNCHANGED <<command, stage, interrupted, closed, errors, local, network>>

\* The deadline of a wait ends its request too; its caller only warns.
WaitTimesOut(x) ==
  /\ op[x] = "wait"
  /\ Settle(x, "warned")
  /\ UNCHANGED <<command, stage, interrupted, closed, errors, local, network>>

----------------------------------------------------------------------------
(* The end of a command.                                                   *)

\* Mutant: a goroutine joins the wait group only once it has the semaphore.
CloseEarly ==
  /\ stage = "running" /\ command.kind \in Parallelised /\ ~closed
  /\ Active = {}
  /\ closed' = TRUE
  /\ UNCHANGED <<command, stage, interrupted, op, call, results, tally, errors, local, network>>

\* Every goroutine is done: the wait group lets the channel be closed.
CloseResults ==
  /\ stage = "running" /\ command.kind \in Parallelised /\ ~closed
  /\ \A x \in command.things : op[x] = "done"
  /\ closed' = TRUE
  /\ UNCHANGED <<command, stage, interrupted, op, call, results, tally, errors, local, network>>

Collect ==
  /\ stage = "running"
  /\ \E r \in results :
       /\ results' = results \ {r}
       /\ tally' = Counted(r[1], r[2])
  /\ UNCHANGED <<command, stage, interrupted, op, call, closed, errors, local, network>>

\* The loop over the arguments is over, or the channel is closed and drained.
AllHandled ==
  IF command.kind \in Parallelised THEN closed /\ results = {}
  ELSE /\ \A x \in Things : op[x] = "done"
       /\ command.kind = "batch" => tally.ok = {} \/ Batch \in Successful \cup tally.bad

End ==
  /\ stage = "running"
  /\ AllHandled
  /\ stage' = "ended"
  /\ UNCHANGED <<command, interrupted, op, call, results, closed, tally, errors, local, network>>

Handle(x) ==
  \/ Take(x) \/ CannotRead(x)
  \/ UploadReturns(x) \/ SocialUploadReturns(x) \/ PipeUploadReturns(x)
  \/ ChunkReturns(x) \/ FileEndsEarly(x)
  \/ OrderReturns(x) \/ DeleteReturns(x) \/ DownloadReturns(x) \/ DownloadBreaksOff(x)
  \/ WaitReturns(x) \/ WatchReturns(x) \/ BatchWatchReturns(x)

CliNext ==
  \/ \E kind \in Kinds, things \in SUBSET Things, wait, quiet, transcode \in BOOLEAN :
       Start(kind, things, wait, quiet, transcode)
  \/ InputRead \/ Declined \/ Interrupt
  \/ \E x \in Things :
       \/ Handle(x) \/ Tick(x) \/ WatchTimesOut(x) \/ WaitTimesOut(x)
       \/ Serve(x) \/ Refuse(x) \/ CallFails(x)
  \/ \E f \in Files : WorkerFinishes(f)
  \/ OrderBatch \/ CloseResults \/ Collect \/ End

\* The client goes on while it can, and every request has a timeout.  The
\* select of a watch chooses among its ready channels at random, so the timer
\* that has fired is chosen in the end, although a request may run whenever it
\* is looked at: strong fairness.
CliFairness ==
  /\ \A x \in Things :
       /\ WF_cliVars(Handle(x)) /\ WF_cliVars(CallFails(x))
       /\ WF_cliVars(WaitTimesOut(x)) /\ SF_cliVars(WatchTimesOut(x))
  /\ WF_cliVars(OrderBatch) /\ WF_cliVars(CloseResults) /\ WF_cliVars(Collect) /\ WF_cliVars(End)

CliSpec == CliInit /\ [][CliNext]_cliVars /\ CliFairness

----------------------------------------------------------------------------

\* A deletion that was declined leaves what it was given as it was.
Untouched == IF command.kind = "delete" THEN {x \in Things : op[x] = "queued"} ELSE {}

\* What a command says at its end is true of every thing it was given: each is
\* counted once, an upload that counts is at the API and a deleted file is not,
\* although goroutines report in any order and answers get lost.
Accounted ==
  stage = "ended" /\ command # Nothing /\ command.things \cap Untouched = {} =>
    /\ command.things \ {Batch} = (Successful \cup tally.bad) \ {Batch}
    /\ Successful \cap tally.bad = {}
    /\ command.kind \in Uploading => Successful \subseteq stored \cup {Batch}
    /\ command.kind = "delete" => Successful \cap stored = {}

\* A command ends once it has its input, whatever the API does: every request
\* is answered or times out, and no watch lasts longer than its deadline.
CommandEnds == stage = "running" ~> stage = "ended"

\* "This context is cancelled when the user presses Ctrl+C" (root.go): a command
\* that was interrupted ends.  The read of a pipe or of a prompt does not look
\* at the context.
InterruptEnds == interrupted ~> stage = "ended"

\* "-w, --wait: Wait for processing": a command that was told to wait and saw no
\* error ends after the jobs it ordered.
WaitMeansDone ==
  command # Nothing /\ stage = "ended" /\ command.wait /\ ~interrupted =>
    \A f \in tally.ok \cap Files : f \notin queued /\ status[f] = "completed"

\* "Download all ... Multiple files" (download.go): what counts as downloaded is
\* on disk.
DownloadsLand ==
  command # Nothing /\ stage = "ended" /\ command.kind = "download" =>
    \A f \in Successful : \E n \in Names : disk[n] = f

\* "--transcode: Transcode video after upload": without it nothing is ordered.
TranscodesWhenAsked ==
  command # Nothing /\ command.kind = "video upload" /\ ~command.transcode => queued = {}
============================================================================
