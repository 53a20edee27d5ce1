--------------------------- MODULE UploadProgress ---------------------------
(***************************************************************************)
(* A chunked upload and the stream of events that watches it.  The stream  *)
(* looks at the session once a second; it sees neither the assembly nor    *)
(* the file, only that the session is gone.  The counts it shows meanwhile *)
(* are left out.                                                           *)
(***************************************************************************)
EXTENDS ChunkedUpload

VARIABLE progress  \* the stream: "none", "watching", or how it has ended:
                   \* "complete" if that was its last event, else "over"

watchedVars == <<vars, progress>>

WatchedInit == Init /\ progress = "none"

\* sessionStore.Get waits while expired sessions are swept.
Watch ==
  /\ progress = "none" /\ StoreFree
  /\ progress' = IF session = "open" THEN "watching" ELSE "over"
  /\ UNCHANGED vars

\* With the last chunk marked the stream ends, whatever becomes of the assembly.
Poll ==
  /\ progress = "watching" /\ StoreFree
  /\ \/ session = "closed" /\ progress' = "complete"
     \/ session = "open" /\ Cardinality(loaded) = ChunksTotal /\ progress' = "over"
  /\ UNCHANGED vars

\* The client hangs up.
Unwatch ==
  /\ progress = "watching"
  /\ progress' = "over"
  /\ UNCHANGED vars

----------------------------------------------------------------------------
WatchedNext ==
  \/ Next /\ UNCHANGED progress
  \/ Watch \/ Poll \/ Unwatch

\* The ticker ticks, and a select takes what is ready.
WatchedFairness == Fairness /\ WF_watchedVars(Poll)

WatchedSpec == WatchedInit /\ [][WatchedNext]_watchedVars /\ WatchedFairness

----------------------------------------------------------------------------
(* Properties.                                                             *)

\* Every chunk request is answered, also those that wait for the store's lock
\* while expired sessions are swept, and a stream ends with its upload.
AnswersAndStreamsEnd ==
  /\ RequestsAnswered
  /\ progress = "watching" /\ session = "closed" ~> progress # "watching"

\* "complete - Upload completed" (docs/API.md).
CompleteMeansStored == progress = "complete" => files > 0
============================================================================
