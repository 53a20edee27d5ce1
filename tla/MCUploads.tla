------------------------------ MODULE MCUploads ------------------------------
(***************************************************************************)
(* What the API keeps in memory: the session of a chunked upload with the  *)
(* stream that watches it, and the hub of the other streams.  They share   *)
(* nothing, so a behaviour is one of one of them.                          *)
(***************************************************************************)
EXTENDS UploadProgress, LiveUpdates

NoUpload == session = "none" /\ progress = "none"
NoStream == reports = 0 /\ \A s \in Streams : At(s, "none")

MemoryInit == WatchedInit /\ LiveInit

\* Bound: a client that watches its upload sends each chunk once.
Watching == progress' # "none" => \A c \in Chunks : sent'[c] <= 1

MemoryNext == \/ NoStream /\ WatchedNext /\ Watching /\ UNCHANGED liveVars
              \/ NoUpload /\ LiveNext /\ UNCHANGED watchedVars

\* Nothing that is fair is enabled in a part that has not begun; the hub's
\* part is checked for safety only.
MemorySpec ==
  /\ MemoryInit
  /\ [][MemoryNext]_<<watchedVars, liveVars>>
  /\ WatchedFairness
=============================================================================
