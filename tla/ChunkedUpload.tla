--------------------------- MODULE ChunkedUpload ---------------------------
(***************************************************************************)
(* One chunked upload: the session the API keeps in memory, the chunk      *)
(* objects in storage, and the requests that run against them at the same  *)
(* time.  Whichever request finds that all chunks are there assembles the  *)
(* file.  The owner may cancel, the cleanup goroutine expires sessions     *)
(* after an hour however busy they are, and the process may restart, which *)
(* loses the session.  Every storage and database call is a step.          *)
(***************************************************************************)
EXTENDS Naturals, FiniteSets

CONSTANTS ChunksTotal,   \* chunks of the upload, ceil(total_size / chunk size)
          Requests,      \* handler goroutines that serve chunk requests
          MaxSends       \* bound: how often the client sends each chunk

ASSUME ConstantsAssumption == /\ ChunksTotal \in Nat \ {0}
                              /\ MaxSends \in Nat
                              /\ IsFiniteSet(Requests)

Chunks == 0 .. ChunksTotal - 1

VARIABLES
  session,   \* "none", "open" while the store has it, "closed" afterwards
  loaded,    \* ChunksLoaded of the session
  object,    \* chunk objects: "none", "whole", or "cut" (too few bytes)
  final,     \* the assembled object is in storage
  files,     \* number of file rows created for the upload
  sent,      \* how often each chunk has been sent
  step, chunk, pos,   \* per request: next call, its chunk, assembly position
  sweep      \* per sweeper: the chunk it deletes next, ChunksTotal + 1 if off

vars == <<session, loaded, object, final, files, sent, step, chunk, pos, sweep>>

Sweepers == {"cancel", "expire"}
Off == ChunksTotal + 1
Steps == {"idle", "store", "mark", "read", "put", "tidy", "row", "drop"}

\* Every variable stays within its range.
TypeOK ==
  /\ session \in {"none", "open", "closed"}
  /\ loaded \in SUBSET Chunks
  /\ object \in [Chunks -> {"none", "whole", "cut"}]
  /\ final \in BOOLEAN
  /\ files \in Nat
  /\ sent \in [Chunks -> Nat]
  /\ step \in [Requests -> Steps]
  /\ chunk \in [Requests -> Chunks]
  /\ pos \in [Requests -> 0 .. ChunksTotal]
  /\ sweep \in [Sweepers -> 0 .. Off]

Init ==
  /\ session = "none"
  /\ loaded = {}
  /\ object = [c \in Chunks |-> "none"]
  /\ final = FALSE
  /\ files = 0
  /\ sent = [c \in Chunks |-> 0]
  /\ step = [r \in Requests |-> "idle"]
  /\ chunk = [r \in Requests |-> 0]
  /\ pos = [r \in Requests |-> 0]
  /\ sweep = [s \in Sweepers |-> Off]

\* cleanupExpired holds the store's lock until its last delete has returned.
StoreFree == sweep["expire"] = Off

InitUpload ==
  /\ session = "none"
  /\ session' = "open"
  /\ UNCHANGED <<loaded, object, final, files, sent, step, chunk, pos, sweep>>

-----------------------------------------------------------------------------
(* UploadChunkHandler                                                      *)

Goto(r, s) == step' = [step EXCEPT ![r] = s]

\* The request keeps its pointer to the session whatever happens to it later.
FindSession(r, c) ==
  /\ step[r] = "idle"
  /\ sent[c] < MaxSends
  /\ session = "open"
  /\ StoreFree
  /\ sent' = [sent EXCEPT ![c] = @ + 1]
  /\ chunk' = [chunk EXCEPT ![r] = c]
  /\ Goto(r, "store")
  /\ UNCHANGED <<session, loaded, object, final, files, pos, sweep>>

\* The handler does not compare the body with the declared chunk size.
StoreChunk(r) ==
  /\ step[r] = "store"
  /\ \/ /\ \E body \in {"whole", "cut"} :
             object' = [object EXCEPT ![chunk[r]] = body]
        /\ Goto(r, "mark")
     \/ Goto(r, "idle") /\ UNCHANGED object
  /\ UNCHANGED <<session, loaded, final, files, sent, chunk, pos, sweep>>

\* Mutant: the decision is taken after the lock has been given back, so it
\* counts the chunk of any request that is about to mark it.
MarkOutsideLock(r) ==
  /\ step[r] = "mark"
  /\ loaded' = loaded \cup {chunk[r]}
  /\ LET seen == loaded \cup {chunk[q] : q \in {q \in Requests : step[q] = "mark"}}
     IN Goto(r, IF seen = Chunks THEN "read" ELSE "idle")
  /\ pos' = [pos EXCEPT ![r] = 0]
  /\ UNCHANGED <<session, object, final, files, sent, chunk, sweep>>

MarkLoaded(r) ==
  /\ step[r] = "mark"
  /\ loaded' = loaded \cup {chunk[r]}
  /\ Goto(r, IF Cardinality(loaded') = ChunksTotal THEN "read" ELSE "idle")
  /\ pos' = [pos EXCEPT ![r] = 0]
  /\ UNCHANGED <<session, object, final, files, sent, chunk, sweep>>

-----------------------------------------------------------------------------
(* assembleChunks: a goroutine streams the chunks into the final object.   *)

\* A missing chunk, or too few bytes in all, makes the upload fail.
ReadChunk(r) ==
  /\ step[r] = "read"
  /\ \/ /\ object[pos[r]] = "whole"
        /\ Goto(r, IF pos[r] + 1 = ChunksTotal THEN "put" ELSE "read")
        /\ pos' = [pos EXCEPT ![r] = @ + 1]
     \/ Goto(r, "idle") /\ UNCHANGED pos
  /\ UNCHANGED <<session, loaded, object, final, files, sent, chunk, sweep>>

\* Mutant: the chunks are tidied away whether or not the upload succeeded.
TidyRegardless(r) ==
  /\ step[r] = "put"
  /\ final' \in {final, TRUE}
  /\ Goto(r, "tidy")
  /\ pos' = [pos EXCEPT ![r] = 0]
  /\ UNCHANGED <<session, loaded, object, files, sent, chunk, sweep>>

PutFinal(r) ==
  /\ step[r] = "put"
  /\ \/ final' = TRUE /\ Goto(r, "tidy")
     \/ Goto(r, "idle") /\ UNCHANGED final
  /\ pos' = [pos EXCEPT ![r] = 0]
  /\ UNCHANGED <<session, loaded, object, files, sent, chunk, sweep>>

\* Deletes are best effort.
TidyChunk(r) ==
  /\ step[r] = "tidy"
  /\ object' \in {object, [object EXCEPT ![pos[r]] = "none"]}
  /\ Goto(r, IF pos[r] + 1 = ChunksTotal THEN "row" ELSE "tidy")
  /\ pos' = [pos EXCEPT ![r] = @ + 1]
  /\ UNCHANGED <<session, loaded, final, files, sent, chunk, sweep>>

CreateFile(r) ==
  /\ step[r] = "row"
  /\ \/ files' = files + 1 /\ Goto(r, "drop")
     \/ Goto(r, "idle") /\ UNCHANGED files
  /\ UNCHANGED <<session, loaded, object, final, sent, chunk, pos, sweep>>

DropSession(r) ==
  /\ step[r] = "drop"
  /\ StoreFree
  /\ session' = "closed"
  /\ Goto(r, "idle")
  /\ UNCHANGED <<loaded, object, final, files, sent, chunk, pos, sweep>>

-----------------------------------------------------------------------------
(* CancelUploadHandler and cleanupExpired delete the chunks, then the      *)
(* session.  Neither waits for the requests that still hold the session.   *)

StartSweep(s) ==
  /\ session = "open"
  /\ StoreFree
  /\ sweep[s] = Off
  /\ sweep' = [sweep EXCEPT ![s] = 0]
  /\ UNCHANGED <<session, loaded, object, final, files, sent, step, chunk, pos>>

CancelUpload  == StartSweep("cancel")
CleanupExpired == StartSweep("expire")

SweepChunk(s) ==
  /\ sweep[s] < ChunksTotal
  /\ object' \in {object, [object EXCEPT ![sweep[s]] = "none"]}
  /\ sweep' = [sweep EXCEPT ![s] = @ + 1]
  /\ UNCHANGED <<session, loaded, final, files, sent, step, chunk, pos>>

\* Mutant: the session is removed but the lock is kept.
EndSweepLocked(s) ==
  /\ sweep[s] = ChunksTotal
  /\ s = "cancel" => StoreFree
  /\ session' = "closed"
  /\ sweep' = [sweep EXCEPT ![s] = IF s = "cancel" THEN Off ELSE @]
  /\ UNCHANGED <<loaded, object, final, files, sent, step, chunk, pos>>

EndSweep(s) ==
  /\ sweep[s] = ChunksTotal
  /\ s = "cancel" => StoreFree
  /\ session' = "closed"
  /\ sweep' = [sweep EXCEPT ![s] = Off]
  /\ UNCHANGED <<loaded, object, final, files, sent, step, chunk, pos>>

\* The process restarts: the store was in memory, the objects were not.
Restart ==
  /\ session # "none"
  /\ session' = "closed"
  /\ step' = [r \in Requests |-> "idle"]
  /\ sweep' = [s \in Sweepers |-> Off]
  /\ UNCHANGED <<loaded, object, final, files, sent, chunk, pos>>

-----------------------------------------------------------------------------
Handle(r) == \/ StoreChunk(r) \/ MarkLoaded(r) \/ ReadChunk(r) \/ PutFinal(r)
             \/ TidyChunk(r) \/ CreateFile(r) \/ DropSession(r)

Sweep(s) == SweepChunk(s) \/ EndSweep(s)

Next == \/ InitUpload \/ CancelUpload \/ CleanupExpired \/ Restart
        \/ \E r \in Requests : Handle(r) \/ \E c \in Chunks : FindSession(r, c)
        \/ \E s \in Sweepers : Sweep(s)

\* Goroutines run on; nobody has to send, cancel, expire or restart.
Fairness == /\ \A r \in Requests : WF_vars(Handle(r))
            /\ \A s \in Sweepers : WF_vars(Sweep(s))

Spec == Init /\ [][Next]_vars
FairSpec == Spec /\ Fairness
-----------------------------------------------------------------------------
(* Properties                                                              *)

\* A file row never points to a missing object: whatever is cancelled, expired
\* or swept while the file is assembled, the object is there before the row.
RowHasObject == files > 0 => final

\* What the status endpoint reports as loaded is not lost: while the session is
\* open and nobody removes it, each loaded chunk is in storage until the
\* assembled file is.  A failed assembly can be tried again.
LoadedNotLost ==
  session = "open" /\ (\A s \in Sweepers : sweep[s] = Off) =>
    \A c \in loaded : object[c] # "none" \/ final

\* A client that sends each chunk once gets at most one file, in whatever order
\* its parallel requests are served.
OneFilePerUpload == (\A c \in Chunks : sent[c] <= 1) => files <= 1

\* Every chunk request is answered, also those that wait for the store's lock
\* while expired sessions are swept.
RequestsAnswered == \A r \in Requests : step[r] # "idle" ~> step[r] = "idle"

-----------------------------------------------------------------------------
(* The inductive invariant behind RowHasObject and LoadedNotLost           *)

\* The two loops of assembleChunks stay within the chunks.
LoopInRange == \A r \in Requests : step[r] \in {"read", "tidy"} => pos[r] \in Chunks

TypeInv == TypeOK /\ LoopInRange

\* Whoever tidies up or writes the row has stored the assembled object.
PastPutHasFinal ==
  \A r \in Requests : step[r] \in {"tidy", "row", "drop"} => final

\* A chunk about to be marked is as safe as one that is marked.
MarkingNotLost ==
  session = "open" /\ (\A s \in Sweepers : sweep[s] = Off) =>
    \A r \in Requests : step[r] = "mark" => object[chunk[r]] # "none" \/ final

\* Nothing is loaded, and no request runs, before the session is opened.
QuietBeforeInit == session = "none" => /\ loaded = {}
                                       /\ \A r \in Requests : step[r] = "idle"
                                       /\ \A s \in Sweepers : sweep[s] = Off

IInv == /\ TypeInv /\ RowHasObject /\ LoadedNotLost
        /\ PastPutHasFinal /\ MarkingNotLost /\ QuietBeforeInit
=============================================================================
