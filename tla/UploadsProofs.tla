---------------------------- MODULE UploadsProofs ----------------------------
(***************************************************************************)
(* Theorems of ChunkedUpload for any number of chunks, requests and sends, *)
(* and of LiveUpdates for any number of streams, senders and messages.     *)
(***************************************************************************)
EXTENDS UploadProgress, LiveUpdates, FiniteSetTheorems, TLAPS

(* The positions of the two loops and of the sweeps, and how they advance. *)
LEMMA Positions ==
  /\ 0 \in Chunks /\ 0 \in 0 .. ChunksTotal
  /\ 0 \in 0 .. Off /\ Off \in 0 .. Off
  /\ \A c \in Chunks : /\ c + 1 \in 0 .. ChunksTotal
                      /\ c + 1 # ChunksTotal => c + 1 \in Chunks
  /\ \A n \in 0 .. Off : n < ChunksTotal => /\ n \in Chunks
                                           /\ n + 1 \in 0 .. Off
                                           /\ n + 1 # Off
  /\ Off # 0 /\ Off # ChunksTotal /\ ~(Off < ChunksTotal)
  BY ConstantsAssumption, SMT DEF Chunks, Off

(* A loop that is not at its end goes on to a chunk.                       *)
LEMMA NextPosition == ASSUME NEW c \in Chunks, c + 1 # ChunksTotal
                      PROVE  c + 1 \in Chunks /\ c + 1 \in 0 .. ChunksTotal
  BY ConstantsAssumption, SMT DEF Chunks

(* Before the upload is opened there is nothing to lose.                   *)
LEMMA InitIInv == Init => IInv
  <1> SUFFICES ASSUME Init PROVE IInv
    OBVIOUS
  <1>1. TypeOK
    <2>1. step \in [Requests -> Steps] /\ final \in BOOLEAN
      BY DEF Init, Steps
    <2>2. /\ object \in [Chunks -> {"none", "whole", "cut"}]
          /\ sent \in [Chunks -> Nat]
          /\ chunk \in [Requests -> Chunks]
      BY Positions DEF Init
    <2>3. /\ pos \in [Requests -> 0 .. ChunksTotal]
          /\ sweep \in [Sweepers -> 0 .. Off]
      BY Positions DEF Init
    <2> QED
      BY <2>1, <2>2, <2>3 DEF Init, TypeOK
  <1>2. LoopInRange /\ PastPutHasFinal /\ RowHasObject
    BY SMT DEF Init, LoopInRange, PastPutHasFinal, RowHasObject
  <1>3. LoadedNotLost /\ MarkingNotLost /\ QuietBeforeInit
    BY SMT DEF Init, LoadedNotLost, MarkingNotLost, QuietBeforeInit
  <1> QED
    BY <1>1, <1>2, <1>3 DEF IInv, TypeInv

(* Values stay in range and both loops of the assembly within the chunks.  *)
LEMMA TypeStep == TypeInv /\ [Next]_vars => TypeInv'
  <1> SUFFICES ASSUME TypeInv, [Next]_vars PROVE TypeInv'
    OBVIOUS
  <1> USE Positions DEF TypeInv, TypeOK, LoopInRange, Steps, Goto
  <1>1. CASE InitUpload
    BY <1>1 DEF InitUpload
  <1>2. ASSUME NEW r \in Requests, NEW c \in Chunks, FindSession(r, c)
        PROVE  TypeInv'
    BY <1>2 DEF FindSession
  <1>3. ASSUME NEW r \in Requests, StoreChunk(r) PROVE TypeInv'
    BY <1>3 DEF StoreChunk
  <1>4. ASSUME NEW r \in Requests, MarkLoaded(r) PROVE TypeInv'
    BY <1>4 DEF MarkLoaded
  <1>5. ASSUME NEW r \in Requests, ReadChunk(r) PROVE TypeInv'
    <2>1. pos[r] \in Chunks
      BY <1>5 DEF ReadChunk
    <2>2. CASE UNCHANGED pos
      BY <1>5, <2>2 DEF ReadChunk
    <2>3. CASE pos[r] + 1 = ChunksTotal /\ pos' = [pos EXCEPT ![r] = @ + 1]
               /\ step' \in {[step EXCEPT ![r] = "put"], [step EXCEPT ![r] = "idle"]}
      BY <1>5, <2>1, <2>3 DEF ReadChunk
    <2>4. CASE pos[r] + 1 # ChunksTotal /\ pos' = [pos EXCEPT ![r] = @ + 1]
      <3>1. pos[r] + 1 \in Chunks /\ pos[r] + 1 \in 0 .. ChunksTotal
        BY ONLY <2>1, <2>4, NextPosition, SMT
      <3>2. pos' = [pos EXCEPT ![r] = pos[r] + 1]
        BY <1>5, <2>4 DEF ReadChunk
      <3>3. \A q \in Requests : /\ q # r => step'[q] = step[q] /\ pos'[q] = pos[q]
                                /\ pos'[r] = pos[r] + 1
        BY <1>5, <3>2 DEF ReadChunk
      <3>4. LoopInRange'
        BY <3>1, <3>3
      <3>5. TypeOK'
        BY <1>5, <3>1, <3>2, <2>4 DEF ReadChunk
      <3> QED
        BY <3>4, <3>5
    <2> QED
      BY <1>5, <2>2, <2>3, <2>4 DEF ReadChunk
  <1>6. ASSUME NEW r \in Requests, PutFinal(r) PROVE TypeInv'
    BY <1>6 DEF PutFinal
  <1>7. ASSUME NEW r \in Requests, TidyChunk(r) PROVE TypeInv'
    <2>1. pos[r] \in Chunks
      BY <1>7 DEF TidyChunk
    <2>2. object' \in [Chunks -> {"none", "whole", "cut"}]
      BY <1>7, <2>1 DEF TidyChunk
    <2>3. CASE pos[r] + 1 = ChunksTotal
      BY <1>7, <2>1, <2>2, <2>3 DEF TidyChunk
    <2>4. CASE pos[r] + 1 # ChunksTotal
      <3>1. pos[r] + 1 \in Chunks /\ pos[r] + 1 \in 0 .. ChunksTotal
        BY ONLY <2>1, <2>4, NextPosition, SMT
      <3>2. pos' = [pos EXCEPT ![r] = pos[r] + 1]
        BY <1>7, <2>4 DEF TidyChunk
      <3>3. \A q \in Requests : /\ q # r => step'[q] = step[q] /\ pos'[q] = pos[q]
                                /\ pos'[r] = pos[r] + 1
        BY <1>7, <3>2 DEF TidyChunk
      <3>4. LoopInRange'
        BY <3>1, <3>3
      <3>5. TypeOK'
        BY <1>7, <2>2, <3>1, <3>2, <2>4 DEF TidyChunk
      <3> QED
        BY <3>4, <3>5
    <2> QED
      BY <2>3, <2>4
  <1>8. ASSUME NEW r \in Requests, CreateFile(r) PROVE TypeInv'
    BY <1>8 DEF CreateFile
  <1>9. ASSUME NEW r \in Requests, DropSession(r) PROVE TypeInv'
    BY <1>9 DEF DropSession
  <1>10. CASE CancelUpload \/ CleanupExpired
    BY <1>10 DEF CancelUpload, CleanupExpired, StartSweep
  <1>11. ASSUME NEW s \in Sweepers, SweepChunk(s) PROVE TypeInv'
    BY <1>11 DEF SweepChunk
  <1>12. ASSUME NEW s \in Sweepers, EndSweep(s) PROVE TypeInv'
    BY <1>12 DEF EndSweep
  <1>13. CASE Restart
    BY <1>13 DEF Restart
  <1>14. CASE UNCHANGED vars
    BY <1>14 DEF vars
  <1> QED
    BY <1>1, <1>2, <1>3, <1>4, <1>5, <1>6, <1>7, <1>8, <1>9, <1>10, <1>11,
       <1>12, <1>13, <1>14
       DEF Next, Handle, Sweep

(* Every call keeps the invariant: chunks disappear only behind the final  *)
(* object or in a sweep, and a sweep ends by closing the session.          *)
LEMMA StepIInv == IInv /\ [Next]_vars => IInv'
  <1> SUFFICES ASSUME IInv, [Next]_vars PROVE IInv'
    OBVIOUS
  <1>0. TypeInv /\ TypeInv'
    BY TypeStep DEF IInv
  <1> USE <1>0, Positions
      DEF IInv, RowHasObject, LoadedNotLost, PastPutHasFinal,
          MarkingNotLost, QuietBeforeInit, Goto
  <1>1. CASE InitUpload
    BY <1>1 DEF InitUpload, TypeInv, TypeOK
  <1>2. ASSUME NEW r \in Requests, NEW c \in Chunks, FindSession(r, c)
        PROVE  IInv'
    BY <1>2 DEF FindSession, TypeInv, TypeOK
  <1>3. ASSUME NEW r \in Requests, StoreChunk(r) PROVE IInv'
    BY <1>3 DEF StoreChunk, TypeInv, TypeOK
  <1>4. ASSUME NEW r \in Requests, MarkLoaded(r) PROVE IInv'
    BY <1>4 DEF MarkLoaded, TypeInv, TypeOK
  <1>5. ASSUME NEW r \in Requests, ReadChunk(r) PROVE IInv'
    BY <1>5 DEF ReadChunk, TypeInv, TypeOK
  <1>6. ASSUME NEW r \in Requests, PutFinal(r) PROVE IInv'
    BY <1>6 DEF PutFinal, TypeInv, TypeOK
  <1>7. ASSUME NEW r \in Requests, TidyChunk(r) PROVE IInv'
    BY <1>7 DEF TidyChunk, TypeInv, TypeOK
  <1>8. ASSUME NEW r \in Requests, CreateFile(r) PROVE IInv'
    BY <1>8 DEF CreateFile, TypeInv, TypeOK
  <1>9. ASSUME NEW r \in Requests, DropSession(r) PROVE IInv'
    BY <1>9 DEF DropSession, TypeInv, TypeOK
  <1>10. CASE CancelUpload \/ CleanupExpired
    BY <1>10 DEF CancelUpload, CleanupExpired, StartSweep, TypeInv, TypeOK, StoreFree
  <1>11. ASSUME NEW s \in Sweepers, SweepChunk(s) PROVE IInv'
    BY <1>11 DEF SweepChunk, TypeInv, TypeOK
  <1>12. ASSUME NEW s \in Sweepers, EndSweep(s) PROVE IInv'
    BY <1>12 DEF EndSweep, TypeInv, TypeOK
  <1>13. CASE Restart
    BY <1>13 DEF Restart, TypeInv, TypeOK
  <1>14. CASE UNCHANGED vars
    BY <1>14 DEF vars, TypeInv, TypeOK
  <1> QED
    BY <1>1, <1>2, <1>3, <1>4, <1>5, <1>6, <1>7, <1>8, <1>9, <1>10, <1>11,
       <1>12, <1>13, <1>14
       DEF Next, Handle, Sweep

(* The invariant holds in every reachable state.                           *)
THEOREM Invariance == Spec => []IInv
  <1>1. Init => IInv
    BY InitIInv
  <1>2. IInv /\ [Next]_vars => IInv'
    BY StepIInv
  <1> QED
    BY <1>1, <1>2, PTL DEF Spec

(* Type correctness.                                                       *)
THEOREM Typing == Spec => []TypeOK
  <1>1. IInv => TypeOK
    BY DEF IInv, TypeInv
  <1> QED
    BY <1>1, Invariance, PTL

(* No cancel, expiry or second assembly leaves a file row without object.  *)
THEOREM RowsHaveObjects == Spec => []RowHasObject
  <1>1. IInv => RowHasObject
    BY DEF IInv
  <1> QED
    BY <1>1, Invariance, PTL

(* A failed assembly never costs a chunk that was reported as loaded.      *)
THEOREM LoadedIsKept == Spec => []LoadedNotLost
  <1>1. IInv => LoadedNotLost
    BY DEF IInv
  <1> QED
    BY <1>1, Invariance, PTL
----------------------------------------------------------------------------
(* One file for an upload whose chunks are sent once each.                 *)

SentOnce == \A c \in Chunks : sent[c] <= 1
Carrying == {"store", "mark"}
Assembling == {"read", "put", "tidy", "row", "drop"}

\* A chunk that is sent once is carried by one request, and marked after it.
CarriedOnce ==
  SentOnce =>
    /\ \A r \in Requests : step[r] \in Carrying =>
         /\ sent[chunk[r]] # 0 /\ chunk[r] \notin loaded
         /\ \A q \in Requests : q # r /\ step[q] \in Carrying => chunk[q] # chunk[r]
    /\ \A c \in loaded : sent[c] # 0

\* Then only the request that marks the last chunk assembles, and only once.
AssembledOnce ==
  SentOnce =>
    /\ loaded # Chunks => files = 0 /\ \A r \in Requests : step[r] \notin Assembling
    /\ \A r, q \in Requests :
         step[r] \in Assembling /\ step[q] \in Assembling => r = q
    /\ \A r \in Requests : step[r] \in Assembling \ {"drop"} => files = 0
    /\ files <= 1

OnceInv == TypeInv /\ CarriedOnce /\ AssembledOnce

(* ChunksLoaded has the length of the upload only when no chunk is missing.*)
LEMMA AllLoaded ==
  ASSUME NEW S \in SUBSET Chunks, Cardinality(S) = ChunksTotal
  PROVE  S = Chunks
  <1>1. IsFiniteSet(Chunks) /\ Cardinality(Chunks) = ChunksTotal
    <2>1. 0 \in Int /\ ChunksTotal - 1 \in Int /\ ChunksTotal \in Nat \ {0}
      BY ConstantsAssumption
    <2> QED BY <2>1, FS_Interval DEF Chunks
  <1> QED BY <1>1, FS_Subset

(* No call lets a second request assemble.                                 *)
LEMMA OnceStep ==
  ASSUME OnceInv, [Next]_vars
  PROVE  OnceInv'
  <1>0. TypeInv /\ TypeInv'
    BY TypeStep DEF OnceInv
  <1> SUFFICES ASSUME SentOnce' PROVE CarriedOnce' /\ AssembledOnce'
    BY <1>0 DEF OnceInv, CarriedOnce, AssembledOnce
  <1>a. ASSUME UNCHANGED sent PROVE SentOnce
    BY <1>a DEF SentOnce
  <1> USE <1>0 DEF OnceInv, Goto, Carrying, Assembling
  <1>2. ASSUME NEW r \in Requests, NEW c \in Chunks, FindSession(r, c)
        PROVE  CarriedOnce' /\ AssembledOnce'
    <2>1. /\ sent' = [sent EXCEPT ![c] = sent[c] + 1] /\ step' = [step EXCEPT ![r] = "store"]
          /\ chunk' = [chunk EXCEPT ![r] = c] /\ UNCHANGED <<loaded, files>> /\ step[r] = "idle"
      BY <1>2 DEF FindSession
    <2>2. /\ sent \in [Chunks -> Nat] /\ step \in [Requests -> Steps]
          /\ chunk \in [Requests -> Chunks] /\ loaded \subseteq Chunks
      BY DEF TypeInv, TypeOK
    <2>3. SentOnce /\ sent[c] = 0 /\ sent'[c] = 1
      BY <2>1, <2>2, SMT DEF SentOnce
    <2>4. \A d \in Chunks : sent[d] # 0 => sent'[d] # 0
      BY <2>1, <2>2, <2>3
    <2>5. c \notin loaded
      BY <2>3 DEF CarriedOnce
    <2>6. \A q \in Requests : step[q] \in Carrying => chunk[q] # c
      BY <2>3 DEF CarriedOnce
    <2>7. CarriedOnce'
      BY <2>1, <2>2, <2>3, <2>4, <2>5, <2>6 DEF CarriedOnce
    <2>8. AssembledOnce'
      BY <2>1, <2>2, <2>3 DEF AssembledOnce
    <2> QED BY <2>7, <2>8
  <1>4. ASSUME NEW r \in Requests, MarkLoaded(r) PROVE CarriedOnce' /\ AssembledOnce'
    <2>1. /\ UNCHANGED <<sent, files, chunk>> /\ step[r] = "mark"
          /\ loaded' = loaded \cup {chunk[r]}
          /\ step' = [step EXCEPT ![r] = IF Cardinality(loaded') = ChunksTotal
                                         THEN "read" ELSE "idle"]
      BY <1>4 DEF MarkLoaded
    <2>2. /\ step \in [Requests -> Steps] /\ chunk \in [Requests -> Chunks]
          /\ loaded \subseteq Chunks /\ chunk[r] \in Chunks
      BY DEF TypeInv, TypeOK
    <2>3. SentOnce /\ sent[chunk[r]] # 0 /\ chunk[r] \notin loaded
      BY <1>a, <2>1 DEF CarriedOnce
    <2>4. loaded # Chunks /\ files = 0 /\ \A q \in Requests : step[q] \notin Assembling
      BY <2>2, <2>3 DEF AssembledOnce
    <2>5. PICK next \in {"read", "idle"} : /\ step' = [step EXCEPT ![r] = next]
                                           /\ next = "read" => loaded' = Chunks
      <3>1. loaded' \in SUBSET Chunks
        BY <2>1, <2>2
      <3> QED BY <2>1, <3>1, AllLoaded
    <2>6. CarriedOnce'
      BY <2>1, <2>2, <2>3, <2>5 DEF CarriedOnce
    <2>7. AssembledOnce'
      BY <2>1, <2>2, <2>4, <2>5 DEF AssembledOnce
    <2> QED BY <2>6, <2>7
  \* The other calls of a request lead on, or end it.
  <1>5. ASSUME NEW r \in Requests, NEW next \in Steps, UNCHANGED <<sent, chunk, loaded>>,
               step' = [step EXCEPT ![r] = next],
               next \in Carrying => step[r] \in Carrying,
               next \in Assembling => step[r] \in Assembling \ {"drop"},
               files' = files \/ (files' = files + 1 /\ step[r] = "row" /\ next = "drop")
        PROVE  CarriedOnce' /\ AssembledOnce'
    <2>1. SentOnce /\ step \in [Requests -> Steps]
      BY <1>a, <1>5 DEF TypeInv, TypeOK
    <2>2. CarriedOnce'
      BY <1>5, <2>1 DEF CarriedOnce
    <2>3. AssembledOnce'
      BY <1>5, <2>1 DEF AssembledOnce
    <2> QED BY <2>2, <2>3
  <1>6. ASSUME NEW r \in Requests, StoreChunk(r) PROVE CarriedOnce' /\ AssembledOnce'
    BY <1>5, <1>6 DEF StoreChunk, Steps
  <1>7. ASSUME NEW r \in Requests, ReadChunk(r) PROVE CarriedOnce' /\ AssembledOnce'
    BY <1>5, <1>7 DEF ReadChunk, Steps
  <1>8. ASSUME NEW r \in Requests, PutFinal(r) PROVE CarriedOnce' /\ AssembledOnce'
    BY <1>5, <1>8 DEF PutFinal, Steps
  <1>9. ASSUME NEW r \in Requests, TidyChunk(r) PROVE CarriedOnce' /\ AssembledOnce'
    BY <1>5, <1>9 DEF TidyChunk, Steps
  <1>10. ASSUME NEW r \in Requests, CreateFile(r) PROVE CarriedOnce' /\ AssembledOnce'
    BY <1>5, <1>10 DEF CreateFile, Steps
  <1>11. ASSUME NEW r \in Requests, DropSession(r) PROVE CarriedOnce' /\ AssembledOnce'
    BY <1>5, <1>11 DEF DropSession, Steps
  <1>12. CASE UNCHANGED <<sent, chunk, loaded, step, files>>
    BY <1>a, <1>12 DEF CarriedOnce, AssembledOnce
  <1>13. CASE InitUpload \/ CancelUpload \/ CleanupExpired \/ UNCHANGED vars
              \/ \E s \in Sweepers : Sweep(s)
    BY <1>12, <1>13 DEF InitUpload, CancelUpload, CleanupExpired, StartSweep, Sweep, SweepChunk,
                        EndSweep, vars
  <1>14. CASE Restart
    BY <1>a, <1>14 DEF Restart, CarriedOnce, AssembledOnce
  <1> QED
    BY <1>2, <1>4, <1>6, <1>7, <1>8, <1>9, <1>10, <1>11, <1>13, <1>14 DEF Next, Handle

(* A client that sends each chunk once gets one file at most, however its  *)
(* requests overlap and whatever fails or is cancelled meanwhile.          *)
THEOREM OneFile == Spec => []OneFilePerUpload
  <1>1. Init => OnceInv
    BY InitIInv DEF Init, IInv, OnceInv, CarriedOnce, AssembledOnce, Carrying, Assembling
  <1>2. OnceInv /\ [Next]_vars => OnceInv'
    BY OnceStep
  <1>3. OnceInv => OneFilePerUpload
    BY DEF OnceInv, AssembledOnce, SentOnce, OneFilePerUpload
  <1> QED
    BY <1>1, <1>2, <1>3, PTL DEF Spec

----------------------------------------------------------------------------
(* The channels of the streams.                                            *)

Named == [at : {"register", "loop", "write", "leave", "ended"}, named : Watched,
          watch : {AnyFile} \cup Watched]
Tasks == [at : {"register", "unregister"}, stream : Streams]
Sends == [at : {"send"}, file : Watched, left : SUBSET Streams]

LiveTypeOK ==
  /\ stream \in [Streams -> {[at |-> "none"]} \cup Named]
  /\ gone \subseteq Streams /\ closed \subseteq Streams /\ clients \subseteq Streams
  /\ first \in [Streams -> {"none", "read", "write", "done"}]
  /\ channel \in [Streams -> Seq(Watched)]
  /\ shown \in [Streams -> SUBSET Watched]
  /\ hub \in {Selecting} \cup Tasks
  /\ sender \in [Senders -> {Quiet} \cup Sends]
  /\ reports \in Nat /\ panicked \in BOOLEAN

\* A stream is on the list of the hub between its registration and its end,
\* once, and its channel is closed as it leaves the list.
InTurn ==
  /\ \A s \in clients : ~At(s, "none") /\ ~At(s, "register") /\ s \notin closed
  /\ \A s \in closed : At(s, "ended")
  /\ hub.at = "register" => /\ hub.stream \notin clients \cup closed
                            /\ stream[hub.stream].at \in {"loop", "write", "leave"}
  /\ hub.at = "unregister" => At(hub.stream, "ended")

\* Who holds the lock for reading serves streams that are on the list.
ServesClients == \A b \in Senders : sender[b] # Quiet => sender[b].left \subseteq clients

\* An initial status is written for a stream that watches one file.
FirstOfNamed ==
  \A s \in Streams : first[s] \in {"read", "write"} =>
                       stream[s] \in Named /\ stream[s].watch \in Watched

LiveInv == LiveTypeOK /\ InTurn /\ ServesClients /\ FirstOfNamed /\ NoSendOnClosed

(* A stream, the hub or a sender that is somewhere is of a known shape.    *)
LEMMA LiveShapes ==
  ASSUME LiveTypeOK
  PROVE  /\ \A s \in Streams : stream[s].at # "none" => stream[s] \in Named
         /\ hub # Selecting => hub \in Tasks
         /\ \A b \in Senders : sender[b] # Quiet => sender[b] \in Sends
         /\ Selecting.at = "select"
  BY DEF LiveTypeOK, Selecting

(* A handler that moves on keeps what it was asked for.                    *)
LEMMA Moved ==
  ASSUME LiveTypeOK, NEW s \in Streams, stream[s].at # "none",
         NEW where \in {"loop", "write", "leave", "ended"},
         stream' = [stream EXCEPT ![s].at = where]
  PROVE  /\ stream' \in [Streams -> {[at |-> "none"]} \cup Named]
         /\ stream'[s].at = where /\ stream'[s] \in Named /\ stream'[s].watch = stream[s].watch
         /\ \A q \in Streams : q # s => stream'[q] = stream[q]
  <1>1. stream[s] \in Named /\ stream \in [Streams -> {[at |-> "none"]} \cup Named]
    BY LiveShapes DEF LiveTypeOK
  <1>2. stream' = [stream EXCEPT ![s] = [stream[s] EXCEPT !.at = where]]
    BY <1>1
  <1>3. [stream[s] EXCEPT !.at = where] \in Named
    BY <1>1 DEF Named
  <1>4. /\ [stream[s] EXCEPT !.at = where].at = where
        /\ [stream[s] EXCEPT !.at = where].watch = stream[s].watch
    BY <1>1 DEF Named
  <1> DEFINE moved == [stream[s] EXCEPT !.at = where]
  <1> HIDE DEF moved
  <1>5. stream' = [stream EXCEPT ![s] = moved] /\ moved \in Named /\ moved.at = where
        /\ moved.watch = stream[s].watch
    BY <1>2, <1>3, <1>4 DEF moved
  <1> QED BY <1>1, <1>5

(* Every step of the broker and its clients keeps the invariant.           *)
LEMMA LiveStep ==
  ASSUME LiveInv, [LiveNext]_liveVars
  PROVE  LiveInv'
  <1>0. /\ LiveTypeOK /\ InTurn /\ ServesClients /\ FirstOfNamed /\ NoSendOnClosed
        /\ \A s \in Streams : stream[s].at # "none" => stream[s] \in Named
        /\ hub # Selecting => hub \in Tasks
        /\ \A b \in Senders : sender[b] # Quiet => sender[b] \in Sends
        /\ Selecting.at = "select"
    BY LiveShapes DEF LiveInv
  \* A handler that goes on between its registration and its end.
  <1>a. ASSUME NEW s \in Streams, NEW from \in {"loop", "write"}, NEW where \in {"loop", "write", "leave"},
               At(s, from), Move(s, where), UNCHANGED <<first, closed, hub, clients, sender, panicked>>
        PROVE  /\ InTurn' /\ ServesClients' /\ FirstOfNamed' /\ NoSendOnClosed'
               /\ stream' \in [Streams -> {[at |-> "none"]} \cup Named]
    <2>1. /\ stream' \in [Streams -> {[at |-> "none"]} \cup Named] /\ stream'[s].at = where
          /\ stream'[s] \in Named /\ stream'[s].watch = stream[s].watch
          /\ \A q \in Streams : q # s => stream'[q] = stream[q]
      BY <1>0, <1>a, Moved DEF At, Move
    <2>2. InTurn'
      <3>1. clients \subseteq Streams /\ closed \subseteq Streams
        BY <1>0 DEF LiveTypeOK
      <3>2. hub.at \in {"register", "unregister"} => hub.stream \in Streams
        BY <1>0 DEF Tasks
      <3>3. s \notin closed /\ (hub.at = "unregister" => hub.stream # s)
        BY <1>0, <1>a DEF InTurn, At
      <3> QED BY <1>0, <1>a, <2>1, <3>1, <3>2, <3>3 DEF InTurn, At
    <2>3. FirstOfNamed'
      BY <1>0, <1>a, <2>1 DEF FirstOfNamed
    <2> QED BY <1>0, <1>a, <2>1, <2>2, <2>3 DEF ServesClients, NoSendOnClosed
  \* A step that moves no handler, no sender and not the hub.
  <1>b. ASSUME UNCHANGED <<stream, closed, hub, clients, sender, panicked>>,
               \A s \in Streams : first'[s] \in {"read", "write"} => first[s] \in {"read", "write"}
        PROVE  InTurn' /\ ServesClients' /\ FirstOfNamed' /\ NoSendOnClosed'
    BY <1>0, <1>b DEF InTurn, ServesClients, FirstOfNamed, NoSendOnClosed, At
  <1>1. ASSUME NEW s \in Streams, NEW n \in Watched, NEW w \in {AnyFile} \cup Watched,
               Connect(s, n, w)
        PROVE  LiveInv'
    <2> DEFINE new == [at |-> "register", named |-> n, watch |-> w]
    <2>1. new \in Named /\ new.at = "register"
      BY DEF Named
    <2> HIDE DEF new
    <2>2. stream' = [stream EXCEPT ![s] = new] /\ UNCHANGED hubVars /\ stream[s].at = "none"
      BY <1>1 DEF Connect, new, At
    <2>3. LiveTypeOK'
      BY <1>0, <2>1, <2>2 DEF LiveTypeOK, hubVars
    <2>4. InTurn'
      <3>1. s \notin clients /\ s \notin closed
        BY <1>0, <2>2 DEF InTurn, At
      <3>2. hub.at \in {"register", "unregister"} => hub.stream # s /\ hub.stream \in Streams
        BY <1>0, <2>2 DEF InTurn, At, Tasks
      <3>3. clients \subseteq Streams /\ closed \subseteq Streams
        BY <1>0 DEF LiveTypeOK
      <3> QED BY <1>0, <2>1, <2>2, <3>1, <3>2, <3>3 DEF InTurn, At, LiveTypeOK, hubVars
    <2>5. FirstOfNamed'
      <3>1. first[s] \notin {"read", "write"}
        BY <1>0, <2>2 DEF FirstOfNamed, Named
      <3> QED BY <1>0, <2>2, <3>1 DEF FirstOfNamed, hubVars
    <2> QED BY <1>0, <2>2, <2>3, <2>4, <2>5 DEF LiveInv, ServesClients, NoSendOnClosed, hubVars
  <1>2. ASSUME NEW s \in Streams, Register(s) PROVE LiveInv'
    <2> DEFINE task == [at |-> "register", stream |-> s]
    <2>1. task \in Tasks /\ task.at = "register" /\ task.stream = s
      BY DEF Tasks
    <2> HIDE DEF task
    <2>2. /\ hub' = task /\ stream' = [stream EXCEPT ![s].at = "loop"] /\ stream[s].at = "register"
          /\ UNCHANGED <<gone, channel, closed, shown, clients, sender, reports, panicked>>
          /\ first' = [first EXCEPT ![s] = IF stream[s].watch = AnyFile THEN "none" ELSE "read"]
      BY <1>2 DEF Register, task, At, Move
    <2>3. /\ stream' \in [Streams -> {[at |-> "none"]} \cup Named] /\ stream'[s].at = "loop"
          /\ stream'[s] \in Named /\ stream'[s].watch = stream[s].watch
          /\ \A q \in Streams : q # s => stream'[q] = stream[q]
      BY <1>0, <2>2, Moved
    <2>4. first' \in [Streams -> {"none", "read", "write", "done"}]
      BY <1>0, <2>2 DEF LiveTypeOK
    <2>5. LiveTypeOK'
      BY <1>0, <2>1, <2>2, <2>3, <2>4 DEF LiveTypeOK
    <2>6. s \notin clients /\ s \notin closed /\ clients \subseteq Streams /\ closed \subseteq Streams
      BY <1>0, <2>2 DEF InTurn, At, LiveTypeOK
    <2>7. InTurn'
      BY <1>0, <2>1, <2>2, <2>3, <2>6 DEF InTurn, At
    <2>8. FirstOfNamed'
      <3>1. stream[s].watch # AnyFile => stream[s].watch \in Watched
        BY <1>0, <2>2 DEF Named
      <3>2. first'[s] = "read" => stream[s].watch # AnyFile
        BY <1>0, <2>2 DEF LiveTypeOK
      <3> QED BY <1>0, <2>2, <2>3, <2>4, <3>1, <3>2 DEF FirstOfNamed, LiveTypeOK
    <2> QED BY <1>0, <2>2, <2>5, <2>7, <2>8 DEF LiveInv, ServesClients, NoSendOnClosed
  <1>3. ASSUME NEW s \in Streams, HangUp(s) PROVE LiveInv'
    <2>1. LiveTypeOK'
      BY <1>0, <1>3 DEF HangUp, LiveTypeOK
    <2> QED BY <1>b, <1>3, <2>1 DEF HangUp, LiveInv
  <1>4. ASSUME NEW s \in Streams, Receive(s) PROVE LiveInv'
    <2>1. InTurn' /\ ServesClients' /\ FirstOfNamed' /\ NoSendOnClosed'
          /\ stream' \in [Streams -> {[at |-> "none"]} \cup Named]
      BY <1>a, <1>4 DEF Receive, Move
    <2>2. channel[s] \in Seq(Watched) /\ channel[s] # <<>>
      BY <1>0, <1>4 DEF Receive, LiveTypeOK
    <2>3. Tail(channel[s]) \in Seq(Watched) /\ Head(channel[s]) \in Watched
      BY <2>2
    <2>4. channel' \in [Streams -> Seq(Watched)] /\ shown' \in [Streams -> SUBSET Watched]
      BY <1>0, <1>4, <2>3 DEF Receive, LiveTypeOK
    <2>5. LiveTypeOK'
      BY <1>0, <1>4, <2>1, <2>4 DEF Receive, LiveTypeOK
    <2> QED BY <2>1, <2>5 DEF LiveInv
  <1>5. ASSUME NEW s \in Streams, Keepalive(s) \/ Written(s) \/ Depart(s) PROVE LiveInv'
    <2>1. InTurn' /\ ServesClients' /\ FirstOfNamed' /\ NoSendOnClosed'
          /\ stream' \in [Streams -> {[at |-> "none"]} \cup Named]
      BY <1>a, <1>5 DEF Keepalive, Written, Depart, hubVars
    <2>2. LiveTypeOK'
      BY <1>0, <1>5, <2>1 DEF Keepalive, Written, Depart, hubVars, LiveTypeOK
    <2> QED BY <2>1, <2>2 DEF LiveInv
  <1>6. ASSUME NEW s \in Streams, Unregister(s) PROVE LiveInv'
    <2> DEFINE task == [at |-> "unregister", stream |-> s]
    <2>1. task \in Tasks /\ task.at = "unregister" /\ task.stream = s
      BY DEF Tasks
    <2> HIDE DEF task
    <2>2. /\ hub' = task /\ stream' = [stream EXCEPT ![s].at = "ended"] /\ stream[s].at = "leave"
          /\ UNCHANGED <<gone, first, channel, closed, shown, clients, sender, reports, panicked>>
      BY <1>6 DEF Unregister, task, At, Move
    <2>3. /\ stream' \in [Streams -> {[at |-> "none"]} \cup Named] /\ stream'[s].at = "ended"
          /\ stream'[s] \in Named /\ stream'[s].watch = stream[s].watch
          /\ \A q \in Streams : q # s => stream'[q] = stream[q]
      BY <1>0, <2>2, Moved
    <2>4. LiveTypeOK'
      BY <1>0, <2>1, <2>2, <2>3 DEF LiveTypeOK
    <2>5. clients \subseteq Streams /\ closed \subseteq Streams
      BY <1>0 DEF LiveTypeOK
    <2>6. InTurn'
      BY <1>0, <2>1, <2>2, <2>3, <2>5 DEF InTurn, At
    <2>7. FirstOfNamed'
      BY <1>0, <2>2, <2>3 DEF FirstOfNamed
    <2> QED BY <1>0, <2>2, <2>4, <2>6, <2>7 DEF LiveInv, ServesClients, NoSendOnClosed
  <1>7. ASSUME NEW s \in Streams, ReadInitialStatus(s) PROVE LiveInv'
    <2>1. LiveTypeOK'
      BY <1>0, <1>7 DEF ReadInitialStatus, LiveTypeOK
    <2>2. \A q \in Streams : first'[q] \in {"read", "write"} => first[q] \in {"read", "write"}
      BY <1>0, <1>7 DEF ReadInitialStatus, LiveTypeOK
    <2> QED BY <1>b, <1>7, <2>1, <2>2 DEF ReadInitialStatus, LiveInv
  <1>8. ASSUME NEW s \in Streams, WriteInitialStatus(s) PROVE LiveInv'
    <2>1. stream[s].watch \in Watched
      BY <1>0, <1>8 DEF WriteInitialStatus, FirstOfNamed
    <2>2. LiveTypeOK'
      BY <1>0, <1>8, <2>1 DEF WriteInitialStatus, LiveTypeOK
    <2>3. \A q \in Streams : first'[q] \in {"read", "write"} => first[q] \in {"read", "write"}
      BY <1>0, <1>8 DEF WriteInitialStatus, LiveTypeOK
    <2> QED BY <1>b, <1>8, <2>2, <2>3 DEF WriteInitialStatus, LiveInv
  <1>9. CASE HubLock
    <2>1. hub \in Tasks /\ hub.stream \in Streams /\ hub.at \in {"register", "unregister"}
      BY <1>0, <1>9 DEF HubLock, Tasks
    <2>2. /\ hub' = Selecting /\ UNCHANGED <<stream, gone, first, channel, shown, sender, reports, panicked>>
          /\ \A b \in Senders : sender[b] = Quiet
      BY <1>9 DEF HubLock, NoReader
    <2>3. clients' \subseteq Streams /\ closed' \subseteq Streams
      BY <1>0, <1>9, <2>1 DEF HubLock, LiveTypeOK
    <2>4. LiveTypeOK'
      BY <1>0, <2>2, <2>3 DEF LiveTypeOK
    <2>5. InTurn'
      BY <1>0, <1>9, <2>1, <2>2 DEF HubLock, InTurn, At
    <2> QED BY <1>0, <2>2, <2>4, <2>5 DEF LiveInv, ServesClients, FirstOfNamed, NoSendOnClosed
  <1>10. ASSUME NEW b \in Senders, NEW f \in Watched, Broadcast(b, f) PROVE LiveInv'
    <2> DEFINE new == [at |-> "send", file |-> f, left |-> clients]
    <2>1. new \in Sends /\ new.left = clients
      BY <1>0 DEF Sends, LiveTypeOK
    <2> HIDE DEF new
    <2>2. /\ sender' = [sender EXCEPT ![b] = new] /\ reports' = reports + 1
          /\ UNCHANGED <<stream, gone, first, channel, closed, shown, hub, clients, panicked>>
      BY <1>10 DEF Broadcast, new
    <2>3. LiveTypeOK'
      BY <1>0, <2>1, <2>2 DEF LiveTypeOK
    <2>4. ServesClients'
      BY <1>0, <2>1, <2>2 DEF ServesClients, LiveTypeOK
    <2> QED BY <1>0, <2>2, <2>3, <2>4 DEF LiveInv, InTurn, At, FirstOfNamed, NoSendOnClosed
  <1>11. ASSUME NEW b \in Senders, NEW s \in Streams, SendTo(b, s) PROVE LiveInv'
    <2>1. sender[b] \in Sends /\ s \in sender[b].left /\ sender[b].file \in Watched
      BY <1>0, <1>11 DEF SendTo, Sends
    <2>2. s \in clients /\ s \notin closed
      BY <1>0, <1>11, <2>1 DEF ServesClients, InTurn, SendTo
    <2>3. panicked' = panicked
      BY <1>0, <1>11, <2>2 DEF SendTo, LiveTypeOK
    <2> DEFINE new == [sender[b] EXCEPT !.left = @ \ {s}]
    <2>4. new \in Sends /\ new.left = sender[b].left \ {s}
      BY <2>1 DEF Sends
    <2>5. sender' = [sender EXCEPT ![b] = new]
      BY <1>11 DEF SendTo
    <2> HIDE DEF new
    <2>6. channel' \in [Streams -> Seq(Watched)]
      <3>1. channel[s] \in Seq(Watched) /\ channel \in [Streams -> Seq(Watched)]
        BY <1>0 DEF LiveTypeOK
      <3>2. Append(channel[s], sender[b].file) \in Seq(Watched)
        BY <2>1, <3>1
      <3> QED BY <1>11, <3>1, <3>2 DEF SendTo, Put
    <2>7. UNCHANGED <<stream, gone, first, closed, shown, hub, clients, reports>>
      BY <1>11 DEF SendTo
    <2>8. LiveTypeOK'
      BY <1>0, <2>3, <2>4, <2>5, <2>6, <2>7 DEF LiveTypeOK
    <2>9. ServesClients'
      <3>1. sender[b].left \subseteq clients /\ sender \in [Senders -> {Quiet} \cup Sends]
        BY <1>0, <1>11 DEF ServesClients, SendTo, LiveTypeOK
      <3> QED BY <1>0, <2>4, <2>5, <2>7, <3>1 DEF ServesClients
    <2> QED BY <1>0, <2>3, <2>7, <2>8, <2>9 DEF LiveInv, InTurn, At, FirstOfNamed, NoSendOnClosed
  <1>12. ASSUME NEW b \in Senders, EndBroadcast(b) PROVE LiveInv'
    <2>1. LiveTypeOK'
      BY <1>0, <1>12 DEF EndBroadcast, LiveTypeOK
    <2>2. ServesClients'
      BY <1>0, <1>12 DEF EndBroadcast, ServesClients, LiveTypeOK
    <2> QED BY <1>0, <1>12, <2>1, <2>2 DEF EndBroadcast, LiveInv, InTurn, At, FirstOfNamed, NoSendOnClosed
  <1>13. CASE UNCHANGED liveVars
    <2>1. LiveTypeOK'
      BY <1>0, <1>13 DEF liveVars, hubVars, LiveTypeOK
    <2> QED BY <1>b, <1>13, <2>1 DEF liveVars, hubVars, LiveInv
  <1> QED
    BY <1>1, <1>2, <1>3, <1>4, <1>5, <1>6, <1>7, <1>8, <1>9, <1>10, <1>11, <1>12, <1>13
       DEF LiveNext, Serve, Send

(* Nobody sends on the channel of a stream that has left, whatever the     *)
(* order in which streams, the hub and senders run.                        *)
THEOREM NobodySendsOnClosed == LiveSpec => []NoSendOnClosed
  <1>1. LiveInit => LiveInv
    <2> SUFFICES ASSUME LiveInit PROVE LiveInv
      OBVIOUS
    <2>1. channel \in [Streams -> Seq(Watched)]
      <3>1. <<>> \in Seq(Watched)
        OBVIOUS
      <3> QED BY <3>1 DEF LiveInit
    <2>2. LiveTypeOK
      BY <2>1 DEF LiveInit, LiveTypeOK
    <2>3. hub.at = "select"
      BY DEF LiveInit, Selecting
    <2> QED
      BY <2>2, <2>3 DEF LiveInit, LiveInv, InTurn, ServesClients, FirstOfNamed, NoSendOnClosed
  <1>2. LiveInv /\ [LiveNext]_liveVars => LiveInv'
    BY LiveStep
  <1>3. LiveInv => NoSendOnClosed
    BY DEF LiveInv
  <1> QED
    BY <1>1, <1>2, <1>3, PTL DEF LiveSpec
==============================================================================
