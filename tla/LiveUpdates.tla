---------------------------- MODULE LiveUpdates ----------------------------
(***************************************************************************)
(* Server-sent events.  The streams of a user register with a hub, which   *)
(* alone adds them to and takes them from its list, under a lock; senders  *)
(* hold that lock for reading while they put a message into the channels   *)
(* of the streams it is for.                                               *)
(***************************************************************************)
EXTENDS Naturals, Sequences

CONSTANTS Streams,     \* requests for the events of files
          Senders,     \* goroutines that report a status
          Watched,     \* files of the user
          AnyFile,     \* no file_id in the query: every file
          Buffer,      \* messages a channel holds (10)
          HubStarted,  \* StartSSEHub was called
          MaxMessages  \* bound: reports

ASSUME LiveAssumption == /\ AnyFile \notin Watched /\ HubStarted \in BOOLEAN
                         /\ Buffer \in Nat \ {0}

VARIABLES
  stream,   \* per stream: where its handler is, the file in the path of the
            \* request, file_id, and the message it writes
  gone,     \* streams whose client has hung up
  first,    \* per stream: the goroutine that writes the initial status
  channel,  \* per stream: its channel
  closed,   \* streams whose channel is closed
  shown,    \* per stream: files it had an event of
  hub,      \* where the goroutine of the hub is
  clients,  \* streams in its list
  sender,   \* per sender: the file of its report, the streams still to serve
  reports,  \* reports so far
  panicked  \* somebody sent on a closed channel

hubVars == <<gone, first, channel, closed, shown, hub, clients, sender, reports, panicked>>
liveVars == <<stream, hubVars>>

Selecting == [at |-> "select"]
Quiet == [at |-> "quiet"]

LiveInit ==
  /\ stream = [s \in Streams |-> [at |-> "none"]]
  /\ gone = {} /\ closed = {} /\ clients = {}
  /\ first = [s \in Streams |-> "none"]
  /\ channel = [s \in Streams |-> <<>>]
  /\ shown = [s \in Streams |-> {}]
  /\ hub = Selecting
  /\ sender = [b \in Senders |-> Quiet]
  /\ reports = 0 /\ panicked = FALSE

At(s, where) == stream[s].at = where
Move(s, where) == stream' = [stream EXCEPT ![s].at = where]

----------------------------------------------------------------------------
(* FileStatusSSEHandler.                                                   *)

Connect(s, named, watch) ==
  /\ At(s, "none")
  /\ stream' = [stream EXCEPT ![s] = [at |-> "register", named |-> named, watch |-> watch]]
  /\ UNCHANGED hubVars

\* The hub takes the client off the unbuffered channel and waits for its lock.
\* Until then the handler waits, without an eye on its request.
Register(s) ==
  /\ HubStarted /\ hub = Selecting /\ At(s, "register")
  /\ hub' = [at |-> "register", stream |-> s]
  /\ Move(s, "loop")
  /\ first' = [first EXCEPT ![s] = IF stream[s].watch = AnyFile THEN "none" ELSE "read"]
  /\ UNCHANGED <<gone, channel, closed, shown, clients, sender, reports, panicked>>

HangUp(s) ==
  /\ stream[s].at \in {"register", "loop", "write"} /\ s \notin gone
  /\ gone' = gone \cup {s}
  /\ UNCHANGED <<stream, first, channel, closed, shown, hub, clients, sender, reports,
                 panicked>>

Receive(s) ==
  /\ At(s, "loop") /\ channel[s] # <<>>
  /\ stream' = [stream EXCEPT ![s].at = "write"]
  /\ channel' = [channel EXCEPT ![s] = Tail(@)]
  /\ shown' = [shown EXCEPT ![s] = @ \cup {Head(channel[s])}]
  /\ UNCHANGED <<gone, first, closed, hub, clients, sender, reports, panicked>>

\* A message or a keepalive is written.
Keepalive(s) ==
  /\ At(s, "loop") /\ Move(s, "write") /\ UNCHANGED hubVars
Written(s) ==
  /\ At(s, "write") /\ Move(s, "loop") /\ UNCHANGED hubVars

Depart(s) ==
  /\ At(s, "loop") /\ s \in gone
  /\ Move(s, "leave")
  /\ UNCHANGED hubVars

Unregister(s) ==
  /\ HubStarted /\ hub = Selecting /\ At(s, "leave")
  /\ hub' = [at |-> "unregister", stream |-> s]
  /\ Move(s, "ended")
  /\ UNCHANGED <<gone, first, channel, closed, shown, clients, sender, reports, panicked>>

\* sendInitialFileStatus: the row is read with the context of the request,
\* what was read is written whatever has become of it.
ReadInitialStatus(s) ==
  /\ first[s] = "read"
  /\ first' = [first EXCEPT ![s] = IF At(s, "ended") \/ s \in gone THEN "done" ELSE "write"]
  /\ UNCHANGED <<stream, gone, channel, closed, shown, hub, clients, sender, reports,
                 panicked>>

WriteInitialStatus(s) ==
  /\ first[s] = "write"
  /\ first' = [first EXCEPT ![s] = "done"]
  /\ shown' = [shown EXCEPT ![s] = @ \cup {stream[s].watch}]
  /\ UNCHANGED <<stream, gone, channel, closed, hub, clients, sender, reports, panicked>>

----------------------------------------------------------------------------
(* The hub and the senders.                                                *)

\* A faulty variant, for the checks: senders work on a copy of the list.
ListCopied == TRUE

NoReader == \A b \in Senders : sender[b] = Quiet

HubLock ==
  /\ hub # Selecting /\ NoReader
  /\ hub' = Selecting
  /\ IF hub.at = "register"
     THEN clients' = clients \cup {hub.stream} /\ UNCHANGED closed
     ELSE /\ clients' = clients \ {hub.stream}
          /\ closed' = closed \cup (clients \cap {hub.stream})
  /\ UNCHANGED <<stream, gone, first, channel, shown, sender, reports, panicked>>

\* A waiting writer keeps new readers out.
Broadcast(b, f) ==
  /\ sender[b] = Quiet /\ hub = Selecting /\ reports < MaxMessages
  /\ reports' = reports + 1
  /\ sender' = [sender EXCEPT ![b] = [at |-> "send", file |-> f, left |-> clients]]
  /\ UNCHANGED <<stream, gone, first, channel, closed, shown, hub, clients, panicked>>

Wants(s, f) == stream[s].watch \in {AnyFile, f}

\* The message is skipped if the channel is full.
Put(s, f) ==
  channel' = IF Wants(s, f) /\ Len(channel[s]) < Buffer
             THEN [channel EXCEPT ![s] = Append(@, f)] ELSE channel

SendTo(b, s) ==
  /\ sender[b] # Quiet /\ s \in sender[b].left
  /\ Put(s, sender[b].file)
  /\ panicked' = (panicked \/ (s \in closed /\ Wants(s, sender[b].file)))
  /\ sender' = [sender EXCEPT ![b].left = @ \ {s}]
  /\ UNCHANGED <<stream, gone, first, closed, shown, hub, clients, reports>>

EndBroadcast(b) ==
  /\ sender[b] # Quiet /\ sender[b].left = {}
  /\ sender' = [sender EXCEPT ![b] = Quiet]
  /\ UNCHANGED <<stream, gone, first, channel, closed, shown, hub, clients, reports,
                 panicked>>

----------------------------------------------------------------------------
Serve(s) == Receive(s) \/ Written(s) \/ ReadInitialStatus(s) \/ WriteInitialStatus(s)
Send(b) == (\E s \in Streams : SendTo(b, s)) \/ EndBroadcast(b)

LiveNext ==
  \/ \E s \in Streams : \/ \E n \in Watched, w \in {AnyFile} \cup Watched : Connect(s, n, w)
                        \/ Register(s) \/ HangUp(s) \/ Keepalive(s) \/ Serve(s)
                        \/ Depart(s) \/ Unregister(s)
  \/ HubLock
  \/ \E b \in Senders : Send(b) \/ \E f \in Watched : Broadcast(b, f)

\* Goroutines run on, the ticker ticks, and a select takes every case that is
\* ready again and again: Go picks one of them at random.
LiveFairness ==
  /\ \A s \in Streams : /\ WF_liveVars(Serve(s))
                        /\ SF_liveVars(Depart(s))
                        /\ SF_liveVars(Register(s)) /\ SF_liveVars(Unregister(s))
  /\ WF_liveVars(HubLock)
  /\ \A b \in Senders : WF_liveVars(Send(b))

LiveSpec == LiveInit /\ [][LiveNext]_liveVars /\ LiveFairness

----------------------------------------------------------------------------
(* Properties.                                                             *)

\* A stream whose client has hung up ends and leaves the list of the hub.  It
\* is refuted as the binaries are, without the hub (HubStarted = FALSE): the
\* stream waits in its registration for ever.
StreamsEnd == \A s \in Streams : s \in gone ~> At(s, "ended") /\ s \notin clients

\* Nobody sends on the channel of a stream that has left: that would end the
\* process, and every other request with it.
NoSendOnClosed == ~panicked

\* "real-time file updates" of the file in the path (docs/API.md).
StreamsNamedFile == \A s \in Streams : shown[s] # {} => shown[s] \subseteq {stream[s].named}

\* A response has one writer, and none once its handler has returned.
OneWriter == \A s \in Streams : first[s] = "write" => ~(At(s, "write") \/ At(s, "ended"))
============================================================================
