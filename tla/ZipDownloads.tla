--------------------------- MODULE ZipDownloads ---------------------------
(***************************************************************************)
(* Bulk downloads of one user: a request counts the user's pending rows,   *)
(* inserts a row and queues a message; the worker collects the files into  *)
(* an archive, stores it and completes the row.  A row is written by the   *)
(* API and by every delivery of its message.                               *)
(***************************************************************************)
EXTENDS Naturals, FiniteSets, Sequences

CONSTANTS
  Zips,            \* rows of zip_downloads
  Clients,         \* the user's requests that run side by side
  Asks,            \* the sets of file ids that are asked for
  OwnFiles,        \* the files of the user
  EntryOf,         \* [file -> <<name, the numbers after it>>]
  MaxZipPending,   \* 3 in the code
  MaxDeliveries,   \* deliveries before the broker gives a message up
  MaxZipFaults     \* failed statements, calls and crashes: a bound

ASSUME ZipAssumption ==
  /\ IsFiniteSet(Clients)
  /\ MaxZipPending \in Nat \ {0}
  /\ MaxDeliveries \in Nat \ {0}
  /\ MaxZipFaults \in Nat
  /\ Asks \subseteq SUBSET DOMAIN EntryOf \ {{}}

VARIABLES
  zip,         \* [row -> status, the files asked for, whether the count was read,
               \*  whether it has a link]
  client,      \* [client -> idle, or what it is about to insert or queue]
  message,     \* [row -> where the worker is with its message, the files, deliveries]
  archive,     \* [row -> the files in the stored object, and their entries]
  binned,      \* files in the trash
  zipFaults

zipVars == <<zip, client, message, archive, binned, zipFaults>>

ZipInit ==
  /\ zip = [z \in Zips |-> [status |-> "none", files |-> {}, counted |-> FALSE, link |-> FALSE]]
  /\ client = [c \in Clients |-> [at |-> "idle"]]
  /\ message = [z \in Zips |-> [at |-> "none", files |-> {}, deliveries |-> 0]]
  /\ archive = [z \in Zips |-> [files |-> {}, entries |-> {}]]
  /\ binned = {}
  /\ zipFaults = 0

ZipFault == zipFaults < MaxZipFaults /\ zipFaults' = zipFaults + 1

----------------------------------------------------------------------------
(* The API.                                                                *)

\* Mutant: rows that the worker has begun are not counted.
CountQueued == {z \in Zips : zip[z].status = "pending"}

CountPendingZipDownloadsByUser == {z \in Zips : zip[z].status \in {"pending", "running"}}

\* Too many pending rows refuse the request; a failed count does not.
CountPending(c, files) ==
  /\ client[c].at = "idle"
  /\ \/ /\ Cardinality(CountPendingZipDownloadsByUser) < MaxZipPending
        /\ client' = [client EXCEPT ![c] = [at |-> "insert", files |-> files, counted |-> TRUE]]
        /\ UNCHANGED zipFaults
     \/ /\ ZipFault
        /\ client' = [client EXCEPT ![c] = [at |-> "insert", files |-> files, counted |-> FALSE]]
  /\ UNCHANGED <<zip, message, archive, binned>>

NextRow == CHOOSE z \in Zips : zip[z].status = "none"

CreateZipDownload(c, z) ==
  /\ client[c].at = "insert"
  /\ zip[z].status = "none" /\ z = NextRow
  /\ zip' = [zip EXCEPT ![z] = [status |-> "pending", files |-> client[c].files,
                                counted |-> client[c].counted, link |-> FALSE]]
  /\ client' = [client EXCEPT ![c] = [at |-> "queue", row |-> z]]
  /\ UNCHANGED <<message, archive, binned, zipFaults>>

\* A message that cannot be queued leaves its row pending.
QueueZip(c) ==
  /\ client[c].at = "queue"
  /\ \/ /\ message' = [message EXCEPT ![client[c].row].at = "queued"]
        /\ UNCHANGED zipFaults
     \/ ZipFault /\ UNCHANGED message
  /\ client' = [client EXCEPT ![c] = [at |-> "idle"]]
  /\ UNCHANGED <<zip, archive, binned>>

\* The user deletes a file of his.
BinFile(f) ==
  /\ f \notin binned
  /\ binned' = binned \cup {f}
  /\ UNCHANGED <<zip, client, message, archive, zipFaults>>

----------------------------------------------------------------------------
(* The worker.                                                             *)

StartZip(z) ==
  /\ message[z].at = "queued"
  /\ message' = [message EXCEPT ![z].at = "started", ![z].deliveries = @ + 1]
  /\ \/ zip' = [zip EXCEPT ![z].status = "running"] /\ UNCHANGED zipFaults
     \/ ZipFault /\ UNCHANGED zip
  /\ UNCHANGED <<client, archive, binned>>

GetFilesByIDs(ids) == ids \ binned
Valid(files) == files \cap OwnFiles

\* Writing the failure may fail as well, which nobody looks at.
UpdateZipDownloadFailed(z) ==
  \/ zip' = [zip EXCEPT ![z].status = "failed"] /\ UNCHANGED zipFaults
  \/ ZipFault /\ UNCHANGED zip

\* Nothing left to archive: the message is given up.
NothingToZip(z) ==
  /\ message[z].at = "started"
  /\ Valid(GetFilesByIDs(zip[z].files)) = {}
  /\ UpdateZipDownloadFailed(z)
  /\ message' = [message EXCEPT ![z].at = "dead"]
  /\ UNCHANGED <<client, archive, binned>>

CollectFiles(z) ==
  /\ message[z].at = "started"
  /\ Valid(GetFilesByIDs(zip[z].files)) # {}
  /\ message' = [message EXCEPT ![z].at = "collected",
                                ![z].files = Valid(GetFilesByIDs(zip[z].files))]
  /\ UNCHANGED <<zip, client, archive, binned, zipFaults>>

\* The i-th file of order gets a number after its name when files of the same
\* name came before it.
EntryAt(order, i) ==
  LET name == EntryOf[order[i]]
      count == Cardinality({j \in 1 .. i - 1 : EntryOf[order[j]] = name})
  IN IF count = 0 THEN name ELSE <<name[1], Append(name[2], count + 1)>>

\* The order of the rows is the database's.
Orders(S) == {o \in [1 .. Cardinality(S) -> S] : \A i, j \in DOMAIN o : o[i] = o[j] => i = j}

\* Files that cannot be read are skipped; the archive is uploaded.
StoreArchive(z) ==
  /\ message[z].at = "collected"
  /\ \E added \in SUBSET message[z].files :
       /\ IF added = message[z].files THEN UNCHANGED zipFaults ELSE ZipFault
       /\ \E order \in Orders(added) :
            archive' = [archive EXCEPT ![z] =
              [files |-> added, entries |-> {EntryAt(order, i) : i \in DOMAIN order}]]
  /\ message' = [message EXCEPT ![z].at = "stored"]
  /\ UNCHANGED <<zip, client, binned>>

UpdateZipDownloadCompleted(z) ==
  /\ message[z].at = "stored"
  /\ zip' = [zip EXCEPT ![z].status = "completed", ![z].link = TRUE]
  /\ message' = [message EXCEPT ![z].at = "done"]
  /\ UNCHANGED <<client, archive, binned, zipFaults>>

Held(z) == message[z].at \in {"started", "collected", "stored"}

\* A step fails: the row fails at once, although the message may come back.
\* Only a failed completion leaves the row as it is.
StepFails(z) ==
  /\ Held(z)
  /\ ZipFault
  /\ \/ zip' = [zip EXCEPT ![z].status = "failed"]
     \/ message[z].at = "stored" /\ UNCHANGED zip
  /\ message' = [message EXCEPT ![z].at =
                   IF message[z].deliveries < MaxDeliveries THEN "queued" ELSE "dead"]
  /\ UNCHANGED <<client, archive, binned>>

\* The worker dies before it acknowledged the message: it comes again.
WorkerDies(z) ==
  /\ Held(z) \/ message[z].at = "done"
  /\ ZipFault
  /\ message' = [message EXCEPT ![z].at = "queued"]
  /\ UNCHANGED <<zip, client, archive, binned>>

----------------------------------------------------------------------------
(* What the API answers.                                                   *)

GetBulkDownload(z) ==
  [status |-> zip[z].status, fileCount |-> Cardinality(zip[z].files), link |-> zip[z].link]

ListZipDownloadsByUser == {z \in Zips : zip[z].status # "none"}
ListBulkDownloads == [z \in ListZipDownloadsByUser |-> GetBulkDownload(z)]

----------------------------------------------------------------------------

ZipNext ==
  \/ \E c \in Clients :
       \/ \E files \in Asks : CountPending(c, files)
       \/ \E z \in Zips : CreateZipDownload(c, z)
       \/ QueueZip(c)
  \/ \E f \in OwnFiles : BinFile(f)
  \/ \E z \in Zips :
       \/ StartZip(z) \/ NothingToZip(z) \/ CollectFiles(z) \/ StoreArchive(z)
       \/ UpdateZipDownloadCompleted(z) \/ StepFails(z) \/ WorkerDies(z)

ZipSpec == ZipInit /\ [][ZipNext]_zipVars

----------------------------------------------------------------------------
(* Properties.                                                             *)

\* Requests side by side may all read the same count, so a user has at most one
\* unfinished download per request more than the limit leaves room for; rows
\* whose count could not be read, or that came back from failed, are apart.
PendingBounded ==
  Cardinality({z \in Zips : zip[z].status \in {"pending", "running"}
                           /\ zip[z].counted /\ message[z].deliveries <= 1})
    <= MaxZipPending - 1 + Cardinality(Clients)

\* No user has more unfinished downloads than the limit (docs/API.md: "max 3
\* concurrent").
MaxConcurrent ==
  Cardinality({z \in Zips : GetBulkDownload(z).status \in {"pending", "running"}})
    <= MaxZipPending

\* Only a completed download has a link, as the status values of the docs have it.
LinkMeansReady ==
  \A z \in DOMAIN ListBulkDownloads :
    ListBulkDownloads[z].link => ListBulkDownloads[z].status = "completed"

\* A completed archive holds as many entries as the row has files.
ArchiveComplete ==
  \A z \in Zips : zip[z].status = "completed"
                  => Cardinality(archive[z].entries) = GetBulkDownload(z).fileCount

\* Files of the same name get entries of their own ("Handle duplicate filenames").
EntriesDistinct ==
  \A z \in Zips : Cardinality(archive[z].entries) = Cardinality(archive[z].files)
============================================================================
