---------------------------- MODULE FileLibrary ----------------------------
(***************************************************************************)
(* The files of one user: rows of the table files, original objects in     *)
(* storage, and everything that creates and deletes them.  Uploads check   *)
(* the plan's limit, store an object and insert a row, in that order.      *)
(* Owners delete single files (the row only) or a selection (objects and   *)
(* row).  The cleanup program purges what was deleted long ago and deletes *)
(* what is older than the owner's retention setting.  Every storage and    *)
(* database call is a step and may fail; processes may stop between calls. *)
(*                                                                         *)
(* Left out: variants (see JobLifecycle), names, sizes and types.          *)
(***************************************************************************)
EXTENDS Naturals, FiniteSets

CONSTANTS Files,        \* identifiers the uploads generate, each used once
          NoFile,       \* not a file
          Slots,        \* files that can be in upload at the same time
          FilesLimit,   \* files_limit of the owner's plan
          BatchSize,    \* rows the cleanup lists at a time (100)
          TrashDays,    \* how long deleted rows are kept (7)
          Retentions,   \* retention settings in days, 0 is "Never delete"
          MaxAge,       \* bound: days after which ages no longer matter
          MaxFailures   \* bound: failed calls and stopped processes

ASSUME ConstantsAssumption ==
  /\ IsFiniteSet(Files) /\ NoFile \notin Files
  /\ IsFiniteSet(Slots)
  /\ FilesLimit \in Nat \ {0} /\ BatchSize \in Nat \ {0}
  /\ TrashDays \in Nat /\ MaxAge \in Nat /\ TrashDays <= MaxAge
  /\ Retentions \subseteq 0 .. MaxAge
  /\ MaxFailures \in Nat

VARIABLES
  row,       \* "none", "live", "deleted" (deleted_at is set), "purged"
  age,       \* days since created_at, or since deleted_at
  original,  \* files whose original object is in storage
  emptied,   \* files whose storage_key was cleared by a video job
  unmarked,  \* live files whose original such a job removed: the key is next
  retention, \* default_retention_days, NoSetting without a settings row
  upload,    \* per slot: "idle", "put" (object next), "insert" (row next)
  uploading, \* per slot: its file
  pass,      \* cleanup: "off", "trash" or "retention"
  more,      \* cleanup: the pass lists again
  batch,     \* cleanup: files of the batch that are still to do
  item,      \* cleanup: file whose object was handled, its row is next
  erasing,   \* batch delete: its file
  erase,     \* batch delete: "idle", "object" or "row" next
  unchecked, \* history: files let in without a count
  doomed,    \* history: live files selected for deletion or past retention
  stray,     \* history: objects a failed or interrupted step left behind
  failures   \* history: failed calls and stopped processes

uploads == <<upload, uploading, unchecked>>
cleanup == <<pass, more, batch, item>>
eraser == <<erasing, erase>>
vars == <<row, age, original, emptied, unmarked, retention, uploads, cleanup,
          eraser, doomed, stray, failures>>

NoSetting == MaxAge + 1

\* Every variable stays within its range.
TypeOK ==
  /\ row \in [Files -> {"none", "live", "deleted", "purged"}]
  /\ age \in [Files -> 0 .. MaxAge]
  /\ original \in SUBSET Files
  /\ emptied \in SUBSET Files
  /\ unmarked \in SUBSET Files
  /\ retention \in Retentions \cup {NoSetting}
  /\ upload \in [Slots -> {"idle", "put", "insert"}]
  /\ uploading \in [Slots -> Files \cup {NoFile}]
  /\ pass \in {"off", "trash", "retention"}
  /\ more \in BOOLEAN
  /\ batch \in SUBSET Files
  /\ item \in Files \cup {NoFile}
  /\ erasing \in Files \cup {NoFile}
  /\ erase \in {"idle", "object", "row"}
  /\ unchecked \in Nat
  /\ doomed \in SUBSET Files
  /\ stray \in SUBSET Files
  /\ failures \in 0 .. MaxFailures

Init ==
  /\ row = [f \in Files |-> "none"]
  /\ age = [f \in Files |-> 0]
  /\ original = {} /\ emptied = {} /\ unmarked = {}
  /\ retention = NoSetting
  /\ upload = [s \in Slots |-> "idle"]
  /\ uploading = [s \in Slots |-> NoFile]
  /\ pass = "off" /\ more = FALSE /\ batch = {} /\ item = NoFile
  /\ erasing = NoFile /\ erase = "idle"
  /\ unchecked = 0
  /\ doomed = {} /\ stray = {}
  /\ failures = 0

Live == {f \in Files : row[f] = "live"}
Trash == {f \in Files : row[f] = "deleted"}
Busy == {s \in Slots : upload[s] # "idle"}
InUpload == {uploading[s] : s \in Busy}
Fresh == {f \in Files : row[f] = "none"} \ (InUpload \cup original)

\* A call that fails: the only trace is what it did not do.
Fails ==
  /\ failures < MaxFailures
  /\ failures' = failures + 1

-----------------------------------------------------------------------------
(* uploadHandler (one file) and UploadFileAPI (the files of a form, here   *)
(* in any order).  The limit is checked once, before the body is read.     *)

\* Identifiers are random and differ; which of the fresh ones they are matters
\* to nothing, so the model fixes the choice.
Placings(seats) ==
  {place \in [seats -> Fresh] : \A s, t \in seats : place[s] = place[t] => s = t}

Seat(seats) ==
  /\ Placings(seats) # {}
  /\ LET place == CHOOSE p \in Placings(seats) : TRUE
     IN  /\ upload' = [s \in Slots |-> IF s \in seats THEN "put" ELSE upload[s]]
         /\ uploading' = [s \in Slots |-> IF s \in seats THEN place[s]
                                                        ELSE uploading[s]]

\* Mutant: off by one.
UpToLimit == Cardinality(Live) <= FilesLimit

UnderLimit == Cardinality(Live) < FilesLimit

Admit(seats) ==
  /\ UnderLimit
  /\ Seat(seats)
  /\ UNCHANGED <<row, age, original, emptied, retention, cleanup, eraser,
                 unchecked, doomed, unmarked, stray, failures>>

\* Both handlers take a failed count for an empty library.
AdmitUncounted(seats) ==
  /\ Fails
  /\ unchecked' = unchecked + Cardinality(seats)
  /\ Seat(seats)
  /\ UNCHANGED <<row, age, original, emptied, retention, cleanup, eraser,
                 doomed, unmarked, stray>>

Leave(s) ==
  /\ upload' = [upload EXCEPT ![s] = "idle"]
  /\ uploading' = [uploading EXCEPT ![s] = NoFile]
  /\ UNCHANGED unchecked

\* Mutant: a failed put is logged and the row is inserted all the same.
PutRegardless(s) ==
  /\ upload[s] = "put"
  /\ \/ original' = original \cup {uploading[s]} /\ UNCHANGED failures
     \/ Fails /\ UNCHANGED original
  /\ upload' = [upload EXCEPT ![s] = "insert"]
  /\ UNCHANGED <<row, age, emptied, retention, uploading, unchecked, cleanup,
                 eraser, doomed, unmarked, stray>>

\* A call that reports an error may have stored the object.
PutObject(s) ==
  /\ upload[s] = "put"
  /\ \/ /\ original' = original \cup {uploading[s]}
        /\ upload' = [upload EXCEPT ![s] = "insert"]
        /\ UNCHANGED <<uploading, unchecked, failures>>
        /\ UNCHANGED stray
     \/ /\ Fails
        /\ Leave(s)
        /\ \/ UNCHANGED <<original, stray>>
           \/ /\ original' = original \cup {uploading[s]}
              /\ stray' = stray \cup {uploading[s]}
  /\ UNCHANGED <<row, age, emptied, unmarked, retention, cleanup, eraser, doomed>>

\* Nothing removes the object when the insert fails.
CreateFile(s) ==
  /\ upload[s] = "insert"
  /\ \/ /\ row' = [row EXCEPT ![uploading[s]] = "live"]
        /\ age' = [age EXCEPT ![uploading[s]] = 0]
        /\ UNCHANGED <<stray, failures>>
     \/ /\ Fails
        /\ stray' = stray \cup {uploading[s]}
        /\ UNCHANGED <<row, age>>
  /\ Leave(s)
  /\ UNCHANGED <<original, emptied, unmarked, retention, cleanup, eraser, doomed>>

-----------------------------------------------------------------------------
(* The owner                                                               *)

\* SettingsFiles: the value of the form goes to the settings row as it is.
SaveFileSettings(days) ==
  /\ retention' = days
  /\ UNCHANGED <<row, age, original, emptied, uploads, cleanup, eraser,
                 doomed, unmarked, stray, failures>>

SoftDelete(f) ==
  IF row[f] = "live"
  THEN /\ row' = [row EXCEPT ![f] = "deleted"]
       /\ age' = [age EXCEPT ![f] = 0]
       /\ doomed' = doomed \ {f}
       /\ unmarked' = unmarked \ {f}
  ELSE UNCHANGED <<row, age, doomed, unmarked>>

\* deleteHandler and DeleteFile: objects and variants are left to the cleanup.
DeleteFile(f) ==
  /\ row[f] = "live"
  /\ SoftDelete(f)
  /\ UNCHANGED <<original, emptied, retention, uploads, cleanup, eraser, stray,
                 failures>>

\* BatchDeleteFiles, one file of the selection after the other.
BeginErase(f) ==
  /\ erase = "idle"
  /\ row[f] = "live"
  /\ erasing' = f
  /\ erase' = "object"
  /\ doomed' = doomed \cup {f}
  /\ UNCHANGED <<row, age, original, emptied, unmarked, retention, uploads,
                 cleanup, stray, failures>>

\* The result of the storage call is not looked at.
EraseObject ==
  /\ erase = "object"
  /\ erase' = "row"
  /\ \/ /\ original' = original \ {erasing}
        /\ stray' = stray \ {erasing}
        /\ UNCHANGED failures
     \/ Fails /\ UNCHANGED <<original, stray>>
  /\ UNCHANGED <<row, age, emptied, retention, uploads, cleanup, erasing,
                 doomed, unmarked>>

EraseRow ==
  /\ erase = "row"
  /\ erase' = "idle"
  /\ erasing' = NoFile
  /\ \/ SoftDelete(erasing) /\ UNCHANGED failures
     \/ Fails /\ UNCHANGED <<row, age, doomed, unmarked>>
  /\ UNCHANGED <<original, emptied, retention, uploads, cleanup, stray>>

\* A video job with "auto-delete processed originals": the object goes first,
\* whether or not its owner has deleted the file since the job read the row.
\* A storage call that reports an error may have removed the object as well.
DropOriginal(f) ==
  /\ row[f] \in {"live", "deleted"}
  /\ f \notin emptied
  /\ original' = original \ {f}
  /\ stray' = stray \ {f}
  /\ unmarked' = IF row[f] = "live" THEN unmarked \cup {f} ELSE unmarked
  /\ UNCHANGED <<row, age, emptied, retention, uploads, cleanup, eraser, doomed,
                 failures>>

\* Then its key is cleared in a live row.  The update may fail, which is only
\* logged, and the worker may stop before it: then this step never comes.
MarkOriginalDeleted(f) ==
  /\ f \in unmarked
  /\ emptied' = emptied \cup {f}
  /\ unmarked' = unmarked \ {f}
  /\ UNCHANGED <<row, age, original, retention, uploads, cleanup, eraser,
                 doomed, stray, failures>>

-----------------------------------------------------------------------------
(* RunCleanup: the trash pass, then the retention pass, in batches.        *)

StartCleanup ==
  /\ pass = "off"
  /\ pass' = "trash"
  /\ more' = TRUE
  /\ UNCHANGED <<row, age, original, emptied, retention, uploads, batch, item,
                 eraser, doomed, unmarked, stray, failures>>

\* Mutant: the query forgets how long ago the row was deleted.
WholeTrash == Trash

ExpiredTrash == {f \in Trash : age[f] >= TrashDays}

\* No row is joined without a settings row; 0 days is a number of days.
PastRetention ==
  {f \in Live : retention # NoSetting /\ age[f] >= retention}

Listed == IF pass = "trash" THEN ExpiredTrash ELSE PastRetention

BatchDone == batch = {} /\ item = NoFile

ListBatch ==
  /\ pass # "off" /\ more /\ BatchDone
  /\ \/ \E files \in SUBSET Listed :
          /\ \/ Cardinality(files) = BatchSize
             \/ files = Listed /\ Cardinality(files) < BatchSize
          /\ batch' = files
          /\ more' = (Cardinality(files) = BatchSize)
          /\ doomed' = IF pass = "retention" THEN doomed \cup files ELSE doomed
          /\ UNCHANGED failures
     \/ /\ Fails
        /\ more' = FALSE
        /\ UNCHANGED <<batch, doomed>>
  /\ UNCHANGED <<row, age, original, emptied, unmarked, retention, uploads,
                 pass, item, eraser, stray>>

\* Mutant: rows go first and their objects are left for later.
PassOverObject(f) ==
  /\ f \in batch /\ item = NoFile
  /\ item' = f
  /\ batch' = batch \ {f}
  /\ UNCHANGED <<row, age, original, emptied, retention, uploads, pass, more,
                 eraser, doomed, unmarked, stray, failures>>

\* A failed delete is logged; the row goes all the same.
DeleteObject(f) ==
  /\ f \in batch /\ item = NoFile
  /\ item' = f
  /\ batch' = batch \ {f}
  /\ \/ /\ f \in emptied
        /\ UNCHANGED <<original, stray, failures>>
     \/ /\ f \notin emptied
        /\ original' = original \ {f}
        /\ stray' = stray \ {f}
        /\ UNCHANGED failures
     \/ /\ f \notin emptied
        /\ Fails
        /\ stray' = stray \cup {f}
        /\ UNCHANGED original
  /\ UNCHANGED <<row, age, emptied, retention, uploads, pass, more, eraser,
                 doomed, unmarked>>

\* Mutant: a file without an object is skipped, its row included.
DeleteRowOfObject ==
  /\ item # NoFile
  /\ item' = NoFile
  /\ \/ /\ item \in emptied
        /\ UNCHANGED <<row, age, emptied, doomed, unmarked, failures>>
     \/ /\ item \notin emptied /\ pass = "trash"
        /\ row' = [row EXCEPT ![item] = "purged"]
        /\ age' = [age EXCEPT ![item] = 0]
        /\ UNCHANGED <<emptied, doomed, unmarked, failures>>
     \/ /\ item \notin emptied /\ pass = "retention"
        /\ SoftDelete(item)
        /\ UNCHANGED <<emptied, failures>>
  /\ UNCHANGED <<original, retention, uploads, pass, more, batch, eraser, stray>>

DeleteRow ==
  /\ item # NoFile
  /\ item' = NoFile
  /\ \/ /\ pass = "trash"
        /\ row' = [row EXCEPT ![item] = "purged"]
        /\ age' = [age EXCEPT ![item] = 0]
        /\ emptied' = emptied \ {item}
        /\ UNCHANGED <<doomed, unmarked, failures>>
     \/ /\ pass = "retention"
        /\ SoftDelete(item)
        /\ UNCHANGED <<emptied, failures>>
     \/ Fails /\ UNCHANGED <<row, age, emptied, doomed, unmarked>>
  /\ UNCHANGED <<original, retention, uploads, pass, more, batch, eraser, stray>>

NextPass ==
  /\ pass # "off" /\ ~more /\ BatchDone
  /\ pass' = IF pass = "trash" THEN "retention" ELSE "off"
  /\ more' = (pass = "trash")
  /\ UNCHANGED <<row, age, original, emptied, retention, uploads, batch, item,
                 eraser, doomed, unmarked, stray, failures>>

\* The program is killed, or its 30 minutes are over.
StopCleanup ==
  /\ pass # "off"
  /\ Fails
  /\ pass' = "off" /\ more' = FALSE /\ batch' = {} /\ item' = NoFile
  /\ UNCHANGED <<row, age, original, emptied, retention, uploads, eraser,
                 doomed, unmarked, stray>>

-----------------------------------------------------------------------------

\* The API process stops: requests in flight are gone.
StopApi ==
  /\ Busy # {} \/ erase # "idle"
  /\ Fails
  /\ stray' = stray \cup {uploading[s] : s \in {s \in Slots : upload[s] = "insert"}}
  /\ upload' = [s \in Slots |-> "idle"]
  /\ uploading' = [s \in Slots |-> NoFile]
  /\ erasing' = NoFile /\ erase' = "idle"
  /\ UNCHANGED <<row, age, original, emptied, retention, unchecked, cleanup,
                 doomed, unmarked>>

DayPasses ==
  /\ age' = [f \in Files |-> IF row[f] \in {"live", "deleted"} /\ age[f] < MaxAge
                             THEN age[f] + 1 ELSE age[f]]
  /\ UNCHANGED <<row, original, emptied, retention, uploads, cleanup, eraser,
                 doomed, unmarked, stray, failures>>

Upload ==
  \/ \E seats \in SUBSET (Slots \ Busy) \ {{}} :
       Admit(seats) \/ AdmitUncounted(seats)
  \/ \E s \in Slots : PutObject(s) \/ CreateFile(s)

Owner ==
  \/ \E days \in Retentions : SaveFileSettings(days)
  \/ \E f \in Files : DeleteFile(f) \/ BeginErase(f)
  \/ \E f \in Files : DropOriginal(f) \/ MarkOriginalDeleted(f)
  \/ EraseObject \/ EraseRow

CleanupStep ==
  \/ ListBatch \/ DeleteRow \/ NextPass
  \/ \E f \in Files : DeleteObject(f)

Next ==
  \/ Upload \/ Owner \/ StartCleanup \/ CleanupStep \/ StopCleanup \/ StopApi
  \/ DayPasses

\* Days pass, the cleanup program is started again whenever it has ended, and
\* it does not hang: its context ends after 30 minutes.
Fairness == WF_vars(DayPasses) /\ WF_vars(StartCleanup) /\ WF_vars(CleanupStep)

Spec == Init /\ [][Next]_vars
FairSpec == Spec /\ Fairness

-----------------------------------------------------------------------------
(* Properties                                                              *)

\* The check of the limit and the insert are far apart, so uploads that run
\* side by side may pass the limit, but never by more than can be in flight.
OverrunIsBounded ==
  Cardinality(Live) <= FilesLimit - 1 + Cardinality(Slots) + unchecked

\* Storage never loses a file its owner keeps: a live row without its object
\* says so, was selected for deletion, was listed as past its retention, or is
\* the one whose original a video job has removed on its owner's wish and not
\* marked, because the update comes next, failed or was cut off.
KeptFileHasOriginal ==
  \A f \in Live : f \in original \cup emptied \cup doomed \cup unmarked

\* An object without a row belongs to an upload in flight, or a step that
\* failed or was interrupted left it behind: the cleanup forgets no other.
NoForgottenObject ==
  \A f \in original : row[f] \in {"none", "purged"} => f \in InUpload \cup stray

\* Whatever is listed, retried or interrupted, a row is only purged after its
\* days in the trash.
GraceKept ==
  [][\A f \in Files : row[f] # "purged" /\ row'[f] = "purged"
                       => row[f] = "deleted" /\ age[f] >= TrashDays]_vars

\* With the cleanup started again and again, what has been deleted goes: the
\* trash is empty in the end, although a pass lists one batch at a time.
TrashIsEmptied == Trash # {} ~> Trash = {}

\* settings.templ:290 calls a retention of 0 days "Never delete": while it is
\* chosen, the cleanup takes no live file's object away.
NeverMeansNever ==
  [][\A f \in Live \cap original :
       retention = 0 /\ item' = f /\ item # f => f \in original']_vars

-----------------------------------------------------------------------------
(* The inductive invariant                                                 *)

\* Uploads in flight have files of their own, which have no row yet.
SeatInv ==
  /\ \A s \in Busy : uploading[s] \in Files /\ row[uploading[s]] = "none"
  /\ \A s, t \in Busy : uploading[s] = uploading[t] => s = t
  /\ \A s \in Busy : upload[s] = "insert" <=> uploading[s] \in original

EmptiedInv ==
  /\ \A f \in emptied : f \notin original /\ row[f] \in {"live", "deleted"}
  /\ \A f \in unmarked : f \notin original /\ row[f] = "live"

\* What the cleanup has listed stays what it was listed for.
CleanupInv ==
  /\ pass = "off" => batch = {} /\ item = NoFile
  /\ \A f \in Files : f \in batch \/ f = item =>
       /\ pass = "trash" => row[f] = "deleted" /\ age[f] >= TrashDays
       /\ pass = "retention" => \/ row[f] = "live" /\ f \in doomed
                                \/ row[f] = "deleted"
  /\ item \notin batch
  /\ item \in original => item \in stray

EraseInv ==
  erase # "idle" => /\ erasing \in Files /\ row[erasing] # "none"
                    /\ row[erasing] = "live" => erasing \in doomed

\* Uploads in flight have their place below the bound.
RoomInv ==
  Cardinality(Live) + Cardinality(Busy)
    <= FilesLimit - 1 + Cardinality(Slots) + unchecked

DataInv == /\ TypeOK /\ SeatInv /\ EmptiedInv /\ CleanupInv /\ EraseInv
           /\ KeptFileHasOriginal /\ NoForgottenObject
IInv == DataInv /\ RoomInv

=============================================================================
