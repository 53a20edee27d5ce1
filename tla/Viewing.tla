------------------------------ MODULE Viewing ------------------------------
(***************************************************************************)
(* What one file shows to its owner and to others while jobs make variants *)
(* of it and while it is deleted.  Every endpoint reads the row first and  *)
(* then, call by call, what it needs besides; nothing holds the file still *)
(* between two calls.  Only failed lookups of variants are told apart from *)
(* other errors, which all end a request the same way.                     *)
(***************************************************************************)
EXTENDS Naturals, Sequences

CONSTANTS Viewers,       \* requests at work at a time
          VariantsOf,    \* [content type -> the variants its jobs make]
          MaxViews,      \* bound: requests
          MaxViewFaults  \* bound: calls and jobs that fail

Contents == {"image", "pdf", "video"}
Variants == {"thumbnail", "mp4", "hls_master"}

ASSUME ViewingAssumption == VariantsOf \in [Contents -> SUBSET Variants]

Timed == {"mp4", "hls_master"}  \* variants whose row has a duration
Original == "original"

VARIABLES
  content,   \* content type of the file
  status,    \* its status: "uploaded", "processing" or "completed"
  deleted,   \* deleted_at is set
  keyed,     \* storage_key is set: a transcode may clear it
  stored,    \* objects in storage: Original and the variants
  variants,  \* rows of file_variants
  work,       \* the job at work and its next call
  finished,  \* variants whose job has completed the file: not in the code
  erase,     \* batch delete: its next call
  view,      \* per viewer: the request, what is left to do, what it has read
  views, viewFaults

thing == <<content, status, deleted, keyed, stored, variants, finished>>
shownVars == <<thing, work, erase, view, views, viewFaults>>

NoView == [code |-> "none"]
NoWork == [at |-> "none"]

ViewingInit ==
  /\ content \in Contents
  /\ status = "uploaded"
  /\ deleted = FALSE /\ keyed = TRUE
  /\ stored = {Original} /\ variants = {} /\ finished = {}
  /\ work = NoWork /\ erase = "none"
  /\ view = [v \in Viewers |-> NoView]
  /\ views = 0 /\ viewFaults = 0

ViewFault == viewFaults < MaxViewFaults /\ viewFaults' = viewFaults + 1

----------------------------------------------------------------------------
(* Jobs: three writes and, for a transcode, the removal of the original.   *)
(* JobLifecycle has the whole of it.                                       *)

StartJob(k) ==
  /\ work = NoWork /\ ~deleted /\ k \in VariantsOf[content]
  /\ work' = [at |-> "object", variant |-> k]
  /\ status' \in {status, "processing"}
  /\ UNCHANGED <<content, deleted, keyed, stored, variants, finished,
                 erase, view, views, viewFaults>>

\* A faulty variant, for the checks: the status is written before the row of the variant.
StatusFirst(k) == <<"object", "status", "row">>

JobCalls(k) ==
  <<"object", "row", "status">> \o IF k = "mp4" THEN <<"trim", "clear">> ELSE <<>>

AfterCall(at, k) ==
  LET order == JobCalls(k)
      i == CHOOSE n \in DOMAIN order : order[n] = at
  IN IF i = Len(order) THEN NoWork ELSE [at |-> order[i + 1], variant |-> k]

MakeVariant ==
  /\ work # NoWork
  /\ LET k == work.variant IN
       /\ stored' = CASE work.at = "object" -> stored \cup {k}
                      [] work.at = "trim" -> stored \ {Original}
                      [] OTHER -> stored
       /\ variants' = IF work.at = "row" THEN variants \cup {k} ELSE variants
       /\ status' = IF work.at = "status" /\ ~deleted THEN "completed" ELSE status
       /\ finished' = IF work.at = "status" THEN finished \cup {k} ELSE finished
       /\ keyed' = (keyed /\ (work.at = "clear" => deleted))
       /\ work' = AfterCall(work.at, k)
  /\ UNCHANGED <<content, deleted, erase, view, views, viewFaults>>

JobFails ==
  /\ work # NoWork /\ ViewFault
  /\ work' = NoWork
  /\ UNCHANGED <<thing, erase, view, views>>

\* auto_delete_originals is off, or storage refused.
KeepOriginal ==
  /\ work # NoWork /\ work.at = "trim"
  /\ work' = NoWork
  /\ UNCHANGED <<thing, erase, view, views, viewFaults>>

----------------------------------------------------------------------------
(* The owner deletes the file, alone or in a batch, which takes the objects*)
(* and the variants first.                                                 *)

DeleteFile ==
  /\ ~deleted
  /\ deleted' = TRUE
  /\ UNCHANGED <<content, status, keyed, stored, variants, finished,
                 work, erase, view, views, viewFaults>>

BatchDelete ==
  /\ erase = "none" /\ ~deleted
  /\ erase' = "variants"
  /\ UNCHANGED <<thing, work, view, views, viewFaults>>

EraseVariants ==
  /\ erase = "variants"
  /\ stored' = stored \ variants
  /\ variants' = {}
  /\ erase' = "original"
  /\ UNCHANGED <<content, status, deleted, keyed, finished, work, view, views, viewFaults>>

EraseOriginal ==
  /\ erase = "original"
  /\ stored' = stored \ {Original}
  /\ erase' = "row"
  /\ UNCHANGED <<content, status, deleted, keyed, variants, finished,
                 work, view, views, viewFaults>>

EraseRow ==
  /\ erase = "row"
  /\ \/ deleted' = TRUE /\ UNCHANGED viewFaults
     \/ ViewFault /\ UNCHANGED deleted
  /\ erase' = "done"
  /\ UNCHANGED <<content, status, keyed, stored, variants, finished, work, view, views>>

\* cmd/cleanup: the object and, by the foreign key, the variants' rows.
Purge ==
  /\ deleted
  /\ stored' = stored \ {Original}
  /\ variants' = {}
  /\ UNCHANGED <<content, status, deleted, keyed, finished,
                 work, erase, view, views, viewFaults>>

----------------------------------------------------------------------------
(* The endpoints, as the calls each of them makes.                         *)

Endpoints == {"getFile", "FileDetail", "FileStatus", "FileInfo", "FilePreview",
              "DownloadFile", "download", "hlsStream", "VideoEmbed"}
TakesVariant == {"DownloadFile", "download"}

\* Page count of a PDF, duration of a video.
Facts(c) ==
  CASE c = "pdf" -> <<"fetch">> [] c = "video" -> <<"duration">> [] OTHER -> <<>>

getFile == <<"file", "list">>

\* The status of the API and the fragment the pages poll read the same.
FileStatusHandler == <<"file", "list">>
FileStatus == FileStatusHandler

FileDetail(c) == <<"file", "list">> \o Facts(c)
FileInfo(c) == <<"file">> \o Facts(c)
servePDFPreview == <<"fetch">>
serveVideoPreview == <<"duration", "fetch">>
FilePreview(c) ==
  <<"file">> \o CASE c = "pdf" -> servePDFPreview
                  [] c = "video" -> serveVideoPreview
                  [] OTHER -> <<"refuse">>
DownloadFile(k) == IF k = Original THEN <<"file", "fetch">> ELSE <<"file", "variant", "fetch">>
download(k) == IF k = Original THEN <<"file", "sign">> ELSE <<"file", "variant", "sign">>
hlsStream == <<"file", "segment">>
VideoEmbed(c) == <<"file">> \o IF c = "video" THEN <<"list">> ELSE <<"refuse">>

Calls(e, k) ==
  CASE e = "getFile" -> getFile
    [] e = "FileStatus" -> FileStatus
    [] e = "FileDetail" -> FileDetail(content)
    [] e = "FileInfo" -> FileInfo(content)
    [] e = "FilePreview" -> FilePreview(content)
    [] e = "DownloadFile" -> DownloadFile(k)
    [] e = "download" -> download(k)
    [] e = "hlsStream" -> hlsStream
    [] e = "VideoEmbed" -> VideoEmbed(content)

Ask(v, e, who, k) ==
  /\ view[v].code # "open"
  /\ views < MaxViews /\ views' = views + 1
  /\ e \in TakesVariant \/ k = Original
  /\ view' = [view EXCEPT ![v] =
       [code |-> "open", endpoint |-> e, who |-> who, variant |-> k,
        todo |-> Calls(e, k), key |-> Original, status |-> "unread",
        shown |-> {}, listed |-> FALSE, found |-> FALSE]]
  /\ UNCHANGED <<thing, work, erase, viewFaults>>

Call(v, c) == /\ view[v].code = "open" /\ Head(view[v].todo) = c
              /\ UNCHANGED <<thing, work, erase, views>>
Reply(v, x) == view' = [view EXCEPT ![v] = x]
Refuse(v) == Reply(v, NoView)

\* The last call answers the request.
Then(x) == [x EXCEPT !.todo = Tail(@), !.code = IF Len(x.todo) = 1 THEN "ok" ELSE "open"]

\* The detail page and the facts go on without what they could not get.
Without(v) ==
  IF view[v].endpoint \in {"FileDetail", "FileInfo"} THEN Reply(v, Then(view[v])) ELSE Refuse(v)

\* Of a file that is deleted or somebody else's no endpoint tells more than
\* that it was not found; the embed page asks for no owner.
GetFile(v) ==
  /\ Call(v, "file") /\ UNCHANGED viewFaults
  /\ IF deleted \/ (view[v].who # "owner" /\ view[v].endpoint # "VideoEmbed")
     THEN Refuse(v)
     ELSE Reply(v, [Then(view[v]) EXCEPT !.status = status,
                                          !.key = IF keyed THEN Original ELSE "empty"])

ListVariantsByFile(v) ==
  /\ Call(v, "list")
  /\ \/ /\ Reply(v, [Then(view[v]) EXCEPT !.shown = variants, !.listed = TRUE])
        /\ UNCHANGED viewFaults
     \/ ViewFault /\ Reply(v, Then(view[v]))

GetVariant(v) ==
  /\ Call(v, "variant") /\ UNCHANGED viewFaults
  /\ IF view[v].variant \in variants
     THEN Reply(v, [Then(view[v]) EXCEPT !.key = view[v].variant])
     ELSE Refuse(v)

GetVideoDuration(v) ==
  /\ Call(v, "duration") /\ UNCHANGED viewFaults
  /\ IF variants \cap Timed # {} THEN Reply(v, Then(view[v])) ELSE Without(v)

Fetch(v) ==
  /\ Call(v, "fetch") /\ UNCHANGED viewFaults
  /\ IF view[v].key \in stored
     THEN Reply(v, [Then(view[v]) EXCEPT !.found = TRUE])
     ELSE Without(v)

\* A link is signed whether or not there is an object.
GetPresignedURL(v) ==
  /\ Call(v, "sign") /\ UNCHANGED viewFaults
  /\ Reply(v, [Then(view[v]) EXCEPT !.found = view[v].key \in stored])

\* The key asked for begins "variants/", the worker's begin "processed/".
SignSegment(v) ==
  /\ Call(v, "segment") /\ UNCHANGED viewFaults
  /\ Reply(v, [Then(view[v]) EXCEPT !.found = FALSE])

RefuseType(v) == Call(v, "refuse") /\ Refuse(v) /\ UNCHANGED viewFaults

CallFails(v) ==
  /\ view[v].code = "open" /\ Head(view[v].todo) \notin {"list", "refuse"}
  /\ ViewFault
  /\ IF Head(view[v].todo) = "file" THEN Refuse(v) ELSE Without(v)
  /\ UNCHANGED <<thing, work, erase, views>>

----------------------------------------------------------------------------
Look(v) == \/ GetFile(v) \/ ListVariantsByFile(v) \/ GetVariant(v) \/ GetVideoDuration(v)
           \/ Fetch(v) \/ GetPresignedURL(v) \/ SignSegment(v) \/ RefuseType(v) \/ CallFails(v)

ViewingNext ==
  \/ \E k \in Variants : StartJob(k)
  \/ MakeVariant \/ KeepOriginal \/ JobFails
  \/ DeleteFile \/ BatchDelete \/ EraseVariants \/ EraseOriginal \/ EraseRow \/ Purge
  \/ \E v \in Viewers : Look(v)
  \/ \E v \in Viewers, e \in Endpoints, who \in {"owner", "other"},
        k \in VariantsOf[content] \cup {Original} : Ask(v, e, who, k)

ViewingSpec == ViewingInit /\ [][ViewingNext]_shownVars

----------------------------------------------------------------------------
(* Properties.                                                             *)

Answered(v) == view[v].code = "ok"

\* Who is told that the file is completed is shown a variant as well, and who
\* is shown a variant finds it in storage, however the reads of the request
\* fall between the writes of the jobs; unless the file is being deleted.
ShowsWhatIsThere ==
  \A v \in Viewers :
    Answered(v) /\ view[v].listed =>
      \/ deleted \/ erase # "none"
      \/ /\ view[v].status = "completed" => view[v].shown \cap finished # {}
         /\ view[v].shown \subseteq stored

\* "Stream HLS manifest or segment files" (docs/API.md).
SegmentsFound ==
  \A v \in Viewers : Answered(v) /\ view[v].endpoint = "hlsStream" =>
    view[v].found \/ "hls_master" \notin stored

\* "No authentication required (public). Embeddable video player page" (docs/
\* API.md): its links are those of DownloadFile, which refuses all but the owner.
EmbedPlays ==
  \A v \in Viewers : Answered(v) /\ view[v].endpoint = "VideoEmbed" => view[v].who = "owner"

\* The API hands out links to objects that are there.
LinksWork ==
  \A v \in Viewers : Answered(v) /\ view[v].endpoint = "download" =>
    view[v].found \/ deleted \/ erase # "none"
============================================================================
