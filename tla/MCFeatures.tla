----------------------------- MODULE MCFeatures -----------------------------
(***************************************************************************)
(* Shares, folders with tags, bulk downloads, webhooks, the limiter and the*)
(* views of a file in one run: what each of them tells apart is apart from *)
(* the others, so a behaviour is one of one of them.                       *)
(***************************************************************************)
EXTENDS Sharing, Folders, ZipDownloads, Webhooks, RateLimiter, Viewing, TLC

CONSTANTS u1, u2, f1, f2, o1, x1

OwnerOfFile == (f1 :> u1) @@ (f2 :> u2)

\* A file of the user and one of somebody else.
EntryOfFile == (o1 :> <<"a", <<>>>>) @@ (x1 :> <<"b", <<>>>>)
AskedFiles == {{o1, x1}}

JobEvents == {{"processing.completed", "processing.failed"}}
\* No job makes an HLS manifest here: see SegmentsFound.
JobsOf == [c \in Contents |-> IF c = "video" THEN {"mp4"} ELSE {"thumbnail"}]

OneUser == [c \in Connections |-> u1]

FeatureIdentities == Permutations(FolderIds)

----------------------------------------------------------------------------

FeaturesInit == SharingInit /\ FoldersInit /\ ZipInit /\ HooksInit /\ LimiterInit /\ ViewingInit

\* Whoever moves first has the behaviour to himself.
NoShare == share.state = "none" /\ visits = 0
NoFolder == calls = 0
NoZip == /\ \A z \in Zips : zip[z].status = "none"
         /\ \A c \in Clients : client[c].at = "idle"
         /\ binned = {}
NoHooks == edits = 0 /\ job = "waiting"
NoRequest == \A c \in Connections : tokens[c] = NoBucket /\ idle[c] = 0
Unviewed == /\ content = "image" /\ stored = {Original} /\ work = NoWork
            /\ erase = "none" /\ ~deleted /\ views = 0 /\ viewFaults = 0

Untouched(part) ==
  /\ part # "share" => NoShare
  /\ part # "folder" => NoFolder
  /\ part # "zip" => NoZip
  /\ part # "hook" => NoHooks
  /\ part # "limiter" => NoRequest
  /\ part # "view" => Unviewed

FeaturesNext ==
  \/ /\ Untouched("share") /\ SharingNext
     /\ UNCHANGED <<folderVars, zipVars, hookVars, limiterVars, shownVars>>
  \/ /\ Untouched("folder") /\ FoldersNext
     /\ UNCHANGED <<shareVars, zipVars, hookVars, limiterVars, shownVars>>
  \/ /\ Untouched("zip") /\ ZipNext
     /\ UNCHANGED <<shareVars, folderVars, hookVars, limiterVars, shownVars>>
  \/ /\ Untouched("hook") /\ HooksNext
     /\ UNCHANGED <<shareVars, folderVars, zipVars, limiterVars, shownVars>>
  \/ /\ Untouched("limiter") /\ LimiterNext
     /\ UNCHANGED <<shareVars, folderVars, zipVars, hookVars, shownVars>>
  \/ /\ Untouched("view") /\ ViewingNext
     /\ UNCHANGED <<shareVars, folderVars, zipVars, hookVars, limiterVars>>

FeaturesSpec ==
  /\ FeaturesInit
  /\ [][FeaturesNext]_<<shareVars, folderVars, zipVars, hookVars, limiterVars,
                         shownVars>>
============================================================================
