------------------------------ MODULE Folders ------------------------------
(***************************************************************************)
(* The folders of the users and the tags of their files.  A folder keeps   *)
(* the path it was given when it was last written; a handler reads the     *)
(* parent with one statement and writes the row with another.              *)
(***************************************************************************)
EXTENDS Naturals, FiniteSets, Sequences

CONSTANTS Users,
          FolderIds, \* ids of folders, given out once
          Names,
          Files,     \* the files, uploaded before
          OwnerOf,   \* the user of each file
          Tags,
          Slots,     \* handlers that run side by side
          MaxCalls,  \* bound: requests
          MaxFaults, \* bound: failed statements
          Root       \* no folder

ASSUME FoldersAssumption ==
  /\ OwnerOf \in [Files -> Users]
  /\ Root \notin FolderIds
  /\ FolderIds \cap Files = {}

VARIABLES
  folders, \* the rows: user, parent, name, path
  unused,  \* ids not given out yet
  place,   \* files.folder_id
  trash,   \* the files with deleted_at
  tagged,  \* file_tags: <<file, user, tag>>
  call,    \* per handler: the request and what it has read
  moved,   \* folders that were updated after their creation
  misread, \* folders written after their parent could not be read
  calls, faults

folderVars == <<folders, unused, place, trash, tagged, call, moved, misread, calls, faults>>

Idle == [at |-> "idle"]

FoldersInit ==
  /\ folders = [d \in {} |-> Root]
  /\ unused = FolderIds
  /\ place = [f \in Files |-> Root]
  /\ trash = {}
  /\ tagged = {}
  /\ call = [s \in Slots |-> Idle]
  /\ moved = {} /\ misread = {}
  /\ calls = 0 /\ faults = 0

Rows == DOMAIN folders
Spend == calls < MaxCalls /\ calls' = calls + 1
Answer(s) == call' = [call EXCEPT ![s] = Idle]

GetFolder(u, d) == d \in Rows /\ folders[d].user = u

\* Mutant: the path of a folder is its name.
NameOnly(d, n) == <<n>>

\* The path of a folder named n below d.
PathBelow(d, n) == IF d = Root THEN <<n>> ELSE Append(folders[d].path, n)

----------------------------------------------------------------------------
(* Create and update: the row of the parent is read first.                 *)

ReadForCreate(s, u, parent, n) ==
  /\ call[s] = Idle
  /\ Spend
  /\ IF parent = Root \/ GetFolder(u, parent)
     THEN call' = [call EXCEPT ![s] = [at |-> "create", user |-> u, parent |-> parent,
                                       name |-> n, path |-> PathBelow(parent, n)]]
     ELSE UNCHANGED call
  /\ UNCHANGED <<folders, unused, place, trash, tagged, moved, misread, faults>>

\* The constraints: a parent that exists, and one name among its children.
\* NULL parents are no duplicates of each other.
Accepted(parent, n, self) ==
  \/ parent = Root
  \/ /\ parent \in Rows
     /\ \A d \in Rows \ self : ~(folders[d].parent = parent /\ folders[d].name = n)

CreateFolder(s, d) ==
  /\ call[s].at = "create"
  /\ d \in unused
  /\ Answer(s)
  /\ IF Accepted(call[s].parent, call[s].name, {})
     THEN /\ folders' = [x \in Rows \cup {d} |->
                           IF x = d THEN [user |-> call[s].user, parent |-> call[s].parent,
                                          name |-> call[s].name, path |-> call[s].path]
                           ELSE folders[x]]
          /\ unused' = unused \ {d}
     ELSE UNCHANGED <<folders, unused>>
  /\ UNCHANGED <<place, trash, tagged, moved, misread, calls, faults>>

\* Without a parent in the request the folder stays where it is.
ReadForUpdate(s, u, d, parent, n) ==
  LET target == IF parent = Root /\ d \in Rows THEN folders[d].parent ELSE parent IN
  /\ call[s] = Idle
  /\ Spend
  /\ IF GetFolder(u, d) /\ (parent = Root \/ GetFolder(u, parent))
     THEN \E fails \in IF parent = Root /\ target # Root /\ faults < MaxFaults
                       THEN BOOLEAN ELSE {FALSE} :
            /\ call' = [call EXCEPT ![s] =
                          [at |-> "update", user |-> u, folder |-> d, parent |-> target,
                           name |-> n, path |-> PathBelow(IF fails THEN Root ELSE target, n),
                           fails |-> fails]]
            /\ faults' = IF fails THEN faults + 1 ELSE faults
     ELSE UNCHANGED <<call, faults>>
  /\ UNCHANGED <<folders, unused, place, trash, tagged, moved, misread>>

UpdateFolder(s) ==
  LET c == call[s] IN
  /\ c.at = "update"
  /\ Answer(s)
  /\ IF GetFolder(c.user, c.folder) /\ Accepted(c.parent, c.name, {c.folder})
     THEN /\ folders' = [folders EXCEPT ![c.folder] =
                           [@ EXCEPT !.parent = c.parent, !.name = c.name, !.path = c.path]]
          /\ moved' = moved \cup {c.folder}
          /\ misread' = IF c.fails THEN misread \cup {c.folder} ELSE misread \ {c.folder}
     ELSE UNCHANGED <<folders, moved, misread>>
  /\ UNCHANGED <<unused, place, trash, tagged, calls, faults>>

----------------------------------------------------------------------------
(* Delete, with or without recursive=true, and what the foreign keys do    *)
(* with the children and the files.                                        *)

Children(d) == {x \in Rows : folders[x].parent = d}

\* The rows that go when the rows of S go: ON DELETE CASCADE.
Cascade(S) ==
  CHOOSE T \in SUBSET Rows :
    /\ S \subseteq T
    /\ \A d \in T : Children(d) \subseteq T
    /\ \A X \in SUBSET Rows :
         S \subseteq X /\ (\A d \in X : Children(d) \subseteq X) => T \subseteq X

Drop(S) ==
  /\ folders' = [d \in Rows \ S |-> folders[d]]
  /\ place' = [f \in Files |-> IF place[f] \in S THEN Root ELSE place[f]]

DeleteFolder(u, d) ==
  /\ Spend
  /\ Drop(IF GetFolder(u, d) THEN Cascade({d}) ELSE {})
  /\ UNCHANGED <<unused, trash, tagged, call, moved, misread, faults>>

\* The recursive query follows the children with UNION ALL: below a folder
\* that is its own ancestor it never ends, and nothing is deleted.
Ends(d) == \A x \in Cascade({d}) : x \notin Cascade(Children(x))

DeleteFolderRecursive(u, d) ==
  /\ Spend
  /\ Drop(IF GetFolder(u, d) /\ Ends(d) THEN Cascade({d}) ELSE {})
  /\ UNCHANGED <<unused, trash, tagged, call, moved, misread, faults>>

----------------------------------------------------------------------------
(* Files.                                                                  *)

\* Mutant: the folder is not looked up.
MoveUnread(s, u, f, d) ==
  /\ call[s] = Idle
  /\ Spend
  /\ call' = [call EXCEPT ![s] = [at |-> "move", user |-> u, file |-> f, folder |-> d]]
  /\ UNCHANGED <<folders, unused, place, trash, tagged, moved, misread, faults>>

ReadForMove(s, u, f, d) ==
  /\ call[s] = Idle
  /\ Spend
  /\ call' = IF d = Root \/ GetFolder(u, d)
             THEN [call EXCEPT ![s] = [at |-> "move", user |-> u, file |-> f, folder |-> d]]
             ELSE call
  /\ UNCHANGED <<folders, unused, place, trash, tagged, moved, misread, faults>>

\* The statement touches no row of another user; a folder that is gone by
\* now fails it.
Movable(u, f) == OwnerOf[f] = u /\ f \notin trash

MoveFileToFolder(s) ==
  LET c == call[s] IN
  /\ c.at = "move"
  /\ Answer(s)
  /\ place' = IF Movable(c.user, c.file) /\ c.folder \in Rows \cup {Root}
              THEN [place EXCEPT ![c.file] = c.folder] ELSE place
  /\ UNCHANGED <<folders, unused, trash, tagged, moved, misread, calls, faults>>

SoftDeleteFile(f) ==
  /\ f \notin trash
  /\ Spend
  /\ trash' = trash \cup {f}
  /\ UNCHANGED <<folders, unused, place, tagged, call, moved, misread, faults>>

----------------------------------------------------------------------------
(* Tags.                                                                   *)

\* A request names several tags; each is an insert of its own, an error or
\* a duplicate only skips it.
AddTags(u, f, T) ==
  /\ T # {}
  /\ f \notin trash /\ OwnerOf[f] = u
  /\ Spend
  /\ \E failed \in SUBSET T :
       /\ failed = {} \/ faults < MaxFaults
       /\ faults' = IF failed = {} THEN faults ELSE faults + 1
       /\ tagged' = tagged \cup {<<f, u, t>> : t \in T \ failed}
  /\ UNCHANGED <<folders, unused, place, trash, call, moved, misread>>

RemoveTag(u, f, t) ==
  /\ Spend
  /\ tagged' = tagged \ {<<f, u, t>>}
  /\ UNCHANGED <<folders, unused, place, trash, call, moved, misread, faults>>

\* One statement: a file that already has the new name fails all of it.
RenameTag(u, t, n) ==
  LET old == {x \in tagged : x[2] = u /\ x[3] = t}
      new == {<<x[1], u, n>> : x \in old}
  IN
  /\ Spend
  /\ tagged' = IF \E x \in tagged \ old, y \in new : x[1] = y[1] /\ x[3] = y[3]
               THEN tagged ELSE (tagged \ old) \cup new
  /\ UNCHANGED <<folders, unused, place, trash, call, moved, misread, faults>>

DeleteTag(u, t) ==
  /\ Spend
  /\ tagged' = {x \in tagged : ~(x[2] = u /\ x[3] = t)}
  /\ UNCHANGED <<folders, unused, place, trash, call, moved, misread, faults>>

----------------------------------------------------------------------------

FoldersNext ==
  \/ \E s \in Slots :
       \/ \E u \in Users, n \in Names, p \in FolderIds \cup {Root} :
            \/ ReadForCreate(s, u, p, n)
            \/ \E d \in FolderIds : ReadForUpdate(s, u, d, p, n)
       \/ \E d \in FolderIds : CreateFolder(s, d)
       \/ UpdateFolder(s)
       \/ \E u \in Users, f \in Files, d \in FolderIds \cup {Root} : ReadForMove(s, u, f, d)
       \/ MoveFileToFolder(s)
  \/ \E u \in Users, d \in FolderIds : DeleteFolder(u, d) \/ DeleteFolderRecursive(u, d)
  \/ \E f \in Files : SoftDeleteFile(f)
  \/ \E u \in Users, t \in Tags :
       \/ \E f \in Files : AddTags(u, f, {t}) \/ AddTags(u, f, Tags) \/ RemoveTag(u, f, t)
       \/ \E n \in Tags : RenameTag(u, t, n)
       \/ DeleteTag(u, t)

FoldersSpec == FoldersInit /\ [][FoldersNext]_folderVars

----------------------------------------------------------------------------
(* What the lists show.                                                    *)

ListRootFolders(u) == {d \in Rows : folders[d].user = u /\ folders[d].parent = Root}
ListFolderChildren(u, d) == {x \in Children(d) : folders[x].user = u}
ListFilesInFolder(u, d) == {f \in Files \ trash : OwnerOf[f] = u /\ place[f] = d}
ListFilesInRoot(u) == ListFilesInFolder(u, Root)

\* The contents of a folder, asked for by its user.
GetFolderContents(u, d) ==
  IF GetFolder(u, d) THEN ListFolderChildren(u, d) \cup ListFilesInFolder(u, d) ELSE {}

ListFolders(u) == ListRootFolders(u) \cup ListFilesInRoot(u)

ListTagsByUser(u) == [t \in {x[3] : x \in {y \in tagged : y[2] = u}} |->
                        Cardinality({x \in tagged : x[2] = u /\ x[3] = t})]
ListFilesByTag(u, t) == {f \in Files \ trash : <<f, u, t>> \in tagged}

----------------------------------------------------------------------------
\* A path is out of step with its parent's only if the parent was written
\* again later or could not be read.
PathFollowsParent ==
  \A d \in Rows :
    LET p == folders[d].parent IN
    p \notin moved /\ d \notin misread =>
      folders[d].path = (IF p = Root THEN <<>> ELSE folders[p].path) \o <<folders[d].name>>

\* Whatever the handlers do side by side, a user finds each of his folders
\* and files in one list: the root's, or that of one folder of his own.
ShownOnce ==
  /\ \A d \in Rows :
       LET u == folders[d].user IN
       (d \in ListFolders(u)) # (\E x \in Rows : d \in GetFolderContents(u, x))
  /\ \A f \in Files \ trash :
       LET u == OwnerOf[f] IN
       (f \in ListFolders(u)) # (\E x \in Rows : f \in GetFolderContents(u, x))

\* "Delete folder and all contents": a file whose folder is deleted is
\* deleted as well.
ContentsGo ==
  [][\A f \in Files \ trash :
       place[f] \in Rows /\ place[f] \notin DOMAIN folders' => f \in trash']_folderVars

\* The paths follow their parents, whatever was renamed.
PathsFollow ==
  \A d \in Rows : folders[d].path = PathBelow(folders[d].parent, folders[d].name)

\* The count beside a tag is the number of files its list shows.
CountsShown ==
  \A u \in Users : \A t \in DOMAIN ListTagsByUser(u) :
    ListTagsByUser(u)[t] = Cardinality(ListFilesByTag(u, t))
============================================================================
