---------------------------- MODULE PagesProofs ----------------------------
(***************************************************************************)
(* What the pages of an owner and the links given to others show: theorems *)
(* of Sharing, Folders and Viewing, and of RateLimiter, which stands in    *)
(* front of them, for any number of visitors, folders, files and clients.  *)
(***************************************************************************)
EXTENDS Sharing, Folders, Viewing, RateLimiter, FiniteSetTheorems, TLAPS

(* A set of visitors or rows that gains or loses one element.              *)
LEMMA Counting ==
  ASSUME NEW S, IsFiniteSet(S), NEW T \in SUBSET S
  PROVE  /\ Cardinality(T) \in Nat /\ IsFiniteSet(T)
         /\ \A x \in T : /\ Cardinality(T \ {x}) = Cardinality(T) - 1
                         /\ Cardinality(T) > 0
         /\ \A x \in S \ T : Cardinality(T \cup {x}) = Cardinality(T) + 1
  <1>1. IsFiniteSet(T) /\ Cardinality(T) \in Nat
    BY FS_Subset, FS_CardinalityType
  <1>2. ASSUME NEW x \in T
        PROVE  /\ Cardinality(T \ {x}) = Cardinality(T) - 1
               /\ Cardinality(T) > 0
    <2>1. T # {} /\ IsFiniteSet(T \ {x})
      BY <1>1, FS_RemoveElement
    <2> QED BY <1>1, <2>1, FS_RemoveElement, FS_EmptySet
  <1>3. ASSUME NEW x \in S \ T PROVE Cardinality(T \cup {x}) = Cardinality(T) + 1
    BY <1>1, FS_AddElement
  <1> QED BY <1>1, <1>2, <1>3

----------------------------------------------------------------------------
(* Sharing.                                                                *)

SharingTypeOK ==
  /\ share \in [state : {"none", "open", "deleted", "expired"}, password : BOOLEAN,
                max : Limits \cup {None}]
  /\ visit \in [Visitors -> {Away} \cup [at : {"limit", "parse", "serve", "process"},
                              transform : Transforms \cup {"original", "invalid"}]]
  /\ counted \in Nat /\ uncounted \in Nat /\ lost \in Nat
  /\ served \in Nat /\ behind \in Nat /\ blind \in Nat

\* The visitors that were let through and are not answered.
Inside == {v \in Visitors : visit[v].at \in {"parse", "serve", "process"}}

\* Every download that was served is counted, lost, or about to be counted.
ServedIsSeen == served <= counted + uncounted + lost

\* What was let through, counted or not, keeps within the limit but for the
\* requests that were behind each other and those that read no limit.
AdmittedBounded ==
  share.max # None =>
    counted + uncounted + lost + Cardinality(Inside) <= share.max + behind + blind

\* Nobody is let through before there is a share.
NobodyBefore ==
  share.state = "none" => /\ share.max = None /\ Inside = {}
                          /\ \A v \in Visitors : visit[v] = Away
                          /\ counted = 0 /\ uncounted = 0 /\ lost = 0

SharingInv == SharingTypeOK /\ ServedIsSeen /\ AdmittedBounded /\ NobodyBefore

(* The share, its limit and the counts keep their types.                   *)
LEMMA SharingTypeStep == SharingTypeOK /\ [SharingNext]_shareVars => SharingTypeOK'
  <1> SUFFICES ASSUME SharingTypeOK, [SharingNext]_shareVars PROVE SharingTypeOK'
    OBVIOUS
  <1> USE DEF SharingTypeOK, counters, results
  <1>1. ASSUME NEW p \in BOOLEAN, NEW m \in Limits \cup {None}, CreateShare(p, m)
        PROVE  SharingTypeOK'
    BY <1>1 DEF CreateShare
  <1>2. CASE CloseShare
    BY <1>2 DEF CloseShare
  <1>3. ASSUME NEW v \in Visitors, NEW t \in Transforms \cup {"original", "invalid"},
               NEW k \in BOOLEAN, Arrive(v, t, k)
        PROVE  SharingTypeOK'
    BY <1>3 DEF Arrive
  <1>4. \A v \in Visitors : visit[v].at = "limit" => visit[v] # Away
    BY DEF Away
  <1>5. ASSUME NEW v \in Visitors, LetThrough(v), visit[v].at = "limit"
        PROVE  /\ visit' \in [Visitors -> {Away} \cup
                     [at : {"limit", "parse", "serve", "process"},
                      transform : Transforms \cup {"original", "invalid"}]]
               /\ behind' \in Nat
    <2>1. Cardinality(Inside) \in Nat
      BY ConstantsAssumption, Counting DEF Inside
    <2> QED BY <1>4, <1>5, <2>1 DEF LetThrough, Unseen, Inside
  <1>6. ASSUME NEW v \in Visitors, ReadLimit(v) PROVE SharingTypeOK'
    BY <1>5, <1>6 DEF ReadLimit, Leave
  <1>7. ASSUME NEW v \in Visitors, MissLimit(v) PROVE SharingTypeOK'
    BY <1>5, <1>7 DEF MissLimit
  <1>8. ASSUME NEW v \in Visitors, ReadTransforms(v) PROVE SharingTypeOK'
    <2>1. visit[v] # Away
      BY <1>8 DEF ReadTransforms, Away
    <2> QED BY <1>8, <2>1 DEF ReadTransforms
  <1>9. ASSUME NEW v \in Visitors, ServeOriginal(v) PROVE SharingTypeOK'
    BY <1>9 DEF ServeOriginal, Leave
  <1>10. ASSUME NEW v \in Visitors, ServeTransform(v) PROVE SharingTypeOK'
    BY <1>10 DEF ServeTransform, Leave
  <1>11. CASE IncrementShareAccessCount
    BY <1>11 DEF IncrementShareAccessCount
  <1>12. CASE IncrementShareDownloadCount
    BY <1>12 DEF IncrementShareDownloadCount
  <1>13. CASE UNCHANGED shareVars
    BY <1>13 DEF shareVars
  <1> QED BY <1>1, <1>2, <1>3, <1>6, <1>7, <1>8, <1>9, <1>10, <1>11, <1>12, <1>13
          DEF SharingNext

(* A request that passes the limit, or does not read it, joins those inside;
   the others keep their places.                                           *)
LEMMA Joins ==
  ASSUME SharingTypeOK, NEW v \in Visitors, visit[v].at = "limit", LetThrough(v)
  PROVE  /\ Inside' = Inside \cup {v} /\ v \notin Inside
         /\ Cardinality(Inside') = Cardinality(Inside) + 1
  <1>1. /\ Inside' = Inside \cup {v} /\ v \notin Inside
    BY DEF LetThrough, Inside, SharingTypeOK
  <1> QED BY <1>1, ConstantsAssumption, Counting DEF Inside

(* An answered request leaves.                                             *)
LEMMA Leaves ==
  ASSUME SharingTypeOK, NEW v \in Visitors, visit[v].at \in {"parse", "serve", "process"},
         Leave(v)
  PROVE  Cardinality(Inside') = Cardinality(Inside) - 1
  <1>1. /\ Inside' = Inside \ {v} /\ v \in Inside
    BY DEF Leave, Inside, SharingTypeOK, Away
  <1> QED BY <1>1, ConstantsAssumption, Counting DEF Inside

(* Every step keeps the count of what was let through within its bound.    *)
LEMMA SharingStep == SharingInv /\ [SharingNext]_shareVars => SharingInv'
  <1> SUFFICES ASSUME SharingInv, [SharingNext]_shareVars PROVE SharingInv'
    OBVIOUS
  <1>0. SharingTypeOK' /\ SharingTypeOK
    BY SharingTypeStep DEF SharingInv
  <1>c. Cardinality(Inside) \in Nat /\ (share.max # None => share.max \in Nat)
    BY <1>0, ConstantsAssumption, Counting DEF Inside, SharingTypeOK
  <1> DEFINE Rest == ServedIsSeen /\ AdmittedBounded /\ NobodyBefore
  <1> SUFFICES Rest'
    BY <1>0 DEF SharingInv
  <1>e. Rest
    BY DEF SharingInv
  <1>n. /\ counted \in Nat /\ uncounted \in Nat /\ lost \in Nat /\ served \in Nat
        /\ behind \in Nat /\ blind \in Nat
    BY <1>0 DEF SharingTypeOK
  <1>1. ASSUME NEW p \in BOOLEAN, NEW m \in Limits \cup {None}, CreateShare(p, m)
        PROVE  Rest'
    <2>1. /\ Inside' = {} /\ counted' = 0 /\ uncounted' = 0 /\ lost' = 0
          /\ share'.max = m /\ share'.state # "none"
      BY <1>1, <1>e DEF CreateShare, NobodyBefore, counters, results, Inside
    <2>2. m # None => m \in Nat
      BY ConstantsAssumption
    <2>3. /\ behind' \in Nat /\ blind' \in Nat /\ served' = served /\ counted' = counted
          /\ uncounted' = uncounted /\ lost' = lost
      BY <1>0, <1>1 DEF CreateShare, SharingTypeOK, counters, results
    <2> QED BY <1>e, <2>1, <2>2, <2>3, FS_EmptySet
            DEF ServedIsSeen, AdmittedBounded, NobodyBefore
  <1>2. CASE CloseShare
    BY <1>0, <1>e, <1>2 DEF CloseShare, counters, results, ServedIsSeen, AdmittedBounded,
       NobodyBefore, Inside, SharingTypeOK
  <1>3. ASSUME NEW v \in Visitors, NEW t \in Transforms \cup {"original", "invalid"},
               NEW k \in BOOLEAN, Arrive(v, t, k)
        PROVE  Rest'
    <2>1. Inside' = Inside
      BY <1>0, <1>3 DEF Arrive, Inside, Away, SharingTypeOK
    <2>2. share.state = "none" => visit' = visit
      BY <1>0, <1>3 DEF Arrive, SharingTypeOK, GetFileShareByToken
    <2> QED BY <1>e, <1>3, <2>1, <2>2
            DEF Arrive, counters, results, ServedIsSeen, AdmittedBounded, NobodyBefore
  <1>4. ASSUME NEW v \in Visitors, visit[v].at # "away" PROVE share.state # "none"
    BY <1>e, <1>4 DEF NobodyBefore, Away
  <1>5. ASSUME NEW v \in Visitors, ReadLimit(v) PROVE Rest'
    <2>0. /\ share.state # "none" /\ visit[v].at = "limit"
          /\ UNCHANGED <<share, counted, uncounted, lost, served, blind>>
      BY <1>4, <1>5 DEF ReadLimit
    <2>1. CASE share.max # None /\ IsShareDownloadLimitReached
      <3>1. Leave(v) /\ UNCHANGED behind
        BY <1>5, <2>1 DEF ReadLimit
      <3>2. Inside' = Inside
        BY <1>0, <2>0, <3>1 DEF Leave, Inside, SharingTypeOK, Away
      <3> QED BY <1>e, <2>0, <3>1, <3>2 DEF ServedIsSeen, AdmittedBounded, NobodyBefore
    <2>2. CASE ~(share.max # None /\ IsShareDownloadLimitReached)
      <3>1. LetThrough(v)
        BY <1>5, <2>2 DEF ReadLimit
      <3>2. Cardinality(Inside') = Cardinality(Inside) + 1
        BY <1>0, <2>0, <3>1, Joins
      <3>3. behind' >= Unseen /\ Unseen = uncounted + lost + Cardinality(Inside)
        BY <1>0, <1>c, <3>1 DEF LetThrough, Unseen, Inside, SharingTypeOK
      <3>4. share.max # None => counted < share.max
        BY <1>0, <1>c, <2>2 DEF IsShareDownloadLimitReached, SharingTypeOK
      <3>5. AdmittedBounded'
        BY <1>0, <1>c, <2>0, <3>2, <3>3, <3>4 DEF AdmittedBounded, SharingTypeOK
      <3> QED BY <1>e, <2>0, <3>5 DEF ServedIsSeen, NobodyBefore
    <2> QED BY <2>1, <2>2
  <1>6. ASSUME NEW v \in Visitors, MissLimit(v) PROVE Rest'
    <2>0. /\ share.state # "none" /\ visit[v].at = "limit" /\ LetThrough(v)
          /\ UNCHANGED <<share, counted, uncounted, lost, served>>
          /\ blind' = blind + 1
      BY <1>4, <1>6 DEF MissLimit
    <2>1. Cardinality(Inside') = Cardinality(Inside) + 1
      BY <1>0, <2>0, Joins
    <2>2. behind' >= behind
      BY <1>0, <1>c, <2>0 DEF LetThrough, Unseen, Inside, SharingTypeOK
    <2>3. AdmittedBounded'
      BY <1>0, <1>c, <1>e, <2>0, <2>1, <2>2 DEF AdmittedBounded, SharingTypeOK
    <2> QED BY <1>e, <2>0, <2>3 DEF ServedIsSeen, NobodyBefore
  <1>7. ASSUME NEW v \in Visitors, ReadTransforms(v) PROVE Rest'
    <2>0. /\ share.state # "none" /\ visit[v].at = "parse"
          /\ UNCHANGED <<share, counted, uncounted, lost, served, behind, blind>>
      BY <1>4, <1>7 DEF ReadTransforms, counters, results
    <2>1. Cardinality(Inside') <= Cardinality(Inside) /\ Cardinality(Inside') \in Nat
      <3>1. CASE ParseTransforms(visit[v].transform)
        <4>1. visit[v] # Away
          BY <2>0 DEF Away
        <4>2. PICK where \in {"process", "serve"} :
                visit' = [visit EXCEPT ![v] = [@ EXCEPT !.at = where]]
          BY <1>7, <3>1 DEF ReadTransforms
        <4>3. Inside' = Inside
          BY <1>0, <2>0, <4>1, <4>2 DEF Inside, SharingTypeOK
        <4> QED BY <1>c, <4>3
      <3>2. CASE ~ParseTransforms(visit[v].transform)
        <4>1. Leave(v)
          BY <1>7, <3>2 DEF ReadTransforms, Leave
        <4> QED BY <1>0, <1>c, <2>0, <4>1, Leaves, ConstantsAssumption, Counting DEF Inside
      <3> QED BY <3>1, <3>2
    <2>2. AdmittedBounded'
      BY <1>0, <1>c, <1>e, <2>0, <2>1 DEF AdmittedBounded, SharingTypeOK
    <2> QED BY <1>e, <2>0, <2>2 DEF ServedIsSeen, NobodyBefore
  <1>8. ASSUME NEW v \in Visitors, ServeOriginal(v) \/ ServeTransform(v) PROVE Rest'
    <2>0. /\ share.state # "none" /\ visit[v].at \in {"serve", "process"} /\ Leave(v)
          /\ UNCHANGED <<share, counted, lost, behind, blind>>
          /\ \/ uncounted' = uncounted + 1 /\ served' \in {served, served + 1}
             \/ uncounted' = uncounted /\ served' = served
      BY <1>4, <1>8 DEF ServeOriginal, ServeTransform
    <2>1. Cardinality(Inside') = Cardinality(Inside) - 1
      BY <1>0, <2>0, Leaves
    <2>2. AdmittedBounded' /\ ServedIsSeen'
      BY <1>n, <1>c, <1>e, <2>0, <2>1 DEF AdmittedBounded, ServedIsSeen
    <2> QED BY <2>0, <2>2 DEF NobodyBefore
  <1>9. CASE IncrementShareAccessCount
    BY <1>e, <1>9 DEF IncrementShareAccessCount, results, ServedIsSeen,
       AdmittedBounded, NobodyBefore, Inside
  <1>10. CASE IncrementShareDownloadCount
    <2>0. /\ share.state # "none" /\ UNCHANGED <<share, visit, served, behind, blind>>
          /\ uncounted' = uncounted - 1
          /\ \/ counted' = counted + 1 /\ lost' = lost
             \/ counted' = counted /\ lost' = lost + 1
      BY <1>e, <1>10 DEF IncrementShareDownloadCount, NobodyBefore
    <2>1. Inside' = Inside
      BY <2>0 DEF Inside
    <2>2. AdmittedBounded' /\ ServedIsSeen'
      BY <1>n, <1>c, <1>e, <2>0, <2>1 DEF AdmittedBounded, ServedIsSeen
    <2> QED BY <2>0, <2>2 DEF NobodyBefore
  <1>11. CASE UNCHANGED shareVars
    BY <1>e, <1>11 DEF shareVars, counters, results, ServedIsSeen, AdmittedBounded,
       NobodyBefore, Inside
  <1> QED BY <1>1, <1>2, <1>3, <1>5, <1>6, <1>7, <1>8, <1>9, <1>10, <1>11 DEF SharingNext

(* The invariant of the shares holds of every behaviour.                   *)
THEOREM SharingInvariance == SharingSpec => []SharingInv
  <1>1. SharingInit => SharingInv
    BY FS_EmptySet DEF SharingInit, SharingInv, SharingTypeOK, ServedIsSeen, AdmittedBounded,
       NobodyBefore, Inside, Away
  <1> QED BY <1>1, SharingStep, PTL DEF SharingSpec

(* A share with a limit serves no more than its limit, what was uncounted  *)
(* when a request was let through, and what read no limit.                 *)
THEOREM SharesAreBounded == SharingSpec => []ServedBounded
  <1>1. SharingInv => ServedBounded
    <2> SUFFICES ASSUME SharingInv PROVE ServedBounded
      OBVIOUS
    <2>1. Cardinality(Inside) \in Nat
      BY ConstantsAssumption, Counting DEF Inside
    <2>2. share.max # None => share.max \in Nat
      BY ConstantsAssumption DEF SharingInv, SharingTypeOK
    <2> QED BY <2>1, <2>2 DEF SharingInv, SharingTypeOK, ServedIsSeen, AdmittedBounded,
               ServedBounded
  <1> QED BY <1>1, SharingInvariance, PTL

----------------------------------------------------------------------------
(* Folders: rows, and what a handler has in hand.                          *)

FolderRows == [user : Users, parent : FolderIds \cup {Root}, name : Names, path : Seq(Names)]
Creations == [at : {"create"}, user : Users, parent : FolderIds \cup {Root}, name : Names,
              path : Seq(Names)]
Updates == [at : {"update"}, user : Users, folder : FolderIds,
            parent : FolderIds \cup {Root}, name : Names, path : Seq(Names), fails : BOOLEAN]
Moves == [at : {"move"}, user : Users, file : Files, folder : FolderIds \cup {Root}]

FoldersTypeOK ==
  /\ Rows \subseteq FolderIds /\ folders \in [Rows -> FolderRows]
  /\ unused \subseteq FolderIds /\ Rows \cap unused = {}
  /\ place \in [Files -> FolderIds \cup {Root}]
  /\ call \in [Slots -> {Idle} \cup Creations \cup Updates \cup Moves]

\* A place for what u puts there: the root, or a folder that exists or did, and
\* is of u if it exists.
PlaceOf(u, d) ==
  d = Root \/ (d \in FolderIds \ unused /\ (d \in Rows => folders[d].user = u))

ParentsThere == \A d \in Rows : /\ folders[d].parent \in Rows \cup {Root}
                                /\ PlaceOf(folders[d].user, folders[d].parent)

FilesPlaced == \A f \in Files : /\ place[f] \in Rows \cup {Root}
                                /\ PlaceOf(OwnerOf[f], place[f])

\* What a handler has read is still true of a folder that was not written since.
ReadHolds(c) ==
  /\ c.at \in {"create", "update"} =>
       /\ PlaceOf(c.user, c.parent)
       /\ c.parent \in {Root} \cup (Rows \ moved) /\ ~(c.at = "update" /\ c.fails)
            => c.path = PathBelow(c.parent, c.name)
  /\ c.at = "move" => PlaceOf(c.user, c.folder)

ReadsHold == \A s \in Slots : ReadHolds(call[s])

PathsFollowParents ==
  \A d \in Rows :
    LET p == folders[d].parent IN
    p \notin moved /\ d \notin misread => folders[d].path = PathBelow(p, folders[d].name)

FoldersInv ==
  FoldersTypeOK /\ ParentsThere /\ FilesPlaced /\ ReadsHold /\ PathsFollowParents

(* What the foreign keys delete with the rows of S: S, and with each row   *)
(* its children.                                                           *)
LEMMA CascadeClosed ==
  ASSUME NEW S \in SUBSET Rows
  PROVE  /\ Cascade(S) \in SUBSET Rows /\ S \subseteq Cascade(S)
         /\ \A d \in Cascade(S) : Children(d) \subseteq Cascade(S)
  <1> DEFINE Closed(X) == S \subseteq X /\ (\A d \in X : Children(d) \subseteq X)
             T == {d \in Rows : \A X \in SUBSET Rows : Closed(X) => d \in X}
  <1>1. T \in SUBSET Rows /\ S \subseteq T
    OBVIOUS
  <1>2. \A d \in T : Children(d) \subseteq T
    <2> SUFFICES ASSUME NEW d \in T, NEW x \in Children(d), NEW X \in SUBSET Rows, Closed(X)
                 PROVE  x \in X
      BY DEF Children
    <2> QED OBVIOUS
  <1>3. \A X \in SUBSET Rows : Closed(X) => T \subseteq X
    OBVIOUS
  <1>4. \E U \in SUBSET Rows :
          /\ S \subseteq U
          /\ \A d \in U : Children(d) \subseteq U
          /\ \A X \in SUBSET Rows :
               S \subseteq X /\ (\A d \in X : Children(d) \subseteq X) => U \subseteq X
    <2> HIDE DEF T
    <2> QED BY <1>1, <1>2, <1>3
  <1> QED BY <1>4 DEF Cascade

(* A path below a folder is the folder's path and the name.                *)
LEMMA PathBelowIs ==
  ASSUME NEW s \in Seq(Names), NEW n \in Names
  PROVE  /\ Append(s, n) = s \o <<n>> /\ Append(s, n) \in Seq(Names)
         /\ <<n>> = <<>> \o <<n>> /\ <<n>> \in Seq(Names)
  OBVIOUS

(* What a handler knows.                                                   *)
LEMMA CallIs ==
  ASSUME FoldersTypeOK, NEW s \in Slots
  PROVE  /\ call[s].at = "create" => call[s] \in Creations
         /\ call[s].at = "update" => call[s] \in Updates
         /\ call[s].at = "move" => call[s] \in Moves
  <1>1. call[s] \in {Idle} \cup Creations \cup Updates \cup Moves
    BY DEF FoldersTypeOK
  <1>2. CASE call[s] = Idle
    BY <1>2 DEF Idle
  <1>3. CASE call[s] \in Creations
    BY <1>3 DEF Creations
  <1>4. CASE call[s] \in Updates
    BY <1>4 DEF Updates
  <1>5. CASE call[s] \in Moves
    BY <1>5 DEF Moves
  <1> QED BY <1>1, <1>2, <1>3, <1>4, <1>5

(* The fields of a row.                                                    *)
LEMMA RowIs ==
  ASSUME FoldersTypeOK, NEW d \in Rows
  PROVE  /\ d \in FolderIds /\ d # Root /\ d \notin unused
         /\ folders[d].user \in Users /\ folders[d].parent \in FolderIds \cup {Root}
         /\ folders[d].name \in Names /\ folders[d].path \in Seq(Names)
         /\ folders[d] \in FolderRows
  <1>1. folders[d] \in FolderRows
    BY DEF FoldersTypeOK
  <1> QED BY <1>1, FoldersAssumption DEF FolderRows, FoldersTypeOK

(* The path of a new name has the type of a path.                          *)
LEMMA PathBelowType ==
  ASSUME FoldersTypeOK, NEW d \in Rows \cup {Root}, NEW n \in Names
  PROVE  PathBelow(d, n) \in Seq(Names)
  BY RowIs, PathBelowIs DEF PathBelow

----------------------------------------------------------------------------
(* The steps.                                                              *)

(* A handler that only reads, or answers without a change.                 *)
LEMMA OnlyCalls ==
  ASSUME FoldersInv, UNCHANGED <<folders, unused, place, moved, misread>>,
         NEW s \in Slots, NEW c, call' = [call EXCEPT ![s] = c],
         \/ c = Idle
         \/ /\ c \in Creations \cup Updates /\ PlaceOf(c.user, c.parent)
            /\ (c.at = "update" /\ c.fails) \/ c.path = PathBelow(c.parent, c.name)
         \/ c \in Moves /\ PlaceOf(c.user, c.folder)
  PROVE  FoldersInv'
  <1>1. FoldersTypeOK'
    BY DEF FoldersInv, FoldersTypeOK, Rows
  <1>2. ParentsThere' /\ FilesPlaced' /\ PathsFollowParents'
    BY DEF FoldersInv, ParentsThere, FilesPlaced, PathsFollowParents, PlaceOf, Rows, PathBelow
  <1>3. ASSUME NEW x \in Slots, x # s PROVE call'[x] = call[x]
    BY <1>3 DEF FoldersInv, FoldersTypeOK
  <1>4. call'[s] = c
    BY DEF FoldersInv, FoldersTypeOK
  <1>5. ASSUME NEW k, ReadHolds(k) PROVE ReadHolds(k)'
    BY <1>5 DEF ReadHolds, PlaceOf, PathBelow, Rows
  <1>6. ReadHolds(c)
    <2>1. CASE c = Idle
      BY <2>1 DEF Idle, ReadHolds
    <2>2. CASE c \in Creations \cup Updates
      <3>1. c.at \in {"create", "update"}
        BY <2>2 DEF Creations, Updates
      <3>2. c # Idle /\ c \notin Moves
        BY <3>1 DEF Idle, Moves
      <3> QED BY <3>1, <3>2 DEF ReadHolds
    <2>3. CASE c \in Moves
      <3>1. c.at = "move"
        BY <2>3 DEF Moves
      <3>2. c # Idle /\ c \notin Creations \cup Updates
        BY <3>1 DEF Idle, Creations, Updates
      <3> QED BY <3>1, <3>2 DEF ReadHolds
    <2> QED BY <2>1, <2>2, <2>3
  <1>7. ReadsHold'
    <2> SUFFICES ASSUME NEW x \in Slots PROVE ReadHolds(call[x])'
      BY DEF ReadsHold
    <2>1. CASE x # s
      BY <1>3, <1>5, <2>1 DEF FoldersInv, ReadsHold
    <2>2. CASE x = s
      BY <1>4, <1>5, <1>6, <2>2
    <2> QED BY <2>1, <2>2
  <1> QED BY <1>1, <1>2, <1>7 DEF FoldersInv

(* Requests that are read, before anything is written.                     *)
LEMMA ReadSteps ==
  ASSUME FoldersInv, NEW s \in Slots, NEW u \in Users, NEW n \in Names,
         NEW p \in FolderIds \cup {Root},
         ReadForCreate(s, u, p, n) \/ \E d \in FolderIds : ReadForUpdate(s, u, d, p, n)
  PROVE  FoldersInv'
  <1>0. FoldersTypeOK /\ ParentsThere /\ UNCHANGED <<folders, unused, place, moved, misread>>
    BY DEF FoldersInv, ReadForCreate, ReadForUpdate
  <1>1. \A d \in Rows : GetFolder(u, d) => PlaceOf(u, d)
    BY <1>0, RowIs DEF GetFolder, PlaceOf
  <1>2. p = Root \/ GetFolder(u, p) => PlaceOf(u, p) /\ p \in Rows \cup {Root}
    BY <1>1 DEF PlaceOf, GetFolder
  <1>3. ASSUME UNCHANGED call PROVE FoldersInv'
    BY <1>0, <1>3 DEF FoldersInv, FoldersTypeOK, ParentsThere, FilesPlaced, ReadsHold,
       ReadHolds, PathsFollowParents, PlaceOf, PathBelow, Rows
  <1>4. CASE ReadForCreate(s, u, p, n)
    <2>1. CASE p = Root \/ GetFolder(u, p)
      <3> DEFINE c == [at |-> "create", user |-> u, parent |-> p, name |-> n,
                       path |-> PathBelow(p, n)]
      <3>1. PathBelow(p, n) \in Seq(Names)
        BY <1>0, <1>2, <2>1, PathBelowType
      <3>2. /\ c \in Creations /\ PlaceOf(c.user, c.parent)
            /\ c.path = PathBelow(c.parent, c.name)
        BY <1>2, <2>1, <3>1 DEF Creations
      <3>3. call' = [call EXCEPT ![s] = c]
        BY <1>4, <2>1 DEF ReadForCreate
      <3> HIDE DEF c
      <3> QED BY <1>0, <3>2, <3>3, OnlyCalls
    <2>2. CASE ~(p = Root \/ GetFolder(u, p))
      BY <1>3, <1>4, <2>2 DEF ReadForCreate
    <2> QED BY <2>1, <2>2
  <1>5. ASSUME NEW d \in FolderIds, ReadForUpdate(s, u, d, p, n) PROVE FoldersInv'
    <2> DEFINE target == IF p = Root /\ d \in Rows THEN folders[d].parent ELSE p
    <2>1. CASE GetFolder(u, d) /\ (p = Root \/ GetFolder(u, p))
      <3>1. PlaceOf(u, target) /\ target \in Rows \cup {Root}
        BY <1>0, <1>2, <2>1 DEF GetFolder, ParentsThere
      <3> HIDE DEF target
      <3>2. PICK fails \in BOOLEAN :
              call' = [call EXCEPT ![s] =
                [at |-> "update", user |-> u, folder |-> d, parent |-> target, name |-> n,
                 path |-> PathBelow(IF fails THEN Root ELSE target, n), fails |-> fails]]
        BY <1>5, <2>1 DEF ReadForUpdate, target
      <3> DEFINE c == [at |-> "update", user |-> u, folder |-> d, parent |-> target,
                       name |-> n, path |-> PathBelow(IF fails THEN Root ELSE target, n),
                       fails |-> fails]
      <3>3. PathBelow(IF fails THEN Root ELSE target, n) \in Seq(Names)
        BY <1>0, <3>1, PathBelowType
      <3>4. target \in FolderIds \cup {Root}
        BY <1>0, <3>1 DEF FoldersTypeOK
      <3>5. /\ c \in Updates /\ PlaceOf(c.user, c.parent) /\ call' = [call EXCEPT ![s] = c]
            /\ (c.at = "update" /\ c.fails) \/ c.path = PathBelow(c.parent, c.name)
        BY <3>1, <3>2, <3>3, <3>4 DEF Updates
      <3> HIDE DEF c
      <3> QED BY <1>0, <3>5, OnlyCalls
    <2>2. CASE ~(GetFolder(u, d) /\ (p = Root \/ GetFolder(u, p)))
      BY <1>3, <1>5, <2>2 DEF ReadForUpdate
    <2> QED BY <2>1, <2>2
  <1> QED BY <1>4, <1>5

(* A move of a file reads the folder it goes to.                           *)
LEMMA ReadMoveStep ==
  ASSUME FoldersInv, NEW s \in Slots, NEW u \in Users, NEW f \in Files,
         NEW p \in FolderIds \cup {Root}, ReadForMove(s, u, f, p)
  PROVE  FoldersInv'
  <1>0. FoldersTypeOK /\ UNCHANGED <<folders, unused, place, moved, misread>>
    BY DEF FoldersInv, ReadForMove
  <1>1. CASE p = Root \/ GetFolder(u, p)
    <2> DEFINE c == [at |-> "move", user |-> u, file |-> f, folder |-> p]
    <2>1. PlaceOf(u, p)
      BY <1>0, <1>1, RowIs DEF GetFolder, PlaceOf
    <2>2. c \in Moves /\ PlaceOf(c.user, c.folder) /\ call' = [call EXCEPT ![s] = c]
      BY <1>1, <2>1 DEF Moves, ReadForMove
    <2> HIDE DEF c
    <2> QED BY <1>0, <2>2, OnlyCalls
  <1>2. CASE ~(p = Root \/ GetFolder(u, p))
    BY <1>0, <1>2 DEF ReadForMove, FoldersInv, FoldersTypeOK, ParentsThere, FilesPlaced,
       ReadsHold, ReadHolds, PathsFollowParents, PlaceOf, PathBelow, Rows
  <1> QED BY <1>1, <1>2

(* A new folder.                                                           *)
LEMMA CreateStep ==
  ASSUME FoldersInv, NEW s \in Slots, NEW d \in FolderIds, CreateFolder(s, d)
  PROVE  FoldersInv'
  <1> DEFINE c == call[s]
  <1>0. /\ FoldersTypeOK /\ ParentsThere /\ FilesPlaced /\ ReadsHold /\ PathsFollowParents
        /\ c \in Creations /\ d \in unused /\ c.at = "create"
        /\ UNCHANGED <<place, moved, misread>> /\ call' = [call EXCEPT ![s] = Idle]
    BY CallIs DEF FoldersInv, CreateFolder, Answer
  <1>1. CASE ~Accepted(c.parent, c.name, {})
    BY <1>0, <1>1, OnlyCalls DEF CreateFolder
  <1>2. CASE Accepted(c.parent, c.name, {})
    <2> DEFINE r == [user |-> c.user, parent |-> c.parent, name |-> c.name, path |-> c.path]
    <2>0. /\ folders' = [x \in Rows \cup {d} |-> IF x = d THEN r ELSE folders[x]]
          /\ unused' = unused \ {d} /\ d \notin Rows
      BY <1>0, <1>2 DEF CreateFolder, FoldersTypeOK
    <2>1. /\ Rows' = Rows \cup {d} /\ folders'[d] = r
          /\ \A x \in Rows : folders'[x] = folders[x]
      BY <2>0 DEF Rows
    <2>2. /\ r \in FolderRows /\ r.user = c.user /\ r.parent = c.parent /\ r.name = c.name
          /\ r.path = c.path
      BY <1>0 DEF Creations, FolderRows
    <2>3. /\ c.parent \in Rows \cup {Root} /\ PlaceOf(c.user, c.parent)
          /\ c.parent \notin moved => c.path = PathBelow(c.parent, c.name)
      BY <1>0, <1>2 DEF Accepted, ReadsHold, ReadHolds
    <2> HIDE DEF r, c
    <2>4. FoldersTypeOK'
      <3>1. folders' \in [Rows' -> FolderRows]
        BY <1>0, <2>0, <2>1, <2>2 DEF FoldersTypeOK
      <3>2. call' \in [Slots -> {Idle} \cup Creations \cup Updates \cup Moves]
        BY <1>0 DEF FoldersTypeOK
      <3> QED BY <1>0, <2>0, <2>1, <3>1, <3>2 DEF FoldersTypeOK
    <2>5. ASSUME NEW u \in Users, NEW x, PlaceOf(u, x)
          PROVE  PlaceOf(u, x)' /\ x # d
      BY <1>0, <2>0, <2>1, <2>5, FoldersAssumption DEF PlaceOf
    <2>6. \A x \in Rows \cup {Root} : \A n : PathBelow(x, n)' = PathBelow(x, n)
      BY <1>0, <2>1, FoldersAssumption DEF PathBelow, FoldersTypeOK
    <2>7. ParentsThere'
      <3> SUFFICES ASSUME NEW x \in Rows'
                   PROVE  /\ folders'[x].parent \in Rows' \cup {Root}
                          /\ PlaceOf(folders[x].user, folders[x].parent)'
        BY DEF ParentsThere
      <3>1. CASE x = d
        BY <1>0, <2>1, <2>2, <2>3, <2>5, <3>1 DEF Creations, c
      <3>2. CASE x \in Rows
        BY <1>0, <2>1, <2>5, <3>2, RowIs DEF ParentsThere
      <3> QED BY <2>1, <3>1, <3>2
    <2>8. FilesPlaced'
      BY <1>0, <2>1, <2>5, FoldersAssumption DEF FilesPlaced
    <2>9. ReadsHold'
      <3> SUFFICES ASSUME NEW x \in Slots PROVE ReadHolds(call[x])'
        BY DEF ReadsHold
      <3>1. CASE x = s
        BY <1>0, <3>1 DEF FoldersTypeOK, Idle, ReadHolds
      <3>2. CASE x # s
        <4>1. call'[x] = call[x] /\ ReadHolds(call[x])
          BY <1>0, <3>2 DEF FoldersTypeOK, ReadsHold
        <4>2. CASE call[x].at \in {"create", "update"}
          <5>1. call[x].user \in Users /\ call[x].at # "move"
            BY <1>0, <4>2, CallIs DEF Creations, Updates
          <5>2. PlaceOf(call[x].user, call[x].parent)' /\ call[x].parent # d
            BY <2>5, <4>1, <4>2, <5>1 DEF ReadHolds
          <5> QED BY <1>0, <2>1, <2>6, <4>1, <4>2, <5>1, <5>2 DEF ReadHolds
        <4>3. CASE call[x].at = "move"
          <5>1. call[x].user \in Users /\ call[x].at \notin {"create", "update"}
            BY <1>0, <4>3, CallIs DEF Moves
          <5> QED BY <2>5, <4>1, <4>3, <5>1 DEF ReadHolds
        <4>4. CASE call[x].at \notin {"create", "update", "move"}
          BY <4>1, <4>4 DEF ReadHolds
        <4> QED BY <4>2, <4>3, <4>4
      <3> QED BY <3>1, <3>2
    <2>10. PathsFollowParents'
      <3> SUFFICES ASSUME NEW x \in Rows', folders'[x].parent \notin moved, x \notin misread
                   PROVE  folders'[x].path = PathBelow(folders[x].parent, folders[x].name)'
        BY <1>0 DEF PathsFollowParents
      <3>1. CASE x = d
        BY <2>1, <2>2, <2>3, <2>6, <3>1
      <3>2. CASE x \in Rows
        BY <1>0, <2>1, <2>6, <3>2 DEF PathsFollowParents, ParentsThere
      <3> QED BY <2>1, <3>1, <3>2
    <2> QED BY <2>4, <2>7, <2>8, <2>9, <2>10 DEF FoldersInv
  <1> QED BY <1>1, <1>2

(* A folder is written again.                                              *)
LEMMA UpdateStep ==
  ASSUME FoldersInv, NEW s \in Slots, UpdateFolder(s)
  PROVE  FoldersInv'
  <1> DEFINE c == call[s]  d == c.folder
  <1>0. /\ FoldersTypeOK /\ ParentsThere /\ FilesPlaced /\ ReadsHold /\ PathsFollowParents
        /\ c \in Updates /\ c.at = "update"
        /\ UNCHANGED <<unused, place>> /\ call' = [call EXCEPT ![s] = Idle]
    BY CallIs DEF FoldersInv, UpdateFolder, Answer
  <1>1. CASE ~(GetFolder(c.user, d) /\ Accepted(c.parent, c.name, {d}))
    BY <1>0, <1>1, OnlyCalls DEF UpdateFolder
  <1>2. CASE GetFolder(c.user, d) /\ Accepted(c.parent, c.name, {d})
    <2> DEFINE r == [folders[d] EXCEPT !.parent = c.parent, !.name = c.name, !.path = c.path]
    <2>0. /\ folders' = [folders EXCEPT ![d] = r] /\ d \in Rows
          /\ moved' = moved \cup {d}
          /\ misread' = IF c.fails THEN misread \cup {d} ELSE misread \ {d}
          /\ folders[d].user = c.user
      BY <1>2 DEF UpdateFolder, GetFolder
    <2>1. /\ Rows' = Rows /\ folders'[d] = r
          /\ \A x \in Rows \ {d} : folders'[x] = folders[x]
      BY <1>0, <2>0 DEF Rows, FoldersTypeOK
    <2>2. /\ r \in FolderRows /\ r.user = folders[d].user /\ r.parent = c.parent
          /\ r.name = c.name /\ r.path = c.path
      <3>1. folders[d] \in FolderRows
        BY <1>0, <2>0, RowIs
      <3>2. /\ c.parent \in FolderIds \cup {Root} /\ c.name \in Names
            /\ c.path \in Seq(Names)
        BY <1>0 DEF Updates
      <3> QED BY <3>1, <3>2 DEF FolderRows
    <2>3. /\ c.parent \in Rows \cup {Root} /\ PlaceOf(c.user, c.parent)
          /\ c.parent \notin moved /\ ~c.fails => c.path = PathBelow(c.parent, c.name)
      BY <1>0, <1>2 DEF Accepted, ReadsHold, ReadHolds
    <2> HIDE DEF r, c, d
    <2>4. FoldersTypeOK'
      <3>1. folders' \in [Rows' -> FolderRows]
        BY <1>0, <2>0, <2>1, <2>2 DEF FoldersTypeOK
      <3>2. call' \in [Slots -> {Idle} \cup Creations \cup Updates \cup Moves]
        BY <1>0 DEF FoldersTypeOK
      <3> QED BY <1>0, <2>1, <3>1, <3>2 DEF FoldersTypeOK
    <2>5. ASSUME NEW u, NEW x, PlaceOf(u, x) PROVE PlaceOf(u, x)'
      BY <1>0, <2>1, <2>2, <2>5 DEF PlaceOf
    <2>6. \A x \in (Rows \ {d}) \cup {Root} : \A n : PathBelow(x, n)' = PathBelow(x, n)
      BY <1>0, <2>1, FoldersAssumption DEF PathBelow, FoldersTypeOK
    <2>7. ParentsThere'
      <3> SUFFICES ASSUME NEW x \in Rows
                   PROVE  /\ folders'[x].parent \in Rows \cup {Root}
                          /\ PlaceOf(folders[x].user, folders[x].parent)'
        BY <2>1 DEF ParentsThere
      <3>1. CASE x = d
        BY <2>0, <2>1, <2>2, <2>3, <2>5, <3>1
      <3>2. CASE x # d
        BY <1>0, <2>1, <2>5, <3>2 DEF ParentsThere
      <3> QED BY <3>1, <3>2
    <2>8. FilesPlaced'
      BY <1>0, <2>1, <2>5 DEF FilesPlaced
    <2>9. ReadsHold'
      <3> SUFFICES ASSUME NEW x \in Slots PROVE ReadHolds(call[x])'
        BY DEF ReadsHold
      <3>1. CASE x = s
        BY <1>0, <3>1 DEF FoldersTypeOK, Idle, ReadHolds
      <3>2. CASE x # s
        <4>1. call'[x] = call[x] /\ ReadHolds(call[x])
          BY <1>0, <3>2 DEF FoldersTypeOK, ReadsHold
        <4> QED BY <2>0, <2>1, <2>5, <2>6, <4>1 DEF ReadHolds
      <3> QED BY <3>1, <3>2
    <2>10. PathsFollowParents'
      <3> SUFFICES ASSUME NEW x \in Rows, folders'[x].parent \notin moved', x \notin misread'
                   PROVE  folders'[x].path = PathBelow(folders[x].parent, folders[x].name)'
        BY <2>1 DEF PathsFollowParents
      <3>0. folders'[x].parent # d /\ folders'[x].parent \notin moved
        BY <2>0
      <3>1. CASE x = d
        BY <2>0, <2>1, <2>2, <2>3, <2>6, <3>0, <3>1
      <3>2. CASE x # d
        BY <1>0, <2>0, <2>1, <2>6, <3>0, <3>2, SMTT(30) DEF PathsFollowParents, ParentsThere
      <3> QED BY <3>1, <3>2
    <2> QED BY <2>4, <2>7, <2>8, <2>9, <2>10 DEF FoldersInv
  <1> QED BY <1>1, <1>2

(* Rows go, with their children.                                           *)
LEMMA DropStep ==
  ASSUME FoldersInv, NEW S \in SUBSET Rows, \A d \in S : Children(d) \subseteq S,
         Drop(S), UNCHANGED <<unused, call, moved, misread>>
  PROVE  FoldersInv'
  <1>0. FoldersTypeOK /\ ParentsThere /\ FilesPlaced /\ ReadsHold /\ PathsFollowParents
    BY DEF FoldersInv
  <1>1. /\ Rows' = Rows \ S /\ \A x \in Rows \ S : folders'[x] = folders[x]
        /\ folders' = [d \in Rows \ S |-> folders[d]]
        /\ place' = [f \in Files |-> IF place[f] \in S THEN Root ELSE place[f]]
    BY DEF Drop, Rows
  <1>2. FoldersTypeOK'
    <2>1. folders' \in [Rows' -> FolderRows]
      BY <1>0, <1>1, RowIs
    <2> QED BY <1>0, <1>1, <2>1 DEF FoldersTypeOK
  <1>3. ASSUME NEW u, NEW x, PlaceOf(u, x) PROVE PlaceOf(u, x)'
    BY <1>1, <1>3 DEF PlaceOf
  <1>4. \A x \in (Rows \ S) \cup {Root} : \A n : PathBelow(x, n)' = PathBelow(x, n)
    BY <1>0, <1>1, FoldersAssumption DEF PathBelow, FoldersTypeOK
  <1>5. ASSUME NEW x \in Rows \ S
        PROVE  /\ folders'[x].parent \in (Rows \ S) \cup {Root}
               /\ PlaceOf(folders[x].user, folders[x].parent)'
    <2>1. folders[x].parent \notin S
      BY DEF Children
    <2> QED BY <1>0, <1>1, <1>3, <2>1 DEF ParentsThere
  <1>6. ParentsThere'
    BY <1>1, <1>5 DEF ParentsThere
  <1>7. FilesPlaced'
    BY <1>0, <1>1, <1>3 DEF FilesPlaced, PlaceOf
  <1>8. ReadsHold'
    <2> SUFFICES ASSUME NEW x \in Slots PROVE ReadHolds(call[x])'
      BY DEF ReadsHold
    <2>1. ReadHolds(call[x])
      BY <1>0 DEF ReadsHold
    <2> QED BY <1>1, <1>3, <1>4, <2>1 DEF ReadHolds
  <1>9. PathsFollowParents'
    BY <1>0, <1>1, <1>4, <1>5 DEF PathsFollowParents
  <1> QED BY <1>2, <1>6, <1>7, <1>8, <1>9 DEF FoldersInv

(* A file moves into a folder.                                             *)
LEMMA MoveStep ==
  ASSUME FoldersInv, NEW s \in Slots, MoveFileToFolder(s)
  PROVE  FoldersInv'
  <1> DEFINE c == call[s]
  <1>0. /\ FoldersTypeOK /\ ParentsThere /\ FilesPlaced /\ ReadsHold /\ PathsFollowParents
        /\ c \in Moves /\ c.at = "move" /\ PlaceOf(c.user, c.folder)
        /\ UNCHANGED <<folders, unused, moved, misread>>
        /\ call' = [call EXCEPT ![s] = Idle]
    BY CallIs DEF FoldersInv, MoveFileToFolder, Answer, ReadsHold, ReadHolds
  <1>1. CASE UNCHANGED place
    BY <1>0, <1>1, OnlyCalls
  <1>2. CASE ~UNCHANGED place
    <2>1. /\ Movable(c.user, c.file) /\ c.folder \in Rows \cup {Root}
          /\ place' = [place EXCEPT ![c.file] = c.folder]
      BY <1>2 DEF MoveFileToFolder
    <2>2. c.folder \in FolderIds \cup {Root} /\ OwnerOf[c.file] = c.user
      BY <1>0, <2>1 DEF Moves, Movable
    <2> HIDE DEF c
    <2>3. FoldersTypeOK'
      BY <1>0, <2>1, <2>2 DEF FoldersTypeOK, Rows
    <2>4. Rows' = Rows /\ \A u, x : PlaceOf(u, x)' = PlaceOf(u, x)
      BY <1>0 DEF Rows, PlaceOf
    <2>5. ParentsThere' /\ PathsFollowParents'
      BY <1>0, <2>4 DEF ParentsThere, PathsFollowParents, PathBelow
    <2>6. FilesPlaced'
      BY <1>0, <2>1, <2>2, <2>4 DEF FilesPlaced, FoldersTypeOK
    <2>7. ReadsHold'
      <3> SUFFICES ASSUME NEW x \in Slots PROVE ReadHolds(call[x])'
        BY DEF ReadsHold
      <3>1. CASE x = s
        BY <1>0, <3>1 DEF FoldersTypeOK, Idle, ReadHolds
      <3>2. CASE x # s
        <4>1. call'[x] = call[x] /\ ReadHolds(call[x])
          BY <1>0, <3>2 DEF FoldersTypeOK, ReadsHold
        <4> QED BY <1>0, <2>4, <4>1 DEF ReadHolds, PathBelow
      <3> QED BY <3>1, <3>2
    <2> QED BY <2>3, <2>5, <2>6, <2>7 DEF FoldersInv
  <1> QED BY <1>1, <1>2

(* Every step keeps the tree, the files in it and the paths.               *)
LEMMA FoldersStep == FoldersInv /\ [FoldersNext]_folderVars => FoldersInv'
  <1> SUFFICES ASSUME FoldersInv, [FoldersNext]_folderVars PROVE FoldersInv'
    OBVIOUS
  <1>1. ASSUME UNCHANGED <<folders, unused, place, call, moved, misread>> PROVE FoldersInv'
    BY <1>1 DEF FoldersInv, FoldersTypeOK, ParentsThere, FilesPlaced, ReadsHold,
       ReadHolds, PathsFollowParents, PlaceOf, PathBelow, Rows
  <1>2. ASSUME NEW s \in Slots, NEW u \in Users, NEW n \in Names,
               NEW p \in FolderIds \cup {Root},
               ReadForCreate(s, u, p, n) \/ \E d \in FolderIds : ReadForUpdate(s, u, d, p, n)
        PROVE  FoldersInv'
    BY <1>2, ReadSteps
  <1>3. ASSUME NEW s \in Slots, NEW d \in FolderIds, CreateFolder(s, d) PROVE FoldersInv'
    BY <1>3, CreateStep
  <1>4. ASSUME NEW s \in Slots, UpdateFolder(s) PROVE FoldersInv'
    BY <1>4, UpdateStep
  <1>5. ASSUME NEW s \in Slots, NEW u \in Users, NEW f \in Files,
               NEW d \in FolderIds \cup {Root}, ReadForMove(s, u, f, d)
        PROVE  FoldersInv'
    BY <1>5, ReadMoveStep
  <1>6. ASSUME NEW s \in Slots, MoveFileToFolder(s) PROVE FoldersInv'
    BY <1>6, MoveStep
  <1>7. ASSUME NEW u \in Users, NEW d \in FolderIds,
               DeleteFolder(u, d) \/ DeleteFolderRecursive(u, d)
        PROVE  FoldersInv'
    <2>1. PICK S \in {{}} \cup {X \in {Cascade({d})} : d \in Rows} :
            Drop(S) /\ UNCHANGED <<unused, call, moved, misread>>
      BY <1>7 DEF DeleteFolder, DeleteFolderRecursive, GetFolder
    <2>2. CASE S = {}
      BY <2>1, <2>2, DropStep
    <2>3. CASE d \in Rows /\ S = Cascade({d})
      <3>1. /\ Cascade({d}) \in SUBSET Rows
            /\ \A x \in Cascade({d}) : Children(x) \subseteq Cascade({d})
        BY <2>3, CascadeClosed
      <3> QED BY <2>1, <2>3, <3>1, DropStep
    <2> QED BY <2>1, <2>2, <2>3
  <1>8. ASSUME NEW f \in Files, SoftDeleteFile(f) PROVE FoldersInv'
    BY <1>1, <1>8 DEF SoftDeleteFile
  <1>9. ASSUME NEW u \in Users, NEW t \in Tags,
               \/ \E f \in Files : AddTags(u, f, {t}) \/ AddTags(u, f, Tags) \/ RemoveTag(u, f, t)
               \/ \E n \in Tags : RenameTag(u, t, n)
               \/ DeleteTag(u, t)
        PROVE  FoldersInv'
    BY <1>1, <1>9 DEF AddTags, RemoveTag, RenameTag, DeleteTag
  <1>10. CASE UNCHANGED folderVars
    BY <1>1, <1>10 DEF folderVars
  <1> QED BY <1>2, <1>3, <1>4, <1>5, <1>6, <1>7, <1>8, <1>9, <1>10 DEF FoldersNext

(* The invariant of the folders holds of every behaviour.                  *)
THEOREM FoldersInvariance == FoldersSpec => []FoldersInv
  <1>1. FoldersInit => FoldersInv
    BY DEF FoldersInit, FoldersInv, FoldersTypeOK, ParentsThere, FilesPlaced, ReadsHold,
       ReadHolds, PathsFollowParents, PlaceOf, Rows, Idle
  <1> QED BY <1>1, FoldersStep, PTL DEF FoldersSpec

(* A path is out of step with its parent's only if the parent was written  *)
(* again later or could not be read.                                       *)
THEOREM PathsFollowTheirParents == FoldersSpec => []PathFollowsParent
  <1>1. FoldersInv => PathFollowsParent
    <2> SUFFICES ASSUME FoldersInv, NEW d \in Rows,
                        folders[d].parent \notin moved, d \notin misread
                 PROVE  folders[d].path =
                          (IF folders[d].parent = Root THEN <<>>
                           ELSE folders[folders[d].parent].path) \o <<folders[d].name>>
      BY DEF PathFollowsParent
    <2> DEFINE p == folders[d].parent
    <2>1. /\ folders[d].path = PathBelow(p, folders[d].name) /\ folders[d].name \in Names
          /\ p \in Rows \cup {Root}
      BY RowIs DEF FoldersInv, PathsFollowParents, ParentsThere
    <2>2. CASE p = Root
      BY <2>1, <2>2, PathBelowIs DEF PathBelow
    <2>3. CASE p # Root
      <3>1. folders[p].path \in Seq(Names)
        BY <2>1, <2>3, RowIs DEF FoldersInv
      <3> QED BY <2>1, <2>3, <3>1, PathBelowIs DEF PathBelow
    <2> QED BY <2>2, <2>3
  <1> QED BY <1>1, FoldersInvariance, PTL

(* A user finds each of his folders and files in one list.                 *)
THEOREM EverythingIsShownOnce == FoldersSpec => []ShownOnce
  <1>1. FoldersInv => ShownOnce
    <2> SUFFICES ASSUME FoldersInv PROVE ShownOnce
      OBVIOUS
    <2>0. FoldersTypeOK /\ ParentsThere /\ FilesPlaced /\ Root \notin Rows /\ Rows \cap Files = {}
      BY FoldersAssumption DEF FoldersInv, FoldersTypeOK
    <2>1. ASSUME NEW d \in Rows
          PROVE  (d \in ListFolders(folders[d].user)) #
                   (\E x \in Rows : d \in GetFolderContents(folders[d].user, x))
      <3>1. d \in ListFolders(folders[d].user) <=> folders[d].parent = Root
        BY <2>0 DEF ListFolders, ListRootFolders, ListFilesInRoot, ListFilesInFolder
      <3>2. (\E x \in Rows : d \in GetFolderContents(folders[d].user, x))
              <=> folders[d].parent \in Rows
        BY <2>0 DEF GetFolderContents, ListFolderChildren, ListFilesInFolder, Children,
                    GetFolder, ParentsThere, PlaceOf
      <3> QED BY <2>0, <3>1, <3>2 DEF ParentsThere
    <2>2. ASSUME NEW f \in Files \ trash
          PROVE  (f \in ListFolders(OwnerOf[f])) #
                   (\E x \in Rows : f \in GetFolderContents(OwnerOf[f], x))
      <3>1. f \in ListFolders(OwnerOf[f]) <=> place[f] = Root
        BY <2>0 DEF ListFolders, ListRootFolders, ListFilesInRoot, ListFilesInFolder
      <3>2. (\E x \in Rows : f \in GetFolderContents(OwnerOf[f], x)) <=> place[f] \in Rows
        BY <2>0 DEF GetFolderContents, ListFolderChildren, ListFilesInFolder, Children,
                    GetFolder, FilesPlaced, PlaceOf
      <3> QED BY <2>0, <3>1, <3>2 DEF FilesPlaced
    <2> QED BY <2>1, <2>2 DEF ShownOnce
  <1> QED BY <1>1, FoldersInvariance, PTL

----------------------------------------------------------------------------
(* Pages: calls of a job and of a request for a page.                      *)

JobCallNames == {"object", "row", "status", "trim", "clear"}
CallNames == {"file", "list", "fetch", "duration", "refuse", "variant", "sign", "segment"}
Statuses == {"uploaded", "processing", "completed"}

Jobs == [at : JobCallNames, variant : Variants]
Views == [code : {"open", "ok"}, endpoint : Endpoints, who : {"owner", "other"},
          variant : Variants \cup {Original}, todo : Seq(CallNames),
          key : Variants \cup {Original, "empty"}, status : Statuses \cup {"unread"},
          shown : SUBSET Variants, listed : BOOLEAN, found : BOOLEAN]

ViewingTypeOK ==
  /\ content \in Contents /\ status \in Statuses /\ deleted \in BOOLEAN /\ keyed \in BOOLEAN
  /\ stored \subseteq Variants \cup {Original}
  /\ variants \subseteq Variants /\ finished \subseteq Variants
  /\ work \in {NoWork} \cup Jobs
  /\ view \in [Viewers -> {NoView} \cup Views]

\* The file is being deleted, or was.
Going == deleted \/ erase # "none"

\* A job writes the row of a variant after its object, and the status after the row.
JobInOrder ==
  work # NoWork =>
    /\ work.at \in {"trim", "clear"} => work.variant = "mp4"
    /\ ~Going => /\ work.at # "object" => work.variant \in stored
                 /\ work.at = "status" => work.variant \in variants

\* So do all jobs together.
FileInOrder ==
  ~Going => /\ variants \subseteq stored /\ finished \subseteq variants
            /\ status = "completed" => finished # {}

\* A request reads the status before it lists, and what it has read holds on.
ViewHolds(x) ==
  x.code \in {"open", "ok"} =>
    /\ x.code = "open" => /\ x.todo # <<>>
                          /\ \A i \in 2 .. Len(x.todo) : x.todo[i] # "file"
                          /\ x.listed => x.todo[1] # "file"
    /\ ~Going => /\ x.listed => x.shown \subseteq stored
                 /\ x.status = "completed" =>
                      finished # {} /\ (x.listed => x.shown \cap finished # {})

ViewsHold == \A v \in Viewers : ViewHolds(view[v])

ViewingInv == ViewingTypeOK /\ JobInOrder /\ FileInOrder /\ ViewsHold

(* The order of the calls of a job.                                        *)
LEMMA AfterCallIs ==
  ASSUME NEW k \in Variants
  PROVE  /\ AfterCall("object", k) = [at |-> "row", variant |-> k]
         /\ AfterCall("row", k) = [at |-> "status", variant |-> k]
         /\ k # "mp4" => AfterCall("status", k) = NoWork
         /\ k = "mp4" => /\ AfterCall("status", k) = [at |-> "trim", variant |-> k]
                         /\ AfterCall("trim", k) = [at |-> "clear", variant |-> k]
                         /\ AfterCall("clear", k) = NoWork
  <1> DEFINE order == JobCalls(k)
             at(a) == CHOOSE n \in DOMAIN order : order[n] = a
  <1>1. CASE k = "mp4"
    <2>1. /\ Len(order) = 5 /\ DOMAIN order = 1 .. 5
          /\ order[1] = "object" /\ order[2] = "row" /\ order[3] = "status"
          /\ order[4] = "trim" /\ order[5] = "clear"
      BY <1>1 DEF JobCalls
    <2> HIDE DEF order
    <2>2. at("object") = 1 /\ at("row") = 2 /\ at("status") = 3 /\ at("trim") = 4 /\ at("clear") = 5
      BY <2>1
    <2>3. \A a \in JobCallNames : AfterCall(a, k) =
            IF at(a) = Len(order) THEN NoWork ELSE [at |-> order[at(a) + 1], variant |-> k]
      BY DEF AfterCall, order
    <2> QED BY <1>1, <2>1, <2>2, <2>3 DEF JobCallNames
  <1>2. CASE k # "mp4"
    <2>1. /\ Len(order) = 3 /\ DOMAIN order = 1 .. 3
          /\ order[1] = "object" /\ order[2] = "row" /\ order[3] = "status"
      BY <1>2 DEF JobCalls
    <2> HIDE DEF order
    <2>2. at("object") = 1 /\ at("row") = 2 /\ at("status") = 3
      BY <2>1
    <2> QED BY <1>2, <2>1, <2>2 DEF AfterCall, order
  <1> QED BY <1>1, <1>2

(* Every endpoint reads the row of the file first, and once.               *)
LEMMA CallsBeginWithFile ==
  ASSUME NEW e \in Endpoints, NEW k, content \in Contents
  PROVE  /\ Calls(e, k) \in Seq(CallNames) /\ Calls(e, k) # <<>>
         /\ \A i \in 2 .. Len(Calls(e, k)) : Calls(e, k)[i] # "file"
  <1> DEFINE Good(s) == /\ s \in Seq(CallNames) /\ s # <<>>
                        /\ \A i \in 2 .. Len(s) : s[i] # "file"
  <1>a. ASSUME NEW s \in Seq(CallNames \ {"file"})
        PROVE  Good(<<"file">> \o s) /\ Good(<<"file", "list">> \o s)
    BY DEF CallNames
  <1>b. /\ <<"fetch">> \in Seq(CallNames \ {"file"})
        /\ <<"duration">> \in Seq(CallNames \ {"file"})
        /\ <<"duration", "fetch">> \in Seq(CallNames \ {"file"})
        /\ <<"list">> \in Seq(CallNames \ {"file"})
        /\ <<"refuse">> \in Seq(CallNames \ {"file"})
        /\ <<>> \in Seq(CallNames \ {"file"})
    BY DEF CallNames
  <1>c. Facts(content) \in Seq(CallNames \ {"file"})
    BY <1>b DEF Facts, Contents
  <1>d. /\ Good(<<"file", "list">>) /\ Good(<<"file", "fetch">>) /\ Good(<<"file", "sign">>)
        /\ Good(<<"file", "segment">>) /\ Good(<<"file", "variant", "fetch">>)
        /\ Good(<<"file", "variant", "sign">>)
    BY DEF CallNames
  <1> SUFFICES Good(Calls(e, k))
    OBVIOUS
  <1> HIDE DEF Good
  <1>1. Good(getFile) /\ Good(FileStatus) /\ Good(hlsStream)
    BY <1>d DEF getFile, FileStatus, FileStatusHandler, hlsStream
  <1>2. Good(FileDetail(content)) /\ Good(FileInfo(content))
    BY <1>a, <1>c DEF FileDetail, FileInfo
  <1>3. Good(FilePreview(content)) /\ Good(VideoEmbed(content))
    BY <1>a, <1>b DEF FilePreview, servePDFPreview, serveVideoPreview, VideoEmbed, Contents
  <1>4. Good(DownloadFile(k)) /\ Good(download(k))
    BY <1>d DEF DownloadFile, download
  <1> QED BY <1>1, <1>2, <1>3, <1>4 DEF Calls, Endpoints

(* A request of which a call has been answered goes on with the next one.  *)
LEMMA ThenIs ==
  ASSUME NEW x \in Views, x.code = "open", ViewHolds(x)
  PROVE  /\ Then(x) \in Views
         /\ \A i \in 1 .. Len(Then(x).todo) : Then(x).todo[i] # "file"
         /\ Then(x).code = "open" => Then(x).todo # <<>>
         /\ Then(x).listed = x.listed /\ Then(x).shown = x.shown
         /\ Then(x).status = x.status /\ Then(x).who = x.who
  <1> DEFINE code == IF Len(x.todo) = 1 THEN "ok" ELSE "open"
  <1>1. x.todo \in Seq(CallNames) /\ x.todo # <<>> /\ \A i \in 2 .. Len(x.todo) : x.todo[i] # "file"
    BY DEF Views, ViewHolds
  <1>2. /\ Tail(x.todo) \in Seq(CallNames) /\ Len(Tail(x.todo)) = Len(x.todo) - 1
        /\ \A i \in 1 .. Len(Tail(x.todo)) : Tail(x.todo)[i] = x.todo[i + 1]
    BY <1>1
  <1>3. code = "open" => Tail(x.todo) # <<>>
    <2> DEFINE rest == Tail(x.todo)
    <2>1. Len(rest) = Len(x.todo) - 1 /\ Len(x.todo) \in Nat
      BY <1>1, <1>2
    <2> HIDE DEF rest
    <2>2. rest = <<>> => Len(rest) = 0
      OBVIOUS
    <2>3. rest = <<>> => Len(x.todo) = 1
      BY <2>1, <2>2
    <2> QED BY <2>3 DEF rest
  <1>4. \A i \in 1 .. Len(Tail(x.todo)) : Tail(x.todo)[i] # "file"
    BY <1>1, <1>2
  <1>5. Then(x) = [x EXCEPT !.todo = Tail(x.todo), !.code = code]
    BY DEF Then
  <1>6. code \in {"open", "ok"}
    OBVIOUS
  <1> HIDE DEF code
  <1>7. /\ Then(x) \in Views /\ Then(x).todo = Tail(x.todo) /\ Then(x).code = code
        /\ Then(x).listed = x.listed /\ Then(x).shown = x.shown
        /\ Then(x).status = x.status /\ Then(x).who = x.who
    BY <1>2, <1>5, <1>6 DEF Views
  <1> QED BY <1>3, <1>4, <1>7

(* A request that goes on or is refused, while the file stays as it is.    *)
LEMMA ReplyHolds ==
  ASSUME NEW v \in Viewers, NEW x, ViewingInv, UNCHANGED <<thing, work, erase>>,
         x \in {NoView} \cup Views, ViewHolds(x), Reply(v, x)
  PROVE  ViewingInv'
  <1>1. /\ view \in [Viewers -> {NoView} \cup Views]
        /\ view' = [view EXCEPT ![v] = x]
    BY DEF ViewingInv, ViewingTypeOK, Reply
  <1>2. view' \in [Viewers -> {NoView} \cup Views]
    BY <1>1
  <1>3. ViewingTypeOK'
    BY <1>2 DEF ViewingInv, ViewingTypeOK, thing
  <1>4. JobInOrder' /\ FileInOrder'
    BY DEF ViewingInv, JobInOrder, FileInOrder, Going, thing
  <1>5. ASSUME NEW u \in Viewers PROVE ViewHolds(view'[u]) /\ UNCHANGED <<deleted, erase, stored, finished>>
    <2>1. ViewHolds(view[u])
      BY DEF ViewingInv, ViewsHold
    <2> QED BY <1>1, <2>1 DEF thing
  <1>6. ViewsHold'
    BY <1>5 DEF ViewsHold, ViewHolds, Going
  <1> QED BY <1>3, <1>4, <1>6 DEF ViewingInv

(* A request reads what its call reads, and what it knew holds on.         *)
LEMMA LookStep ==
  ASSUME ViewingInv, NEW v \in Viewers, Look(v)
  PROVE  ViewingInv'
  <1> DEFINE x == view[v]
             y == Then(x)
  <1>1. UNCHANGED <<thing, work, erase>> /\ x.code = "open"
    BY DEF Look, GetFile, ListVariantsByFile, GetVariant, GetVideoDuration, Fetch,
           GetPresignedURL, SignSegment, RefuseType, CallFails, Call
  <1>2. x \in Views /\ ViewHolds(x)
    <2>1. x \in {NoView} \cup Views /\ ViewHolds(x)
      BY DEF ViewingInv, ViewingTypeOK, ViewsHold
    <2> QED BY <1>1, <2>1 DEF NoView
  <1>3. /\ y \in Views /\ \A i \in 1 .. Len(y.todo) : y.todo[i] # "file"
        /\ y.code = "open" => y.todo # <<>>
        /\ y.listed = x.listed /\ y.shown = x.shown /\ y.status = x.status /\ y.who = x.who
    <2> HIDE DEF x, y
    <2> QED BY <1>1, <1>2, ThenIs DEF y
  <1>4. NoView \in {NoView} \cup Views /\ ViewHolds(NoView)
    BY DEF NoView, ViewHolds
  <1>5. Refuse(v) => ViewingInv'
    BY <1>1, <1>4, ReplyHolds DEF Refuse
  <1>6. \A i \in 2 .. Len(y.todo) : y.todo[i] # "file"
    <2> HIDE DEF x, y
    <2>1. y.todo \in Seq(CallNames)
      BY <1>3 DEF Views
    <2> QED BY <1>3, <2>1
  <1>7. y.code = "open" => y.todo[1] # "file"
    <2> HIDE DEF x, y
    <2>1. y.todo \in Seq(CallNames)
      BY <1>3 DEF Views
    <2> QED BY <1>3, <2>1
  \* What the call puts besides.
  <1>8. ASSUME NEW z \in Views, z.todo = y.todo, z.code = y.code,
               ~Going => /\ z.listed => z.shown \subseteq stored
                         /\ z.status = "completed" =>
                              finished # {} /\ (z.listed => z.shown \cap finished # {})
        PROVE  Reply(v, z) => ViewingInv'
    <2>1. ViewHolds(z)
      <3> HIDE DEF x, y
      <3> QED BY <1>3, <1>6, <1>7, <1>8 DEF ViewHolds
    <2> QED BY <1>1, <1>8, <2>1, ReplyHolds
  <1>9. ~Going => /\ x.listed => x.shown \subseteq stored
                  /\ x.status = "completed" =>
                       finished # {} /\ (x.listed => x.shown \cap finished # {})
    BY <1>1, <1>2 DEF ViewHolds
  <1>10. Reply(v, y) => ViewingInv'
    BY <1>3, <1>8, <1>9
  <1>11. Without(v) => ViewingInv'
    BY <1>5, <1>10 DEF Without
  <1>12. y.key \in Variants \cup {Original, "empty"}
    BY <1>3 DEF Views
  <1> SUFFICES ViewingInv'
    OBVIOUS
  <1>13. CASE GetFile(v)
    <2> DEFINE z == [y EXCEPT !.status = status, !.key = IF keyed THEN Original ELSE "empty"]
    <2>1. ~x.listed
      <3>1. x.todo[1] = "file" /\ x.todo # <<>>
        BY <1>1, <1>2, <1>13 DEF GetFile, Call, ViewHolds
      <3> QED BY <1>1, <1>2, <3>1 DEF ViewHolds
    <2>2. Refuse(v) \/ Reply(v, z)
      BY <1>13 DEF GetFile
    <2>3. status \in Statuses /\ (~Going /\ status = "completed" => finished # {})
      BY DEF ViewingInv, ViewingTypeOK, FileInOrder
    <2>4. /\ z \in Views /\ z.todo = y.todo /\ z.code = y.code /\ z.listed = y.listed
          /\ z.status = status
      <3>1. \E key \in Variants \cup {Original, "empty"} :
              z = [y EXCEPT !.status = status, !.key = key]
        OBVIOUS
      <3> HIDE DEF x, y, z
      <3> QED BY <1>3, <2>3, <3>1 DEF Views
    <2>5. ~z.listed
      BY <1>3, <2>1, <2>4
    <2> HIDE DEF z
    <2> QED BY <1>5, <1>8, <2>2, <2>3, <2>4, <2>5
  <1>14. CASE ListVariantsByFile(v)
    <2> DEFINE z == [y EXCEPT !.shown = variants, !.listed = TRUE]
    <2>1. Reply(v, z) \/ Reply(v, y)
      BY <1>14 DEF ListVariantsByFile
    <2>2. variants \subseteq Variants
      BY DEF ViewingInv, ViewingTypeOK
    <2>3. ~Going => variants \subseteq stored /\ finished \subseteq variants
      BY DEF ViewingInv, FileInOrder
    <2>4. /\ z \in Views /\ z.todo = y.todo /\ z.code = y.code
          /\ z.status = y.status /\ z.shown = variants
      <3> HIDE DEF x, y
      <3> QED BY <1>3, <2>2 DEF Views
    <2> HIDE DEF z
    <2>5. ~Going => /\ z.shown \subseteq stored
                    /\ z.status = "completed" => finished # {} /\ z.shown \cap finished # {}
      BY <1>3, <1>9, <2>3, <2>4
    <2> QED BY <1>8, <1>10, <2>1, <2>4, <2>5
  <1>15. CASE GetVariant(v)
    <2> DEFINE z == [y EXCEPT !.key = x.variant]
    <2>1. Refuse(v) \/ Reply(v, z)
      BY <1>15 DEF GetVariant
    <2>2. x.variant \in Variants \cup {Original}
      BY <1>2 DEF Views
    <2>3. /\ z \in Views /\ z.todo = y.todo /\ z.code = y.code /\ z.listed = y.listed
          /\ z.status = y.status /\ z.shown = y.shown
      <3> HIDE DEF x, y
      <3> QED BY <1>3, <2>2 DEF Views
    <2> HIDE DEF z
    <2> QED BY <1>3, <1>5, <1>8, <1>9, <2>1, <2>3
  <1>16. ASSUME NEW b \in BOOLEAN PROVE Reply(v, [y EXCEPT !.found = b]) => ViewingInv'
    <2> DEFINE z == [y EXCEPT !.found = b]
    <2>1. /\ z \in Views /\ z.todo = y.todo /\ z.code = y.code /\ z.listed = y.listed
          /\ z.status = y.status /\ z.shown = y.shown
      <3> HIDE DEF x, y
      <3> QED BY <1>3, <1>16 DEF Views
    <2> HIDE DEF z
    <2>2. Reply(v, z) => ViewingInv'
      BY <1>3, <1>8, <1>9, <2>1
    <2> QED BY <2>2 DEF z
  <1>17. CASE GetVideoDuration(v) \/ CallFails(v) \/ RefuseType(v)
    BY <1>5, <1>10, <1>11, <1>17 DEF GetVideoDuration, CallFails, RefuseType
  <1>18. CASE Fetch(v)
    BY <1>11, <1>16, <1>18 DEF Fetch
  <1>19. CASE GetPresignedURL(v)
    <2>1. (x.key \in stored) \in BOOLEAN
      OBVIOUS
    <2> QED BY <1>16, <1>19, <2>1 DEF GetPresignedURL
  <1>20. CASE SignSegment(v)
    BY <1>16, <1>20 DEF SignSegment
  <1> QED BY <1>13, <1>14, <1>15, <1>17, <1>18, <1>19, <1>20 DEF Look

(* A request begins with nothing read.                                     *)
LEMMA AskStep ==
  ASSUME ViewingInv, NEW v \in Viewers, NEW e \in Endpoints, NEW who \in {"owner", "other"},
         NEW k \in VariantsOf[content] \cup {Original}, Ask(v, e, who, k)
  PROVE  ViewingInv'
  <1> DEFINE z == [code |-> "open", endpoint |-> e, who |-> who, variant |-> k,
                   todo |-> Calls(e, k), key |-> Original, status |-> "unread",
                   shown |-> {}, listed |-> FALSE, found |-> FALSE]
  <1>1. UNCHANGED <<thing, work, erase>> /\ Reply(v, z)
    BY DEF Ask, Reply
  <1>2. content \in Contents
    BY DEF ViewingInv, ViewingTypeOK
  <1>3. k \in Variants \cup {Original}
    BY <1>2, ViewingAssumption
  <1>4. /\ Calls(e, k) \in Seq(CallNames) /\ Calls(e, k) # <<>>
        /\ \A i \in 2 .. Len(Calls(e, k)) : Calls(e, k)[i] # "file"
    BY <1>2, CallsBeginWithFile
  <1>5. z \in Views
    BY <1>3, <1>4 DEF Views
  <1>6. ViewHolds(z)
    BY <1>4 DEF ViewHolds
  <1> HIDE DEF z
  <1> QED BY <1>1, <1>5, <1>6, ReplyHolds

(* What is written to the file leaves what was read of it true.            *)
LEMMA ReadingsHold ==
  ASSUME ViewingInv, ViewingTypeOK', UNCHANGED view,
         Going' \/ (~Going /\ (stored \ {Original}) \subseteq stored' /\ finished \subseteq finished')
  PROVE  ViewsHold'
  <1>1. view \in [Viewers -> {NoView} \cup Views] /\ ViewingTypeOK
    BY DEF ViewingInv, ViewingTypeOK
  <1>2. ASSUME NEW u \in Viewers PROVE ViewHolds(view[u])'
    <2> DEFINE x == view[u]
    <2>1. x \in {NoView} \cup Views /\ ViewHolds(x)
      BY <1>1 DEF ViewingInv, ViewsHold
    <2>2. view'[u] = view[u]
      OBVIOUS
    <2>3. x.code \in {"open", "ok"} => x.shown \subseteq Variants
      BY <2>1 DEF NoView, Views
    <2>4. Original \notin Variants
      BY DEF Variants, Original
    <2> QED BY <2>1, <2>2, <2>3, <2>4 DEF ViewHolds
  <1> QED BY <1>2 DEF ViewsHold

(* A write of a job comes after the writes that it relies on.              *)
LEMMA MakeStep ==
  ASSUME ViewingInv, MakeVariant
  PROVE  ViewingInv'
  <1> DEFINE k == work.variant
  <1>1. /\ ViewingTypeOK /\ JobInOrder /\ FileInOrder
        /\ work \in Jobs /\ work.at \in JobCallNames /\ k \in Variants
    <2>1. work \in Jobs
      BY DEF ViewingInv, ViewingTypeOK, MakeVariant
    <2> QED BY <2>1 DEF ViewingInv, Jobs
  <1>2. Original \notin Variants
    BY DEF Variants, Original
  <1>3. AfterCall(work.at, k) \in {NoWork} \cup Jobs
    BY <1>1, AfterCallIs DEF Jobs, JobCallNames, JobInOrder, MakeVariant
  <1>4. UNCHANGED <<content, deleted, erase, view>>
    BY DEF MakeVariant
  <1>5. work' = AfterCall(work.at, k) /\ work # NoWork
    BY DEF MakeVariant
  <1>6. /\ stored' = CASE work.at = "object" -> stored \cup {k}
                       [] work.at = "trim" -> stored \ {Original}
                       [] OTHER -> stored
        /\ variants' = IF work.at = "row" THEN variants \cup {k} ELSE variants
        /\ status' = IF work.at = "status" /\ ~deleted THEN "completed" ELSE status
        /\ finished' = IF work.at = "status" THEN finished \cup {k} ELSE finished
        /\ keyed' = (keyed /\ (work.at = "clear" => deleted))
    BY DEF MakeVariant
  <1>7. /\ stored' \subseteq Variants \cup {Original} /\ variants' \subseteq Variants
        /\ finished' \subseteq Variants /\ status' \in Statuses
        /\ (stored \ {Original}) \subseteq stored' /\ finished \subseteq finished'
    BY <1>1, <1>2, <1>6 DEF ViewingTypeOK, Statuses
  <1>8. keyed' \in BOOLEAN
    BY <1>6
  <1>9. ViewingTypeOK'
    BY <1>1, <1>3, <1>4, <1>5, <1>7, <1>8 DEF ViewingTypeOK
  <1>10. Going' = Going
    BY <1>4 DEF Going
  <1>11. ViewsHold'
    BY <1>4, <1>7, <1>9, <1>10, ReadingsHold
  <1>12. JobInOrder' /\ FileInOrder'
    <2>1. CASE work.at = "object"
      <3>1. work' = [at |-> "row", variant |-> k] /\ k \in stored' /\ variants' = variants
            /\ finished' = finished /\ status' = status /\ stored \subseteq stored'
        BY <1>1, <1>5, <1>6, <2>1, AfterCallIs
      <3> QED BY <1>1, <1>10, <3>1 DEF JobInOrder, FileInOrder
    <2>2. CASE work.at = "row"
      <3>1. work' = [at |-> "status", variant |-> k] /\ stored' = stored
            /\ variants' = variants \cup {k} /\ finished' = finished /\ status' = status
        BY <1>1, <1>5, <1>6, <2>2, AfterCallIs
      <3>2. ~Going => k \in stored
        BY <1>1, <1>5, <2>2 DEF JobInOrder
      <3> QED BY <1>1, <1>10, <3>1, <3>2 DEF JobInOrder, FileInOrder
    <2>3. CASE work.at = "status"
      <3>1. work' = NoWork \/ (k = "mp4" /\ work' = [at |-> "trim", variant |-> k])
        BY <1>1, <1>5, <2>3, AfterCallIs
      <3>2. stored' = stored /\ variants' = variants /\ finished' = finished \cup {k}
        BY <1>6, <2>3
      <3>3. ~Going => k \in stored /\ k \in variants
        BY <1>1, <1>5, <2>3 DEF JobInOrder
      <3> QED BY <1>1, <1>10, <3>1, <3>2, <3>3 DEF JobInOrder, FileInOrder
    <2>4. CASE work.at \in {"trim", "clear"}
      <3>1. k = "mp4"
        BY <1>1, <1>5, <2>4 DEF JobInOrder
      <3>2. work' = NoWork \/ work' = [at |-> "clear", variant |-> k]
        BY <1>1, <1>5, <2>4, <3>1, AfterCallIs
      <3>3. /\ (stored \ {Original}) \subseteq stored' /\ variants' = variants
            /\ finished' = finished /\ status' = status
        BY <1>6, <1>7, <2>4
      <3>4. ~Going => k \in stored
        BY <1>1, <1>5, <2>4 DEF JobInOrder
      <3>5. variants \subseteq Variants
        BY <1>1 DEF ViewingTypeOK
      <3> QED BY <1>1, <1>2, <1>10, <3>1, <3>2, <3>3, <3>4, <3>5 DEF JobInOrder, FileInOrder
    <2> QED BY <1>1, <2>1, <2>2, <2>3, <2>4 DEF JobCallNames
  <1> QED BY <1>9, <1>11, <1>12 DEF ViewingInv

(* The steps that delete, and those that start and end a job.              *)
LEMMA DeleteStep ==
  ASSUME ViewingInv,
         DeleteFile \/ BatchDelete \/ EraseVariants \/ EraseOriginal \/ EraseRow \/ Purge
  PROVE  ViewingInv'
  <1>1. /\ UNCHANGED <<content, status, keyed, finished, work, view>>
        /\ stored' \subseteq stored /\ variants' \subseteq variants
        /\ deleted' \in BOOLEAN
    BY DEF ViewingInv, ViewingTypeOK, DeleteFile, BatchDelete, EraseVariants, EraseOriginal,
           EraseRow, Purge, thing
  <1>2. Going'
    BY DEF Going, DeleteFile, BatchDelete, EraseVariants, EraseOriginal, EraseRow, Purge
  <1>3. ViewingTypeOK'
    BY <1>1 DEF ViewingInv, ViewingTypeOK
  <1>4. ViewsHold'
    BY <1>1, <1>2, <1>3, ReadingsHold
  <1>5. JobInOrder' /\ FileInOrder'
    BY <1>1, <1>2 DEF ViewingInv, JobInOrder, FileInOrder
  <1> QED BY <1>3, <1>4, <1>5 DEF ViewingInv

(* A job starts, gives up or keeps its original: no row or object changes. *)
LEMMA JobStep ==
  ASSUME ViewingInv,
         (\E k \in Variants : StartJob(k)) \/ KeepOriginal \/ JobFails
  PROVE  ViewingInv'
  <1>1. /\ UNCHANGED <<content, deleted, keyed, stored, variants, finished, erase, view>>
        /\ status' \in {status, "processing"}
        /\ work' = NoWork \/ \E k \in Variants : work' = [at |-> "object", variant |-> k]
    BY DEF StartJob, KeepOriginal, JobFails, thing
  <1>2. Going' = Going
    BY <1>1 DEF Going
  <1>3. ViewingTypeOK'
    <2>1. work' \in {NoWork} \cup Jobs
      BY <1>1 DEF Jobs, JobCallNames
    <2> QED BY <1>1, <2>1 DEF ViewingInv, ViewingTypeOK, Statuses
  <1>4. ViewsHold'
    BY <1>1, <1>2, <1>3, ReadingsHold
  <1>5. JobInOrder' /\ FileInOrder'
    BY <1>1, <1>2 DEF ViewingInv, JobInOrder, FileInOrder
  <1> QED BY <1>3, <1>4, <1>5 DEF ViewingInv

(* Jobs, deletions and requests keep the order of the writes and the reads.*)
THEOREM ViewingInvariance == ViewingSpec => []ViewingInv
  <1>1. ViewingInit => ViewingInv
    <2> SUFFICES ASSUME ViewingInit PROVE ViewingInv
      OBVIOUS
    <2>1. ViewingTypeOK
      BY DEF ViewingInit, ViewingTypeOK, Statuses
    <2>2. ViewsHold
      BY DEF ViewingInit, ViewsHold, ViewHolds, NoView
    <2> QED BY <2>1, <2>2 DEF ViewingInit, ViewingInv, JobInOrder, FileInOrder
  <1>2. ViewingInv /\ [ViewingNext]_shownVars => ViewingInv'
    <2> SUFFICES ASSUME ViewingInv, [ViewingNext]_shownVars PROVE ViewingInv'
      OBVIOUS
    <2>1. CASE UNCHANGED shownVars
      BY <2>1 DEF shownVars, thing, ViewingInv, ViewingTypeOK, JobInOrder, FileInOrder, ViewsHold,
                  ViewHolds, Going
    <2>2. CASE ViewingNext
      BY <2>2, MakeStep, DeleteStep, JobStep, LookStep, AskStep DEF ViewingNext
    <2> QED BY <2>1, <2>2
  <1> QED BY <1>1, <1>2, PTL DEF ViewingSpec

(* Whoever is told that a file is completed is shown a variant, and a      *)
(* variant that is shown has its object in storage, whatever jobs and      *)
(* requests are at work and wherever they stand.                           *)
THEOREM ShownIsThere == ViewingSpec => []ShowsWhatIsThere
  <1>1. ViewingInv => ShowsWhatIsThere
    BY DEF ViewingInv, ViewsHold, ViewHolds, ShowsWhatIsThere, Answered, Going
  <1> QED BY <1>1, ViewingInvariance, PTL

----------------------------------------------------------------------------
(* Rates, for any rate, burst, clock and idle time.                        *)

(* A whole number of seconds is no longer than the time it was cut from.   *)
LEMMA WholeSeconds ==
  ASSUME NEW i \in Nat, NEW t \in Nat \ {0}
  PROVE  /\ i \div t \in Nat
         /\ (i \div t) * t <= i
  OBVIOUS

(* Multiplying by a number of ticks keeps the order.                       *)
LEMMA ScaleUp ==
  ASSUME NEW a \in Int, NEW b \in Int, NEW t \in Nat, a <= b
  PROVE  a * t <= b * t
  OBVIOUS

(* What the assumption on the constants says of the widths.                *)
LEMMA LimiterWidths == /\ Full \in Nat /\ IdleTicks \in Nat
                /\ Rate \in Nat /\ Burst \in Nat /\ Ticks \in Nat \ {0}
  BY LimiterAssumption DEF Full, IdleTicks

(* Whoever is idle for so long that the cleanup forgets its bucket would   *)
(* have a full one.                                                        *)
LEMMA IdleFills == IdleTicks * Rate >= Full
  <1> USE LimiterAssumption
  <1> DEFINE earned == IdleSeconds * Rate
  <1>1. earned \in Nat /\ Burst <= earned
    OBVIOUS
  <1>2. Burst * Ticks <= earned * Ticks
    <2> HIDE DEF earned
    <2> QED BY <1>1, ScaleUp
  <1>3. IdleTicks * Rate = earned * Ticks + Rate
    BY DEF IdleTicks
  <1>4. earned * Ticks \in Nat /\ Burst * Ticks \in Nat
    OBVIOUS
  <1> HIDE DEF earned
  <1> QED BY <1>2, <1>3, <1>4 DEF Full

(* What the code adds for an idle time is at most what the exact bucket    *)
(* has gained in it.                                                       *)
LEMMA RefillBelow ==
  ASSUME NEW t \in 0 .. Burst, NEW i \in Nat
  PROVE  /\ AtMost(t + (i \div Ticks) * Rate, Burst) \in 0 .. Burst
         /\ AtMost(t + (i \div Ticks) * Rate, Burst) * Ticks
              <= AtMost(t * Ticks + i * Rate, Full)
  <1> USE LimiterWidths
  <1> DEFINE s == i \div Ticks  v == AtMost(t + s * Rate, Burst)
  <1>1. s \in Nat /\ s * Ticks <= i
    BY WholeSeconds
  <1> HIDE DEF s
  <1>2. s * Rate \in Nat
    BY <1>1
  <1>3. v \in 0 .. Burst /\ v <= t + s * Rate
    BY <1>2 DEF AtMost
  <1>4. v * Ticks <= Full
    BY <1>3, ScaleUp DEF Full
  <1>5. (s * Ticks) * Rate <= i * Rate
    BY <1>1, ScaleUp
  <1>6. v * Ticks <= (t + s * Rate) * Ticks
    BY <1>2, <1>3, ScaleUp
  <1>7. (t + s * Rate) * Ticks = t * Ticks + (s * Ticks) * Rate
    BY <1>1
  <1>8. /\ v * Ticks \in Int /\ t * Ticks \in Int /\ i * Rate \in Int
        /\ (s * Ticks) * Rate \in Int /\ (t + s * Rate) * Ticks \in Int
    BY <1>1, <1>2, <1>3
  <1> HIDE DEF v
  <1>9. v * Ticks <= AtMost(t * Ticks + i * Rate, Full)
    BY <1>4, <1>5, <1>6, <1>7, <1>8 DEF AtMost
  <1> QED BY <1>3, <1>9 DEF v, s

(* Time adds to the exact bucket no less than to what bounds it.           *)
LEMMA CreditGains ==
  ASSUME NEW held \in Int, NEW old \in Int, NEW new \in Int, NEW f \in Int,
         NEW more \in Nat, held >= AtMost(old, f), new <= old + more
  PROVE  AtMost(held + more, f) >= AtMost(new, f)
  BY DEF AtMost

----------------------------------------------------------------------------
(* The inductive invariant.                                                *)
LimiterInv == LimiterTypeOK /\ BucketBelowCredit

(* What the exact bucket holds at least.                                   *)
BucketIs(t, i) == IF t = NoBucket THEN Full ELSE AtMost(t * Ticks + i * Rate, Full)

(* No bucket exists at first, and every credit is full.                    *)
LEMMA LimiterInitHolds == LimiterInit => LimiterInv
  BY LimiterWidths DEF LimiterInit, LimiterInv, LimiterTypeOK, BucketBelowCredit, NoBucket

(* Every step keeps buckets, idle times and credits in their ranges.       *)
LEMMA LimiterTypeStep == LimiterTypeOK /\ [LimiterNext]_limiterVars => LimiterTypeOK'
  <1> SUFFICES ASSUME LimiterTypeOK, [LimiterNext]_limiterVars PROVE LimiterTypeOK'
    OBVIOUS
  <1> USE LimiterWidths DEF LimiterTypeOK
  <1>1. CASE Tick
    BY <1>1 DEF Tick, AtMost
  <1>2. CASE Cleanup
    BY <1>2 DEF Cleanup
  <1>3. ASSUME NEW c \in Connections, Allow(c) PROVE LimiterTypeOK'
    <2>1. Available(c) \in 0 .. Burst
      <3>1. CASE tokens[c] = NoBucket
        BY <3>1 DEF Available
      <3>2. CASE tokens[c] # NoBucket
        <4>1. tokens[c] \in 0 .. Burst /\ idle[c] \in Nat
          BY <3>2
        <4> QED BY <3>2, <4>1, RefillBelow DEF Available, Refilled
      <3> QED BY <3>1, <3>2
    <2>2. CASE Available(c) > 0
      BY <1>3, <2>1, <2>2 DEF Allow
    <2>3. CASE ~(Available(c) > 0)
      BY <1>3, <2>1, <2>3 DEF Allow
    <2> QED BY <2>2, <2>3
  <1>4. CASE UNCHANGED limiterVars
    BY <1>4 DEF limiterVars
  <1> QED BY <1>1, <1>2, <1>3, <1>4 DEF LimiterNext

(* Every step keeps the code's bucket below the exact one.                 *)
LEMMA BucketStep == LimiterInv /\ [LimiterNext]_limiterVars => BucketBelowCredit'
  <1> SUFFICES ASSUME LimiterInv, [LimiterNext]_limiterVars, NEW d \in Connections
               PROVE  credit'[d] >= BucketIs(tokens'[d], idle'[d])
    BY DEF BucketBelowCredit, BucketIs
  <1>0. /\ tokens[d] \in {NoBucket} \cup 0 .. Burst
        /\ idle[d] \in 0 .. IdleTicks /\ credit[d] \in Int
        /\ credit[d] >= BucketIs(tokens[d], idle[d])
    BY DEF LimiterInv, LimiterTypeOK, BucketBelowCredit, BucketIs
  <1>a. NoBucket \notin 0 .. Burst
    BY DEF NoBucket
  <1> USE LimiterWidths
  <1>1. CASE Tick
    <2>1. /\ tokens'[d] = tokens[d] /\ idle'[d] = AtMost(idle[d] + 1, IdleTicks)
          /\ credit'[d] = AtMost(credit[d] + Rate, Full)
      BY <1>1 DEF Tick
    <2>2. CASE tokens[d] = NoBucket
      BY <1>0, <2>1, <2>2 DEF BucketIs, AtMost
    <2>3. CASE tokens[d] \in 0 .. Burst
      <3>1. tokens[d] # NoBucket
        BY <2>3, <1>a
      <3>2. tokens[d] * Ticks \in Nat /\ idle[d] * Rate \in Nat
        BY <1>0, <2>3
      <3>3. idle'[d] \in Nat /\ idle'[d] <= idle[d] + 1
        BY <1>0, <2>1 DEF AtMost
      <3>4. idle'[d] * Rate <= (idle[d] + 1) * Rate
        BY <1>0, <3>3, ScaleUp
      <3>5. (idle[d] + 1) * Rate = idle[d] * Rate + Rate
        BY <1>0
      <3>6. idle'[d] * Rate \in Nat
        BY <3>3
      <3> DEFINE old == tokens[d] * Ticks + idle[d] * Rate
                 new == tokens[d] * Ticks + idle'[d] * Rate
      <3>7. old \in Int /\ new \in Int /\ new <= old + Rate
        BY <3>2, <3>4, <3>5, <3>6
      <3>8. credit[d] >= AtMost(old, Full)
        BY <1>0, <3>1 DEF BucketIs
      <3> HIDE DEF old, new
      <3>9. AtMost(credit[d] + Rate, Full) >= AtMost(new, Full)
        BY <1>0, <3>7, <3>8, CreditGains
      <3>10. BucketIs(tokens'[d], idle'[d]) = AtMost(new, Full)
        BY <2>1, <3>1 DEF BucketIs, new
      <3> QED BY <2>1, <3>9, <3>10
    <2> QED BY <1>0, <2>2, <2>3
  <1>2. CASE Cleanup
    <2>1. /\ tokens'[d] = IF Unused(d) THEN NoBucket ELSE tokens[d]
          /\ idle'[d] = idle[d] /\ credit'[d] = credit[d]
      BY <1>2 DEF Cleanup, LimiterInv, LimiterTypeOK
    <2>2. CASE Unused(d)
      <3>1. tokens[d] \in 0 .. Burst /\ idle[d] = IdleTicks
        BY <1>0, <2>2, LimiterAssumption DEF Unused, IdleTicks
      <3>2. tokens[d] * Ticks \in Nat /\ IdleTicks * Rate \in Nat
        BY <3>1
      <3>3. BucketIs(tokens[d], idle[d]) = Full
        <4> DEFINE sum == tokens[d] * Ticks + IdleTicks * Rate
        <4>1. sum \in Nat /\ sum >= Full
          BY <3>2, IdleFills
        <4>2. BucketIs(tokens[d], idle[d]) = AtMost(sum, Full)
          BY <1>a, <3>1 DEF BucketIs
        <4> HIDE DEF sum
        <4> QED BY <4>1, <4>2 DEF AtMost
      <3> QED BY <1>0, <2>1, <2>2, <3>3 DEF BucketIs
    <2>3. CASE ~Unused(d)
      BY <1>0, <2>1, <2>3
    <2> QED BY <2>2, <2>3
  <1>3. ASSUME NEW c \in Connections, Allow(c)
        PROVE  credit'[d] >= BucketIs(tokens'[d], idle'[d])
    <2>1. CASE c # d
      BY <1>0, <1>3, <2>1 DEF Allow, LimiterInv, LimiterTypeOK
    <2>2. CASE c = d
      <3>1. Available(d) \in 0 .. Burst /\ Available(d) * Ticks <= credit[d]
        <4>1. CASE tokens[d] = NoBucket
          BY <1>0, <4>1 DEF Available, BucketIs, Full
        <4>2. CASE tokens[d] \in 0 .. Burst
          <5>1. tokens[d] # NoBucket /\ idle[d] \in Nat
            BY <1>0, <1>a, <4>2
          <5>2. /\ Refilled(d) \in 0 .. Burst
                /\ Refilled(d) * Ticks <= AtMost(tokens[d] * Ticks + idle[d] * Rate, Full)
            BY <4>2, <5>1, RefillBelow DEF Refilled
          <5>3. /\ Refilled(d) * Ticks \in Int
                /\ AtMost(tokens[d] * Ticks + idle[d] * Rate, Full) \in Int
            BY <4>2, <5>1, <5>2 DEF AtMost
          <5>4. Refilled(d) * Ticks <= credit[d]
            BY <1>0, <5>1, <5>2, <5>3 DEF BucketIs
          <5> QED BY <5>1, <5>2, <5>4 DEF Available
        <4> QED BY <1>0, <4>1, <4>2
      <3>2. idle'[d] = 0
        BY <1>3, <2>2 DEF Allow, LimiterInv, LimiterTypeOK
      <3>3. CASE Available(d) > 0
        <4>1. tokens'[d] = Available(d) - 1 /\ credit'[d] = credit[d] - Ticks
          BY <1>3, <2>2, <3>3 DEF Allow, LimiterInv, LimiterTypeOK
        <4>2. (Available(d) - 1) * Ticks = Available(d) * Ticks - Ticks
          BY <3>1
        <4>3. /\ tokens'[d] # NoBucket /\ tokens'[d] * Ticks \in Int
              /\ Available(d) * Ticks \in Int
          BY <3>1, <3>3, <4>1 DEF NoBucket
        <4> QED BY <1>0, <3>1, <3>2, <4>1, <4>2, <4>3 DEF BucketIs, AtMost
      <3>4. CASE ~(Available(d) > 0)
        <4>1. tokens'[d] = 0 /\ credit'[d] = credit[d] /\ Available(d) = 0
          BY <1>3, <2>2, <3>1, <3>4 DEF Allow, LimiterInv, LimiterTypeOK
        <4> QED BY <1>0, <3>1, <3>2, <4>1 DEF BucketIs, AtMost, NoBucket
      <3> QED BY <3>3, <3>4
    <2> QED BY <2>1, <2>2
  <1>4. CASE UNCHANGED limiterVars
    BY <1>0, <1>4 DEF limiterVars
  <1> QED BY <1>1, <1>2, <1>3, <1>4 DEF LimiterNext

(* The bucket of the code never holds more than the exact one.             *)
THEOREM LimiterInvariance == LimiterSpec => []LimiterInv
  <1>1. LimiterInv /\ [LimiterNext]_limiterVars => LimiterInv'
    BY LimiterTypeStep, BucketStep DEF LimiterInv
  <1> QED BY LimiterInitHolds, <1>1, PTL DEF LimiterSpec

(* No connection is admitted more often than Rate and Burst allow: neither *)
(* the whole seconds of Allow nor the buckets that the cleanup forgets     *)
(* give requests away.                                                     *)
THEOREM RateIsKept == LimiterSpec => []WithinRate
  <1>1. LimiterInv => WithinRate
    <2> SUFFICES ASSUME LimiterInv, NEW c \in Connections PROVE credit[c] >= 0
      BY DEF WithinRate
    <2>1. /\ tokens[c] \in {NoBucket} \cup 0 .. Burst /\ idle[c] \in Nat
          /\ credit[c] \in Int /\ credit[c] >= BucketIs(tokens[c], idle[c])
      BY LimiterWidths DEF LimiterInv, LimiterTypeOK, BucketBelowCredit, BucketIs
    <2>2. CASE tokens[c] = NoBucket
      BY <2>1, <2>2, LimiterWidths DEF BucketIs
    <2>3. CASE tokens[c] \in 0 .. Burst
      <3>1. tokens[c] * Ticks \in Nat /\ idle[c] * Rate \in Nat
        BY <2>1, <2>3, LimiterWidths
      <3> QED BY <2>1, <3>1, LimiterWidths DEF BucketIs, AtMost
    <2> QED BY <2>1, <2>2, <2>3
  <1> QED BY LimiterInvariance, <1>1, PTL
============================================================================
