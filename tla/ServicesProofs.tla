-------------------------- MODULE ServicesProofs --------------------------
(***************************************************************************)
(* Theorems of DeviceAuth, ZipDownloads and Webhooks: the login of the     *)
(* command line, the bulk downloads of a user and the webhook endpoints.   *)
(***************************************************************************)
EXTENDS DeviceAuth, ZipDownloads, Webhooks, FiniteSetTheorems, TLAPS

(* Every step keeps each variable in its range.                            *)
LEMMA TypeStep == TypeInv /\ [Next]_vars => TypeInv'
  <1> SUFFICES ASSUME TypeInv, [Next]_vars PROVE TypeInv'
    OBVIOUS
  <1> USE ConstantsAssumption
      DEF TypeInv, PollsInBounds, TypeOK, codeVars, pollVars, cliVars
  <1>1. CASE DeviceAuth
    BY <1>1 DEF DeviceAuth, Answers, Writing
  <1>2. CASE LoseAnswer
    BY <1>2 DEF LoseAnswer, Answers, Writing
  <1>3. CASE GiveUp
    BY <1>3 DEF GiveUp, Answers, Writing
  <1>4. ASSUME NEW p \in Polls, Poll(p) PROVE TypeInv'
    BY <1>4 DEF Poll, Goto, Answers, Writing
  <1>5. ASSUME NEW p \in Polls, Receive(p) PROVE TypeInv'
    BY <1>5 DEF Receive, Goto, Answers, Writing
  <1>6. CASE Expire
    BY <1>6 DEF Expire, Answers, Writing
  <1>7. CASE Cleanup
    BY <1>7 DEF Cleanup, Answers, Writing
  <1>8. CASE Restart
    BY <1>8 DEF Restart, Answers, Writing
  <1>9. ASSUME NEW p \in Polls, GetCode(p) PROVE TypeInv'
    BY <1>9 DEF GetCode, Goto, Answers, Writing
  <1>10. ASSUME NEW p \in Polls, ReadApproved(p) PROVE TypeInv'
    BY <1>10 DEF ReadApproved, Goto, Answers, Writing
  <1>11. ASSUME NEW p \in Polls, ReadKey(p) PROVE TypeInv'
    BY <1>11 DEF ReadKey, Goto, Answers, Writing
  <1>12. ASSUME NEW p \in Polls, DeleteCode(p) PROVE TypeInv'
    BY <1>12 DEF DeleteCode, Goto, Answers, Writing
  <1>13. ASSUME NEW a \in Approvals, FindCode(a) PROVE TypeInv'
    BY <1>13 DEF FindCode, Click, Answers, Writing
  <1>14. ASSUME NEW a \in Approvals, InsertToken(a) PROVE TypeInv'
    BY <1>14 DEF InsertToken, Click, Answers, Writing
  <1>15. ASSUME NEW a \in Approvals, Approve(a) PROVE TypeInv'
    BY <1>15 DEF Approve, Click, Answers, Writing
  <1>16. ASSUME NEW a \in Approvals, SetApproved(a) PROVE TypeInv'
    BY <1>16 DEF SetApproved, Click, Answers, Writing
  <1>17. ASSUME NEW a \in Approvals, SetKey(a) PROVE TypeInv'
    BY <1>17 DEF SetKey, Click, Answers, Writing
  <1>18. CASE UNCHANGED vars
    BY <1>18 DEF vars, Answers, Writing
  <1> QED
    BY <1>1, <1>2, <1>3, <1>4, <1>5, <1>6, <1>7, <1>8, <1>9, <1>10, <1>11,
       <1>12, <1>13, <1>14, <1>15, <1>16, <1>17, <1>18 DEF Next, CliStep,
       TokenRequest, ApproveRequest

(* What a poll can read was stored, and a key is answered after the delete.*)
LEMMA StepIInv == IInv /\ [Next]_vars => IInv'
  <1> SUFFICES ASSUME IInv, [Next]_vars PROVE IInv'
    OBVIOUS
  <1>0. TypeInv /\ TypeInv'
    BY TypeStep DEF IInv
  <1> USE ConstantsAssumption, <1>0
      DEF IInv, KeysAreTokens, AnsweredIsDeleted, KeyWorks, OneTimeCode,
          codeVars, pollVars, cliVars
  <1>1. CASE DeviceAuth
    BY <1>1 DEF DeviceAuth, TypeInv, PollsInBounds, TypeOK, Answers, Writing
  <1>2. CASE LoseAnswer
    BY <1>2 DEF LoseAnswer, TypeInv, PollsInBounds, TypeOK, Answers, Writing
  <1>3. CASE GiveUp
    BY <1>3 DEF GiveUp, TypeInv, PollsInBounds, TypeOK, Answers, Writing
  <1>4. ASSUME NEW p \in Polls, Poll(p) PROVE IInv'
    BY <1>4 DEF Poll, Goto, TypeInv, PollsInBounds, TypeOK, Answers, Writing
  <1>5. ASSUME NEW p \in Polls, Receive(p) PROVE IInv'
    BY <1>5 DEF Receive, Goto, Answers, TypeInv, PollsInBounds, TypeOK,
       Writing
  <1>6. CASE Expire
    BY <1>6 DEF Expire, TypeInv, PollsInBounds, TypeOK, Answers, Writing
  <1>7. CASE Cleanup
    BY <1>7 DEF Cleanup, TypeInv, PollsInBounds, TypeOK, Answers, Writing
  <1>8. CASE Restart
    BY <1>8 DEF Restart, TypeInv, PollsInBounds, TypeOK, Answers, Writing
  <1>9. ASSUME NEW p \in Polls, GetCode(p) PROVE IInv'
    BY <1>9 DEF GetCode, Goto, TypeInv, PollsInBounds, TypeOK, Answers,
       Writing
  <1>10. ASSUME NEW p \in Polls, ReadApproved(p) PROVE IInv'
    BY <1>10 DEF ReadApproved, Goto, TypeInv, PollsInBounds, TypeOK, Answers,
       Writing
  <1>11. ASSUME NEW p \in Polls, ReadKey(p) PROVE IInv'
    BY <1>11 DEF ReadKey, Goto, TypeInv, PollsInBounds, TypeOK, Answers,
       Writing
  <1>12. ASSUME NEW p \in Polls, DeleteCode(p) PROVE IInv'
    BY <1>12 DEF DeleteCode, Goto, TypeInv, PollsInBounds, TypeOK, Answers,
       Writing
  <1>13. ASSUME NEW a \in Approvals, FindCode(a) PROVE IInv'
    BY <1>13 DEF FindCode, Click, TypeInv, PollsInBounds, TypeOK, Answers,
       Writing
  <1>14. ASSUME NEW a \in Approvals, InsertToken(a) PROVE IInv'
    BY <1>14 DEF InsertToken, Click, TypeInv, PollsInBounds, TypeOK, Answers,
       Writing
  <1>15. ASSUME NEW a \in Approvals, Approve(a) PROVE IInv'
    BY <1>15 DEF Approve, Click, TypeInv, PollsInBounds, TypeOK, Answers,
       Writing
  <1>16. ASSUME NEW a \in Approvals, SetApproved(a) PROVE IInv'
    BY <1>16 DEF SetApproved, Click, TypeInv, PollsInBounds, TypeOK, Answers,
       Writing
  <1>17. ASSUME NEW a \in Approvals, SetKey(a) PROVE IInv'
    BY <1>17 DEF SetKey, Click, TypeInv, PollsInBounds, TypeOK, Answers,
       Writing
  <1>18. CASE UNCHANGED vars
    BY <1>18 DEF vars, TypeInv, PollsInBounds, TypeOK, Answers, Writing
  <1> QED
    BY <1>1, <1>2, <1>3, <1>4, <1>5, <1>6, <1>7, <1>8, <1>9, <1>10, <1>11,
       <1>12, <1>13, <1>14, <1>15, <1>16, <1>17, <1>18 DEF Next, CliStep,
       TokenRequest, ApproveRequest

(* Nobody has a key at the start.                                          *)
LEMMA InitIInv == Init => IInv
  <1> SUFFICES ASSUME Init PROVE IInv
    OBVIOUS
  <1>1. TypeInv
    <2>1. approved \in BOOLEAN /\ expired \in BOOLEAN
      BY DEF Init
    <2>2. step \in [Polls -> {"unsent"}] /\ click \in [Approvals -> {"unsent"}]
      BY DEF Init
    <2>3. PollsInBounds
      BY ConstantsAssumption DEF Init, PollsInBounds
    <2> QED
      BY <2>1, <2>2, <2>3, ConstantsAssumption
         DEF Init, TypeInv, TypeOK, Answers, Writing
  <1>2. KeysAreTokens /\ AnsweredIsDeleted /\ KeyWorks /\ OneTimeCode
    BY DEF Init, KeysAreTokens, AnsweredIsDeleted, KeyWorks, OneTimeCode, Writing
  <1> QED
    BY <1>1, <1>2 DEF IInv

(* The invariant holds in every reachable state.                           *)
THEOREM Invariance == Spec => []IInv
  <1>1. Init => IInv
    BY InitIInv
  <1>2. IInv /\ [Next]_vars => IInv'
    BY StepIInv
  <1> QED
    BY <1>1, <1>2, PTL DEF Spec

(* Type correctness.                                                       *)
THEOREM Typing == Spec => []TypeOK
  <1>1. IInv => TypeOK
    BY DEF IInv, TypeInv
  <1> QED
    BY <1>1, Invariance, PTL

(* A logged-in CLI holds a key the API knows.                              *)
THEOREM LoginWorks == Spec => []KeyWorks
  <1>1. IInv => KeyWorks
    BY DEF IInv, TypeInv
  <1> QED
    BY <1>1, Invariance, PTL

(* A code is good for one login.                                           *)
THEOREM CodeIsUsedUp == Spec => []OneTimeCode
  <1>1. IInv => OneTimeCode
    BY DEF IInv, TypeInv
  <1> QED
    BY <1>1, Invariance, PTL

----------------------------------------------------------------------------
(* A set of visitors or rows that gains or loses one element.              *)
LEMMA Counting ==
  ASSUME NEW S, IsFiniteSet(S), NEW T \in SUBSET S
  PROVE  /\ Cardinality(T) \in Nat /\ IsFiniteSet(T)
         /\ \A x \in T : /\ Cardinality(T \ {x}) = Cardinality(T) - 1
                         /\ Cardinality(T) > 0
         /\ \A x \in S \ T : Cardinality(T \cup {x}) = Cardinality(T) + 1
  <1>1. IsFiniteSet(T) /\ Cardinality(T) \in Nat
    BY FS_Subset, FS_CardinalityType
  <1>2. ASSUME NEW x \in T
        PROVE  /\ Cardinality(T \ {x}) = Cardinality(T) - 1
               /\ Cardinality(T) > 0
    <2>1. T # {} /\ IsFiniteSet(T \ {x})
      BY <1>1, FS_RemoveElement
    <2> QED BY <1>1, <2>1, FS_RemoveElement, FS_EmptySet
  <1>3. ASSUME NEW x \in S \ T PROVE Cardinality(T \cup {x}) = Cardinality(T) + 1
    BY <1>1, FS_AddElement
  <1> QED BY <1>1, <1>2, <1>3

----------------------------------------------------------------------------
(* Bulk downloads.                                                         *)

ZipTypeOK ==
  /\ zip \in [Zips -> [status : {"none", "pending", "running", "completed", "failed"},
                       files : SUBSET DOMAIN EntryOf, counted : BOOLEAN, link : BOOLEAN]]
  /\ client \in [Clients -> [at : {"idle"}]
                       \cup [at : {"insert"}, files : Asks, counted : BOOLEAN]
                       \cup [at : {"queue"}, row : Zips]]
  /\ message \in [Zips -> [at : {"none", "queued", "started", "collected", "stored",
                                 "done", "dead"},
                           files : SUBSET DOMAIN EntryOf, deliveries : Nat]]

\* The rows the bound is about, and the requests that have counted and not yet
\* inserted.
Counted == {z \in Zips : zip[z].status \in {"pending", "running"}
                        /\ zip[z].counted /\ message[z].deliveries <= 1}
Inserting == {c \in Clients : client[c].at = "insert" /\ client[c].counted}

FewRows == IsFiniteSet(ListZipDownloadsByUser)

\* A message that a worker has taken was delivered, and until then its row is
\* as it was inserted.
PendingUntilDelivered ==
  \A z \in Zips :
    /\ message[z].at \in {"started", "collected", "stored", "done"}
         => message[z].deliveries # 0
    /\ message[z].deliveries = 0 => zip[z].status \in {"none", "pending"}
    /\ zip[z].status = "none" => ~zip[z].counted

\* A request that has counted holds a place like the row it will insert.
PlacesBounded ==
  Cardinality(Counted) + Cardinality(Inserting) <= MaxZipPending - 1 + Cardinality(Clients)

ZipInv == ZipTypeOK /\ FewRows /\ PendingUntilDelivered /\ PlacesBounded

(* Rows, requests and messages keep their types.                           *)
LEMMA ZipTypeStep == ZipTypeOK /\ [ZipNext]_zipVars => ZipTypeOK'
  <1> SUFFICES ASSUME ZipTypeOK, [ZipNext]_zipVars PROVE ZipTypeOK'
    OBVIOUS
  <1> USE DEF ZipTypeOK
  <1> DEFINE Rows == [Zips -> [status : {"none", "pending", "running", "completed", "failed"},
                              files : SUBSET DOMAIN EntryOf, counted : BOOLEAN, link : BOOLEAN]]
         Messages == [Zips -> [at : {"none", "queued", "started", "collected", "stored",
                                     "done", "dead"},
                               files : SUBSET DOMAIN EntryOf, deliveries : Nat]]
  <1>1. ASSUME NEW c \in Clients, NEW files \in Asks, CountPending(c, files)
        PROVE  ZipTypeOK'
    <2>1. PICK b \in BOOLEAN : client' = [client EXCEPT ![c] =
                                 [at |-> "insert", files |-> files, counted |-> b]]
      BY <1>1 DEF CountPending
    <2>2. [at |-> "insert", files |-> files, counted |-> b]
            \in [at : {"insert"}, files : Asks, counted : BOOLEAN]
      OBVIOUS
    <2> QED BY <1>1, <2>1, <2>2 DEF CountPending
  <1>2. ASSUME NEW c \in Clients, NEW z \in Zips, CreateZipDownload(c, z)
        PROVE  ZipTypeOK'
    <2>1. /\ client[c].files \in SUBSET DOMAIN EntryOf /\ client[c].counted \in BOOLEAN
      BY <1>2, ZipAssumption DEF CreateZipDownload
    <2> QED BY <1>2, <2>1 DEF CreateZipDownload
  <1>3. ASSUME NEW c \in Clients, QueueZip(c) PROVE ZipTypeOK'
    <2>1. message' \in Messages
      BY <1>3, SMTT(30) DEF QueueZip
    <2>2. UNCHANGED zip /\ client' = [client EXCEPT ![c] = [at |-> "idle"]]
      BY <1>3 DEF QueueZip
    <2> QED BY <2>1, <2>2
  <1>4. ASSUME NEW f \in OwnFiles, BinFile(f) PROVE ZipTypeOK'
    BY <1>4 DEF BinFile
  <1>5. ASSUME NEW z \in Zips, StartZip(z) PROVE ZipTypeOK'
    BY <1>5 DEF StartZip
  <1>6. ASSUME NEW z \in Zips, NothingToZip(z) PROVE ZipTypeOK'
    <2>1. zip' \in Rows
      BY <1>6, SMTT(30) DEF NothingToZip, UpdateZipDownloadFailed
    <2>2. message' \in Messages /\ UNCHANGED client
      <3>1. message' = [message EXCEPT ![z] = [message[z] EXCEPT !.at = "dead"]]
        BY <1>6 DEF NothingToZip
      <3> QED BY <1>6, <3>1 DEF NothingToZip
    <2> HIDE DEF Rows, Messages
    <2> QED BY <2>1, <2>2 DEF Rows, Messages
  <1>7. ASSUME NEW z \in Zips, CollectFiles(z) PROVE ZipTypeOK'
    <2>1. Valid(GetFilesByIDs(zip[z].files)) \in SUBSET DOMAIN EntryOf
      BY DEF Valid, GetFilesByIDs
    <2>2. message' \in Messages
      <3> DEFINE fs == Valid(GetFilesByIDs(zip[z].files))
      <3>1. message' = [message EXCEPT ![z] = [message[z] EXCEPT !.at = "collected",
                                                                !.files = fs]]
        BY <1>7 DEF CollectFiles
      <3>2. fs \in SUBSET DOMAIN EntryOf
        BY <2>1
      <3> HIDE DEF fs
      <3> QED BY <3>1, <3>2
    <2>3. UNCHANGED <<zip, client>>
      BY <1>7 DEF CollectFiles
    <2> QED BY <2>2, <2>3
  <1>8. ASSUME NEW z \in Zips, StoreArchive(z) PROVE ZipTypeOK'
    BY <1>8 DEF StoreArchive
  <1>9. ASSUME NEW z \in Zips, UpdateZipDownloadCompleted(z) PROVE ZipTypeOK'
    <2>1. zip' = [zip EXCEPT ![z] = [@ EXCEPT !.status = "completed", !.link = TRUE]]
      BY <1>9 DEF UpdateZipDownloadCompleted
    <2>2. zip' \in Rows
      <3>1. zip[z] \in [status : {"none", "pending", "running", "completed", "failed"},
                        files : SUBSET DOMAIN EntryOf, counted : BOOLEAN, link : BOOLEAN]
        OBVIOUS
      <3>2. [zip[z] EXCEPT !.status = "completed", !.link = TRUE]
              \in [status : {"none", "pending", "running", "completed", "failed"},
                   files : SUBSET DOMAIN EntryOf, counted : BOOLEAN, link : BOOLEAN]
        BY <3>1
      <3>3. zip' = [zip EXCEPT ![z] = [zip[z] EXCEPT !.status = "completed", !.link = TRUE]]
        BY <2>1
      <3> QED BY <3>2, <3>3
    <2>3. message' \in Messages
      BY <1>9 DEF UpdateZipDownloadCompleted
    <2> QED BY <1>9, <2>2, <2>3 DEF UpdateZipDownloadCompleted
  <1>10. ASSUME NEW z \in Zips, StepFails(z) PROVE ZipTypeOK'
    <2>1. zip' \in Rows
      BY <1>10 DEF StepFails
    <2>2. PICK where \in {"queued", "dead"} : message' = [message EXCEPT ![z].at = where]
      BY <1>10 DEF StepFails
    <2>3. message' \in Messages
      BY <2>2
    <2> QED BY <1>10, <2>1, <2>3 DEF StepFails
  <1>11. ASSUME NEW z \in Zips, WorkerDies(z) PROVE ZipTypeOK'
    BY <1>11 DEF WorkerDies
  <1>12. CASE UNCHANGED zipVars
    BY <1>12 DEF zipVars
  <1> QED BY <1>1, <1>2, <1>3, <1>4, <1>5, <1>6, <1>7, <1>8, <1>9, <1>10, <1>11, <1>12
          DEF ZipNext

(* What the bound counts is finite.                                        *)
LEMMA ZipsFinite ==
  ASSUME FewRows, ZipTypeOK
  PROVE  /\ IsFiniteSet(CountPendingZipDownloadsByUser) /\ IsFiniteSet(Counted)
         /\ IsFiniteSet(Inserting)
         /\ Cardinality(Counted) \in Nat /\ Cardinality(Inserting) \in Nat
         /\ Cardinality(Clients) \in Nat
         /\ Cardinality(Inserting) <= Cardinality(Clients)
         /\ Cardinality(Counted) <= Cardinality(CountPendingZipDownloadsByUser)
         /\ Cardinality(CountPendingZipDownloadsByUser) \in Nat
  <1>1. /\ CountPendingZipDownloadsByUser \subseteq ListZipDownloadsByUser
        /\ Counted \subseteq CountPendingZipDownloadsByUser
        /\ Inserting \subseteq Clients
    BY DEF CountPendingZipDownloadsByUser, ListZipDownloadsByUser, Counted, Inserting
  <1>2. IsFiniteSet(CountPendingZipDownloadsByUser)
    BY <1>1, FS_Subset DEF FewRows
  <1> QED BY <1>1, <1>2, ZipAssumption, FS_Subset, FS_CardinalityType

(* Where no request and no row joins, the bound is kept.                   *)
LEMMA NobodyJoins ==
  ASSUME ZipTypeOK, FewRows, PlacesBounded,
         Counted' \subseteq Counted, Inserting' \subseteq Inserting
  PROVE  PlacesBounded'
  <1>1. /\ Cardinality(Counted') <= Cardinality(Counted) /\ Cardinality(Counted') \in Nat
        /\ Cardinality(Inserting') <= Cardinality(Inserting) /\ Cardinality(Inserting') \in Nat
    BY ZipsFinite, FS_Subset, FS_CardinalityType
  <1> QED BY <1>1, ZipsFinite, ZipAssumption DEF PlacesBounded

(* A step of the worker, or none.                                          *)
LEMMA ZipWorkerStep ==
  ASSUME ZipInv, NEW z \in Zips,
         \/ StartZip(z) \/ NothingToZip(z) \/ CollectFiles(z) \/ StoreArchive(z)
         \/ UpdateZipDownloadCompleted(z) \/ StepFails(z) \/ WorkerDies(z)
  PROVE  /\ ListZipDownloadsByUser' \subseteq ListZipDownloadsByUser \cup {z}
         /\ PendingUntilDelivered'
         /\ Counted' \subseteq Counted
         /\ Inserting' = Inserting
  <1> USE DEF ZipInv, ZipTypeOK, PendingUntilDelivered
  <1>1. UNCHANGED client
    BY DEF StartZip, NothingToZip, CollectFiles, StoreArchive, UpdateZipDownloadCompleted,
           StepFails, WorkerDies
  <1>2. CASE StartZip(z)
    <2>1. /\ message' = [message EXCEPT ![z].at = "started", ![z].deliveries = @ + 1]
          /\ zip' = [zip EXCEPT ![z].status = "running"] \/ zip' = zip
      BY <1>2 DEF StartZip
    <2>2. message[z].deliveries \in Nat /\ message'[z].deliveries = message[z].deliveries + 1
      BY <2>1
    <2>3. PendingUntilDelivered'
      BY <2>1, <2>2
    <2>4. Counted' \subseteq Counted
      BY <2>1, <2>2 DEF Counted
    <2> QED BY <1>1, <2>1, <2>3, <2>4 DEF ListZipDownloadsByUser, Inserting
  <1>3. CASE ~StartZip(z)
    <2>1. /\ message[z].deliveries # 0
          /\ \A x \in Zips : message'[x].deliveries = message[x].deliveries
          /\ \A x \in Zips \ {z} : message'[x] = message[x]
      <3>1. message[z].deliveries # 0
        BY <1>3 DEF NothingToZip, CollectFiles, StoreArchive, UpdateZipDownloadCompleted,
                    StepFails, WorkerDies, Held
      <3>2. \/ \E s : message' = [message EXCEPT ![z].at = s]
            \/ \E s, fs : message' = [message EXCEPT ![z].at = s, ![z].files = fs]
            \/ UNCHANGED message
        BY <1>3 DEF NothingToZip, CollectFiles, StoreArchive, UpdateZipDownloadCompleted,
                    StepFails, WorkerDies
      <3>3. CASE \E s : message' = [message EXCEPT ![z].at = s]
        BY <3>1, <3>3
      <3>4. CASE \E s, fs : message' = [message EXCEPT ![z].at = s, ![z].files = fs]
        <4>1. PICK s, fs : message' = [message EXCEPT ![z].at = s, ![z].files = fs]
          BY <3>4
        <4>2. message' = [message EXCEPT ![z] = [message[z] EXCEPT !.at = s, !.files = fs]]
          BY <4>1
        <4> QED BY <3>1, <4>2
      <3>5. CASE UNCHANGED message
        BY <3>1, <3>5
      <3> QED BY <3>2, <3>3, <3>4, <3>5
    <2>2. \/ zip' = zip
          \/ zip' = [zip EXCEPT ![z].status = "failed"]
          \/ zip' = [zip EXCEPT ![z].status = "completed", ![z].link = TRUE]
      BY <1>3 DEF NothingToZip, CollectFiles, StoreArchive, UpdateZipDownloadCompleted,
                  StepFails, WorkerDies, UpdateZipDownloadFailed
    <2>3. PendingUntilDelivered'
      BY <2>1, <2>2
    <2>4. Counted' \subseteq Counted
      BY <2>1, <2>2 DEF Counted
    <2> QED BY <1>1, <2>2, <2>3, <2>4 DEF ListZipDownloadsByUser, Inserting
  <1> QED BY <1>2, <1>3

(* Every step keeps the bound on places.                                   *)
LEMMA ZipStep == ZipInv /\ [ZipNext]_zipVars => ZipInv'
  <1> SUFFICES ASSUME ZipInv, [ZipNext]_zipVars PROVE ZipInv'
    OBVIOUS
  <1>0. ZipTypeOK /\ ZipTypeOK' /\ FewRows /\ PendingUntilDelivered /\ PlacesBounded
    BY ZipTypeStep DEF ZipInv
  <1> SUFFICES FewRows' /\ PendingUntilDelivered' /\ PlacesBounded'
    BY <1>0 DEF ZipInv
  <1>1. ASSUME NEW c \in Clients, NEW files \in Asks, CountPending(c, files)
        PROVE  FewRows' /\ PendingUntilDelivered' /\ PlacesBounded'
    <2>1. UNCHANGED <<zip, message>>
      BY <1>1 DEF CountPending
    <2>2. FewRows' /\ PendingUntilDelivered' /\ Counted' = Counted
      BY <1>0, <2>1 DEF FewRows, ListZipDownloadsByUser, PendingUntilDelivered, Counted
    <2>3. CASE Cardinality(CountPendingZipDownloadsByUser) < MaxZipPending
      <3>1. /\ Cardinality(Inserting') <= Cardinality(Clients)
            /\ Cardinality(Inserting') \in Nat
        BY ZipAssumption, FS_Subset, FS_CardinalityType DEF Inserting
      <3> QED BY <1>0, <2>2, <2>3, <3>1, ZipsFinite, ZipAssumption DEF PlacesBounded
    <2>4. CASE ~(Cardinality(CountPendingZipDownloadsByUser) < MaxZipPending)
      <3>1. client' = [client EXCEPT ![c] =
                         [at |-> "insert", files |-> files, counted |-> FALSE]]
        BY <1>1, <2>4 DEF CountPending
      <3>2. Inserting' \subseteq Inserting
        BY <1>0, <3>1 DEF Inserting, ZipTypeOK
      <3> QED BY <1>0, <2>2, <3>2, NobodyJoins
    <2> QED BY <2>3, <2>4, <2>2
  <1>2. ASSUME NEW c \in Clients, NEW z \in Zips, CreateZipDownload(c, z)
        PROVE  FewRows' /\ PendingUntilDelivered' /\ PlacesBounded'
    <2>0. /\ client[c].at = "insert" /\ zip[z].status = "none" /\ UNCHANGED message
          /\ zip' = [zip EXCEPT ![z] = [status |-> "pending", files |-> client[c].files,
                                        counted |-> client[c].counted, link |-> FALSE]]
          /\ client' = [client EXCEPT ![c] = [at |-> "queue", row |-> z]]
      BY <1>2 DEF CreateZipDownload
    <2>1. FewRows'
      <3>1. ListZipDownloadsByUser' = ListZipDownloadsByUser \cup {z}
        BY <1>0, <2>0 DEF ListZipDownloadsByUser, ZipTypeOK
      <3> QED BY <1>0, <3>1, FS_AddElement DEF FewRows
    <2>2. PendingUntilDelivered'
      BY <1>0, <2>0 DEF PendingUntilDelivered, ZipTypeOK
    <2>3. CASE client[c].counted
      <3>1. Counted' \subseteq Counted \cup {z} /\ z \notin Counted
        BY <1>0, <2>0 DEF Counted, ZipTypeOK
      <3>2. Inserting' = Inserting \ {c} /\ c \in Inserting
        BY <1>0, <2>0, <2>3 DEF Inserting, ZipTypeOK
      <3>3. /\ IsFiniteSet(Counted \cup {z})
            /\ Cardinality(Counted \cup {z}) = Cardinality(Counted) + 1
        BY <1>0, <3>1, ZipsFinite, FS_AddElement
      <3>4. /\ Cardinality(Counted') <= Cardinality(Counted) + 1
            /\ Cardinality(Counted') \in Nat
        BY <3>1, <3>3, FS_Subset, FS_CardinalityType
      <3>5. Cardinality(Inserting') = Cardinality(Inserting) - 1
        BY <1>0, <3>2, ZipsFinite, FS_RemoveElement
      <3>6. PlacesBounded'
        BY <1>0, <3>4, <3>5, ZipsFinite, ZipAssumption DEF PlacesBounded
      <3> QED BY <2>1, <2>2, <3>6
    <2>4. CASE ~client[c].counted
      <3>1. Counted' \subseteq Counted /\ Inserting' \subseteq Inserting
        BY <1>0, <2>0, <2>4 DEF Counted, Inserting, ZipTypeOK
      <3> QED BY <1>0, <2>1, <2>2, <3>1, NobodyJoins
    <2> QED BY <2>3, <2>4
  <1>3. ASSUME NEW c \in Clients, QueueZip(c)
        PROVE  FewRows' /\ PendingUntilDelivered' /\ PlacesBounded'
    <2>1. /\ UNCHANGED zip
          /\ \A z \in Zips : /\ message'[z].deliveries = message[z].deliveries
                             /\ message'[z].at \in {message[z].at, "queued"}
      BY <1>0, <1>3 DEF QueueZip, ZipTypeOK
    <2>2. Counted' = Counted /\ Inserting' \subseteq Inserting
      BY <1>0, <1>3, <2>1 DEF QueueZip, Counted, Inserting, ZipTypeOK
    <2>3. FewRows' /\ PendingUntilDelivered'
      BY <1>0, <2>1 DEF FewRows, ListZipDownloadsByUser, PendingUntilDelivered
    <2> QED BY <1>0, <2>2, <2>3, NobodyJoins
  <1>4. ASSUME UNCHANGED <<zip, client, message>>
        PROVE  FewRows' /\ PendingUntilDelivered' /\ PlacesBounded'
    BY <1>0, <1>4 DEF FewRows, ListZipDownloadsByUser, PendingUntilDelivered, PlacesBounded,
       Counted, Inserting
  <1>5. ASSUME NEW f \in OwnFiles, BinFile(f)
        PROVE  FewRows' /\ PendingUntilDelivered' /\ PlacesBounded'
    BY <1>4, <1>5 DEF BinFile
  <1>6. ASSUME NEW z \in Zips,
               \/ StartZip(z) \/ NothingToZip(z) \/ CollectFiles(z) \/ StoreArchive(z)
               \/ UpdateZipDownloadCompleted(z) \/ StepFails(z) \/ WorkerDies(z)
        PROVE  FewRows' /\ PendingUntilDelivered' /\ PlacesBounded'
    <2>1. FewRows'
      BY <1>0, <1>6, ZipWorkerStep, FS_AddElement, FS_Subset DEF FewRows
    <2> QED BY <1>0, <1>6, <2>1, ZipWorkerStep, NobodyJoins
  <1>7. CASE UNCHANGED zipVars
    BY <1>4, <1>7 DEF zipVars
  <1> QED BY <1>1, <1>2, <1>3, <1>5, <1>6, <1>7 DEF ZipNext

(* The invariant of the bulk downloads holds of every behaviour.           *)
THEOREM ZipInvariance == ZipSpec => []ZipInv
  <1>1. ZipInit => ZipInv
    <2> SUFFICES ASSUME ZipInit PROVE ZipInv
      OBVIOUS
    <2>1. ListZipDownloadsByUser = {} /\ Counted = {} /\ Inserting = {}
      BY DEF ZipInit, ListZipDownloadsByUser, Counted, Inserting
    <2>2. FewRows /\ PlacesBounded
      BY <2>1, FS_EmptySet, ZipAssumption, FS_CardinalityType DEF FewRows, PlacesBounded
    <2>3. ZipTypeOK /\ PendingUntilDelivered
      BY DEF ZipInit, ZipTypeOK, PendingUntilDelivered
    <2> QED BY <2>2, <2>3 DEF ZipInv
  <1> QED BY <1>1, ZipStep, PTL DEF ZipSpec

(* Requests side by side overrun the limit of unfinished downloads by one  *)
(* less than there are of them at the most.                                *)
THEOREM PendingIsBounded == ZipSpec => []PendingBounded
  <1>1. ZipInv => PendingBounded
    <2> SUFFICES ASSUME ZipInv PROVE PendingBounded
      OBVIOUS
    <2>1. Cardinality(Counted) <= MaxZipPending - 1 + Cardinality(Clients)
      BY ZipsFinite, ZipAssumption DEF ZipInv, PlacesBounded
    <2> QED BY <2>1 DEF PendingBounded, Counted
  <1> QED BY <1>1, ZipInvariance, PTL

----------------------------------------------------------------------------
----------------------------------------------------------------------------
(* Webhooks.                                                               *)

HookEvents == ValidEventTypes \cup {"test"}

HookRows ==
  [state : {"none", "there", "deleted"}, url : Urls \cup {""},
   events : SUBSET ValidEventTypes, active : BOOLEAN, secret : {"", "generated"}]
DeliveryRows ==
  [state : {"none", "created", "queued", "taken", "done", "dead", "gone"},
   webhook : Hooks \cup {""}, event : HookEvents \cup {""}, url : Urls \cup {""}, tries : Nat]
Listing == [at : {"list"}, event : HookEvents]
Creating == [at : {"create"}, todo : SUBSET Hooks, event : HookEvents]
Queueing == [at : {"queue"}, todo : SUBSET Hooks, event : HookEvents, row : DeliveryIds]
Reading == [at : {"read"}, row : DeliveryIds]
Posting == [at : {"post"}, row : DeliveryIds, url : Urls \cup {""}]

HooksTypeOK ==
  /\ hook \in [Hooks -> HookRows]
  /\ row \in [DeliveryIds -> DeliveryRows]
  /\ dispatch \in [Dispatchers -> {Rest} \cup Listing \cup Creating \cup Queueing]
  /\ poster \in [Posters -> {Rest} \cup Reading \cup Posting]
  /\ late \in [Hooks -> Nat]

\* A delivery is of a webhook, which is there as long as the delivery is.
RowHasHook ==
  \A d \in DeliveryIds :
    row[d].state # "none" => /\ row[d].webhook \in Hooks
                             /\ row[d].state # "gone" => There(row[d].webhook)

\* A worker works on a delivery that was created.
PosterHasRow == \A p \in Posters : poster[p].at # "idle" => row[poster[p].row].state # "none"

\* The workers that are about to post to a former endpoint of h.
Stale(h) == {p \in Posters : /\ poster[p].at = "post" /\ row[poster[p].row].webhook = h
                             /\ ~(There(h) /\ hook[h].url = poster[p].url)}

\* A worker posts once with what it has read.
LateAndStale == \A h \in Hooks : late[h] + Cardinality(Stale(h)) <= Cardinality(Posters)

HooksInv == HooksTypeOK /\ RowHasHook /\ PosterHasRow /\ LateAndStale

(* The workers with an old address are finitely many.                      *)
LEMMA StaleFinite ==
  ASSUME NEW h \in Hooks
  PROVE  /\ IsFiniteSet(Stale(h)) /\ Cardinality(Stale(h)) \in Nat
         /\ Cardinality(Stale(h)) <= Cardinality(Posters) /\ Cardinality(Posters) \in Nat
         /\ IsFiniteSet(Stale(h)')
         /\ Cardinality(Stale(h)') \in Nat /\ Cardinality(Stale(h)') <= Cardinality(Posters)
  BY HooksAssumption, FS_Subset, FS_CardinalityType DEF Stale

(* What a dispatcher and a worker know.                                    *)
LEMMA Knows ==
  ASSUME HooksTypeOK
  PROVE  /\ \A g \in Dispatchers :
              /\ dispatch[g].at = "list" => dispatch[g].event \in HookEvents
              /\ dispatch[g].at = "create" => dispatch[g] \in Creating
              /\ dispatch[g].at = "queue" => dispatch[g] \in Queueing
         /\ \A p \in Posters :
              /\ poster[p].at = "read" => poster[p] \in Reading
              /\ poster[p].at = "post" => poster[p] \in Posting
              /\ poster[p].at # "idle" => poster[p].row \in DeliveryIds
  <1>1. ASSUME NEW g \in Dispatchers
        PROVE  /\ dispatch[g].at = "list" => dispatch[g].event \in HookEvents
               /\ dispatch[g].at = "create" => dispatch[g] \in Creating
               /\ dispatch[g].at = "queue" => dispatch[g] \in Queueing
    <2>1. dispatch[g] \in {Rest} \cup Listing \cup Creating \cup Queueing
      BY DEF HooksTypeOK
    <2>2. CASE dispatch[g] \in Listing
      BY <2>2 DEF Listing
    <2>3. CASE dispatch[g] \in Creating
      BY <2>3 DEF Creating
    <2>4. CASE dispatch[g] \in Queueing
      BY <2>4 DEF Queueing
    <2>5. CASE dispatch[g] = Rest
      BY <2>5 DEF Rest
    <2> QED BY <2>1, <2>2, <2>3, <2>4, <2>5
  <1>2. ASSUME NEW p \in Posters
        PROVE  /\ poster[p].at = "read" => poster[p] \in Reading
               /\ poster[p].at = "post" => poster[p] \in Posting
               /\ poster[p].at # "idle" => poster[p].row \in DeliveryIds
    <2>1. poster[p] \in {Rest} \cup Reading \cup Posting
      BY DEF HooksTypeOK
    <2>2. CASE poster[p] \in Reading
      BY <2>2 DEF Reading
    <2>3. CASE poster[p] \in Posting
      BY <2>3 DEF Posting
    <2>4. CASE poster[p] = Rest
      BY <2>4 DEF Rest
    <2> QED BY <2>1, <2>2, <2>3, <2>4
  <1> QED BY <1>1, <1>2

(* Webhooks, deliveries, dispatchers and workers keep their types.         *)
LEMMA HooksTypeStep ==
  HooksTypeOK /\ RowHasHook /\ PosterHasRow /\ [HooksNext]_hookVars => HooksTypeOK'
  <1> SUFFICES ASSUME HooksTypeOK, RowHasHook, PosterHasRow, [HooksNext]_hookVars
               PROVE  HooksTypeOK'
    OBVIOUS
  <1>0. /\ hook \in [Hooks -> HookRows]
        /\ row \in [DeliveryIds -> DeliveryRows]
        /\ dispatch \in [Dispatchers -> {Rest} \cup Listing \cup Creating \cup Queueing]
        /\ poster \in [Posters -> {Rest} \cup Reading \cup Posting]
        /\ late \in [Hooks -> Nat]
    BY DEF HooksTypeOK
  <1> SUFFICES /\ hook' \in [Hooks -> HookRows]
               /\ row' \in [DeliveryIds -> DeliveryRows]
               /\ dispatch' \in [Dispatchers -> {Rest} \cup Listing \cup Creating \cup Queueing]
               /\ poster' \in [Posters -> {Rest} \cup Reading \cup Posting]
               /\ late' \in [Hooks -> Nat]
    BY DEF HooksTypeOK
  <1>a. ASSUME NEW r \in HookRows, NEW url \in Urls, NEW events \in Subscriptions,
               NEW on \in BOOLEAN
        PROVE  /\ [state |-> "there", url |-> url, events |-> events, active |-> on,
                   secret |-> "generated"] \in HookRows
               /\ [r EXCEPT !.url = url, !.events = events, !.active = on] \in HookRows
               /\ [r EXCEPT !.state = "deleted"] \in HookRows
    <2>1. events \in SUBSET ValidEventTypes
      BY HooksAssumption
    <2> QED BY <2>1 DEF HookRows
  <1>b. ASSUME NEW d \in DeliveryIds,
               NEW s \in {"none", "created", "queued", "taken", "done", "dead", "gone"}
        PROVE  [row EXCEPT ![d].state = s] \in [DeliveryIds -> DeliveryRows]
    <2>1. row[d] \in DeliveryRows
      BY <1>0
    <2>2. [row[d] EXCEPT !.state = s] \in DeliveryRows
      BY <2>1 DEF DeliveryRows
    <2> QED BY <1>0, <2>2
  <1>c. ASSUME NEW d \in DeliveryIds
        PROVE  row[d].state \in {"none", "created", "queued", "taken", "done", "dead", "gone"}
    <2>1. row[d] \in DeliveryRows
      BY <1>0
    <2> QED BY <2>1 DEF DeliveryRows
  <1>1. ASSUME NEW h \in Hooks, NEW url \in Urls, NEW events \in Subscriptions,
               NEW named \in BOOLEAN, CreateWebhook(h, url, events, named)
        PROVE  HooksTypeOK'
    <2>1. hook' = [hook EXCEPT ![h] =
                    [state |-> "there", url |-> url, events |-> events, active |-> TRUE,
                     secret |-> "generated"]]
      BY <1>1 DEF CreateWebhook
    <2>2. [state |-> "there", url |-> url, events |-> events, active |-> TRUE,
           secret |-> "generated"] \in HookRows
      BY HooksAssumption DEF HookRows
    <2> QED BY <1>0, <1>1, <2>1, <2>2 DEF CreateWebhook, HooksTypeOK
  <1>2. ASSUME NEW h \in Hooks, NEW url \in Urls, NEW events \in Subscriptions,
               NEW active \in {"true", "false", "unsent"},
               UpdateWebhook(h, url, events, active)
        PROVE  HooksTypeOK'
    <2>1. hook' = [hook EXCEPT ![h] =
                     [hook[h] EXCEPT !.url = url, !.events = events,
                                     !.active = Decoded(active)]]
      BY <1>2 DEF UpdateWebhook
    <2>2. [hook[h] EXCEPT !.url = url, !.events = events, !.active = Decoded(active)]
            \in HookRows
      BY <1>0, <1>a DEF Decoded
    <2>3. late' \in [Hooks -> Nat]
      BY <1>0, <1>2 DEF UpdateWebhook
    <2> QED BY <1>0, <1>2, <2>1, <2>2, <2>3 DEF UpdateWebhook, HooksTypeOK
  <1>3. ASSUME NEW h \in Hooks, DeleteWebhook(h) PROVE HooksTypeOK'
    <2>1. hook' \in [Hooks -> HookRows]
      <3>1. [hook[h] EXCEPT !.state = "deleted"] \in HookRows
        BY <1>0 DEF HookRows
      <3> QED BY <1>0, <1>3, <3>1 DEF DeleteWebhook
    <2>2. row' \in [DeliveryIds -> DeliveryRows]
      <3>1. ASSUME NEW d \in DeliveryIds
            PROVE  [row[d] EXCEPT !.state = "gone"] \in DeliveryRows
        <4>1. row[d] \in DeliveryRows
          BY <1>0
        <4> QED BY <4>1 DEF DeliveryRows
      <3> QED BY <1>0, <1>3, <3>1 DEF DeleteWebhook
    <2>3. late' \in [Hooks -> Nat]
      BY <1>0, <1>3 DEF DeleteWebhook
    <2> QED BY <1>0, <1>3, <2>1, <2>2, <2>3 DEF DeleteWebhook, HooksTypeOK
  <1>4. ASSUME NEW h \in Hooks, NEW d \in DeliveryIds, NEW event \in HookEvents,
               Insert(d, h, event)
        PROVE  row' \in [DeliveryIds -> DeliveryRows]
    <2>1. hook[h].url \in Urls \cup {""}
      BY <1>0 DEF HookRows
    <2>2. [state |-> "created", webhook |-> h, event |-> event, url |-> hook[h].url,
           tries |-> 0] \in DeliveryRows
      BY <2>1 DEF DeliveryRows
    <2> QED BY <1>0, <1>4, <2>2 DEF Insert
  <1>5. ASSUME NEW g \in Dispatchers, NEW h \in Hooks, NEW d \in DeliveryIds,
               TestWebhook(g, h, d)
        PROVE  HooksTypeOK'
    <2>1. dispatch' = [dispatch EXCEPT ![g] = [at |-> "queue", event |-> "test",
                                               todo |-> {}, row |-> d]]
      BY <1>5 DEF TestWebhook
    <2>2. [at |-> "queue", event |-> "test", todo |-> {}, row |-> d] \in Queueing
      BY DEF Queueing, HookEvents
    <2>3. row' \in [DeliveryIds -> DeliveryRows]
      BY <1>4, <1>5 DEF TestWebhook, HookEvents
    <2> QED BY <1>0, <1>5, <2>1, <2>2, <2>3 DEF TestWebhook, HooksTypeOK
  <1>6. ASSUME NEW g \in Dispatchers, FileUploaded(g) \/ AttemptFails(g) \/ JobCompletes(g)
        PROVE  HooksTypeOK'
    <2>1. PICK e \in HookEvents : Start(g, e)
      BY <1>6 DEF FileUploaded, AttemptFails, JobCompletes, HookEvents, ValidEventTypes
    <2>2. [at |-> "list", event |-> e] \in Listing
      BY DEF Listing
    <2> QED BY <1>0, <2>1, <2>2 DEF Start, HooksTypeOK
  <1>7. ASSUME NEW g \in Dispatchers, ListWebhooksFor(g) PROVE HooksTypeOK'
    <2> DEFINE todo == ListActiveWebhooksByUserAndEvent(dispatch[g].event)
    <2>1. dispatch[g].event \in HookEvents
      BY <1>7, Knows DEF ListWebhooksFor
    <2>2. todo \in SUBSET Hooks
      BY DEF ListActiveWebhooksByUserAndEvent
    <2>3. [at |-> "create", todo |-> todo, event |-> dispatch[g].event] \in Creating
      BY <2>1, <2>2 DEF Creating
    <2>4. dispatch' = Finish(g) \/ dispatch' = [dispatch EXCEPT ![g] =
            [at |-> "create", todo |-> todo, event |-> dispatch[g].event]]
      BY <1>7 DEF ListWebhooksFor
    <2>5. dispatch' \in [Dispatchers -> {Rest} \cup Listing \cup Creating \cup Queueing]
      <3> HIDE DEF todo
      <3> QED BY <1>0, <2>3, <2>4 DEF Finish
    <2> QED BY <1>0, <1>7, <2>5 DEF ListWebhooksFor, HooksTypeOK
  <1>9. ASSUME NEW g \in Dispatchers, dispatch[g].event \in HookEvents,
               NEW T \in SUBSET Hooks
        PROVE  Onward(g, T) \in {Rest} \cup Creating
    BY <1>9 DEF Onward, Creating
  <1>10. ASSUME NEW g \in Dispatchers, NEW h \in Hooks, CreateDelivery(g, h)
         PROVE  HooksTypeOK'
    <2>0. /\ UNCHANGED <<hook, poster, late>>
          /\ dispatch[g].event \in HookEvents
          /\ dispatch[g].todo \ {h} \in SUBSET Hooks
      BY <1>10, Knows DEF CreateDelivery, Creating
    <2>1. ASSUME NEW d \in DeliveryIds, Insert(d, h, dispatch[g].event),
                 dispatch' = [dispatch EXCEPT ![g] = [at |-> "queue", row |-> d,
                   todo |-> dispatch[g].todo \ {h}, event |-> dispatch[g].event]]
          PROVE  HooksTypeOK'
      <3>1. [at |-> "queue", row |-> d, todo |-> dispatch[g].todo \ {h},
             event |-> dispatch[g].event] \in Queueing
        BY <2>0 DEF Queueing
      <3>2. row' \in [DeliveryIds -> DeliveryRows]
        BY <1>4, <2>0, <2>1
      <3> QED BY <1>0, <2>0, <2>1, <3>1, <3>2 DEF HooksTypeOK
    <2>2. CASE /\ dispatch' = [dispatch EXCEPT ![g] = Onward(g, dispatch[g].todo \ {h})]
               /\ UNCHANGED row
      BY <1>0, <1>9, <2>0, <2>2 DEF HooksTypeOK
    <2> QED BY <1>10, <2>1, <2>2 DEF CreateDelivery
  <1>11. ASSUME NEW g \in Dispatchers, Enqueue(g) PROVE HooksTypeOK'
    <2>0. /\ UNCHANGED <<hook, poster, late>>
          /\ dispatch[g].todo \in SUBSET Hooks /\ dispatch[g].row \in DeliveryIds
          /\ dispatch[g].event \in HookEvents
          /\ dispatch' = [dispatch EXCEPT ![g] = Onward(g, dispatch[g].todo)]
      BY <1>11, Knows DEF Enqueue, Queueing
    <2>1. CASE row' = row
      BY <1>0, <1>9, <2>0, <2>1 DEF HooksTypeOK
    <2>3. CASE row' # row
      <3>1. PICK s \in {"none", "created", "queued", "taken", "done", "dead", "gone"} :
              row' = [row EXCEPT ![dispatch[g].row].state = s]
        BY <1>11, <1>c, <2>0, <2>3 DEF Enqueue
      <3>2. row' \in [DeliveryIds -> DeliveryRows]
        BY <1>b, <2>0, <3>1
      <3> QED BY <1>0, <1>9, <2>0, <3>2 DEF HooksTypeOK
    <2> QED BY <2>1, <2>3
  <1>12. ASSUME NEW p \in Posters, NEW d \in DeliveryIds, Take(p, d) PROVE HooksTypeOK'
    <2>1. row' = [row EXCEPT ![d] = [row[d] EXCEPT !.state = "taken", !.tries = @ + 1]]
      BY <1>12 DEF Take
    <2>2. [row[d] EXCEPT !.state = "taken", !.tries = @ + 1] \in DeliveryRows
      <3> DEFINE r == row[d]  n == r.tries + 1
      <3>1. r \in DeliveryRows
        BY <1>0
      <3> HIDE DEF r
      <3>3. n \in Nat
        <4>1. r.tries \in Nat
          BY <3>1 DEF DeliveryRows
        <4> QED BY <4>1
      <3> HIDE DEF n
      <3>2. [r EXCEPT !.state = "taken", !.tries = n] \in DeliveryRows
        BY <3>1, <3>3 DEF DeliveryRows
      <3> QED BY <3>2 DEF r, n
    <2>3. [at |-> "read", row |-> d] \in Reading
      BY DEF Reading
    <2> QED BY <1>0, <1>12, <2>1, <2>2, <2>3 DEF Take, HooksTypeOK
  <1>14. ASSUME NEW p \in Posters, ReadWebhook(p) PROVE HooksTypeOK'
    <2> DEFINE d == poster[p].row
    <2>0. d \in DeliveryIds /\ UNCHANGED <<hook, row, dispatch, late>>
      BY <1>14, Knows DEF ReadWebhook
    <2>1. CASE row[d].state = "gone"
      BY <1>0, <1>14, <2>0, <2>1 DEF ReadWebhook, HooksTypeOK
    <2>2. CASE row[d].state # "gone"
      <3>1. poster' = [poster EXCEPT ![p] =
                         [at |-> "post", row |-> d, url |-> GetWebhookByDeliveryID(d)]]
        BY <1>14, <2>2 DEF ReadWebhook
      <3>2. GetWebhookByDeliveryID(d) \in Urls \cup {""}
        <4>1. row[d].webhook \in Hooks
          BY <1>14, <2>0 DEF RowHasHook, PosterHasRow, ReadWebhook
        <4>2. hook[row[d].webhook] \in HookRows
          BY <1>0, <4>1
        <4> QED BY <4>2 DEF GetWebhookByDeliveryID, HookRows
      <3>3. [at |-> "post", row |-> d, url |-> GetWebhookByDeliveryID(d)] \in Posting
        BY <2>0, <3>2 DEF Posting
      <3> QED BY <1>0, <2>0, <3>1, <3>3 DEF HooksTypeOK
    <2> QED BY <2>1, <2>2
  <1>15. ASSUME NEW p \in Posters, Post(p) PROVE HooksTypeOK'
    <2> DEFINE d == poster[p].row
    <2>1. d \in DeliveryIds
      BY <1>15, Knows DEF Post
    <2>2. PICK s \in {"none", "created", "queued", "taken", "done", "dead", "gone"} :
            row' = [row EXCEPT ![d].state = s]
      BY <1>15 DEF Post
    <2>3. row' \in [DeliveryIds -> DeliveryRows]
      BY <1>b, <2>1, <2>2
    <2>4. late' \in [Hooks -> Nat]
      <3>0. row[d].webhook \in Hooks
        BY <1>15, <2>1 DEF RowHasHook, PosterHasRow, Post
      <3>1. PICK n \in {0, 1} : late' = [late EXCEPT ![row[d].webhook] = @ + n]
        <4>1. late[row[d].webhook] + 0 = late[row[d].webhook]
          BY <1>0, <3>0
        <4> QED BY <1>15, <3>0, <4>1 DEF Post
      <3>2. late[row[d].webhook] + n \in Nat
        BY <1>0, <3>0
      <3> QED BY <1>0, <3>1, <3>2
    <2> QED BY <1>0, <1>15, <2>3, <2>4 DEF Post, HooksTypeOK
  <1>16. ASSUME NEW p \in Posters, PosterDies(p) PROVE HooksTypeOK'
    <2>1. PICK s \in {"gone", "queued"} : row' = [row EXCEPT ![poster[p].row].state = s]
      BY <1>16 DEF PosterDies
    <2>0. poster[p].row \in DeliveryIds
      BY <1>16, Knows DEF PosterDies
    <2>2. row' \in [DeliveryIds -> DeliveryRows]
      BY <1>b, <2>0, <2>1
    <2> QED BY <1>0, <1>16, <2>2 DEF PosterDies, HooksTypeOK
  <1>17. CASE UNCHANGED hookVars
    BY <1>0, <1>17 DEF hookVars
  <1> QED BY <1>1, <1>2, <1>3, <1>5, <1>6, <1>7, <1>10, <1>11, <1>12, <1>14, <1>15, <1>16, <1>17
          DEF HooksNext, HooksTypeOK

\* What a step may do to the posts of h: a change of the webhook begins anew, a
\* late post is one of those that were about to come.
LateStep(h) ==
  \/ late'[h] = 0
  \/ late'[h] = late[h] /\ Stale(h)' \subseteq Stale(h)
  \/ \E p \in Stale(h) : late'[h] = late[h] + 1 /\ Stale(h)' \subseteq Stale(h) \ {p}

(* Such a step keeps the bound.                                            *)
LEMMA LateStepKeeps ==
  ASSUME HooksTypeOK, LateAndStale, \A h \in Hooks : LateStep(h)
  PROVE  LateAndStale'
  <1> SUFFICES ASSUME NEW h \in Hooks
               PROVE  late'[h] + Cardinality(Stale(h)') <= Cardinality(Posters)
    BY DEF LateAndStale
  <1>0. /\ late[h] \in Nat /\ late[h] + Cardinality(Stale(h)) <= Cardinality(Posters)
    BY DEF HooksTypeOK, LateAndStale
  <1>1. CASE late'[h] = 0
    BY <1>1, StaleFinite
  <1>2. CASE late'[h] = late[h] /\ Stale(h)' \subseteq Stale(h)
    <2>1. Cardinality(Stale(h)') <= Cardinality(Stale(h))
      BY <1>2, StaleFinite, FS_Subset
    <2> QED BY <1>0, <1>2, <2>1, StaleFinite
  <1>3. ASSUME NEW p \in Stale(h), late'[h] = late[h] + 1, Stale(h)' \subseteq Stale(h) \ {p}
        PROVE  late'[h] + Cardinality(Stale(h)') <= Cardinality(Posters)
    <2>1. /\ IsFiniteSet(Stale(h) \ {p})
          /\ Cardinality(Stale(h) \ {p}) = Cardinality(Stale(h)) - 1
      BY StaleFinite, FS_RemoveElement
    <2>2. Cardinality(Stale(h)') <= Cardinality(Stale(h)) - 1
      BY <1>3, <2>1, FS_Subset
    <2> QED BY <1>0, <1>3, <2>2, StaleFinite
  <1> QED BY <1>1, <1>2, <1>3 DEF LateStep

(* Every step keeps the deliveries with their webhooks and the bound.      *)
LEMMA HooksStep == HooksInv /\ [HooksNext]_hookVars => HooksInv'
  <1> SUFFICES ASSUME HooksInv, [HooksNext]_hookVars PROVE HooksInv'
    OBVIOUS
  <1>0. HooksTypeOK /\ HooksTypeOK' /\ RowHasHook /\ PosterHasRow /\ LateAndStale
    BY HooksTypeStep DEF HooksInv
  <1> DEFINE Kept == RowHasHook' /\ PosterHasRow' /\ \A h \in Hooks : LateStep(h)
  <1> SUFFICES Kept
    BY <1>0, LateStepKeeps DEF HooksInv
  <1>f. /\ hook \in [Hooks -> HookRows] /\ row \in [DeliveryIds -> DeliveryRows]
        /\ late \in [Hooks -> Nat] /\ DOMAIN poster = Posters
    BY <1>0 DEF HooksTypeOK
  <1>g. \A p \in Posters : poster[p].at # "idle" => poster[p].row \in DeliveryIds
    BY <1>0, Knows
  \* A delivery that exists stays with its webhook.
  <1> DEFINE SameRows == \A d \in DeliveryIds : row[d].state # "none" =>
                           row'[d].webhook = row[d].webhook /\ row'[d].state # "none"
  <1>a. ASSUME SameRows, UNCHANGED <<hook, poster, late>>
        PROVE  PosterHasRow' /\ \A h \in Hooks : LateStep(h)
    <2>1. PosterHasRow'
      BY <1>0, <1>a, <1>g DEF PosterHasRow
    <2>2. \A h \in Hooks : Stale(h)' \subseteq Stale(h)
      BY <1>0, <1>a, <1>g DEF Stale, PosterHasRow, There
    <2> QED BY <1>a, <2>1, <2>2 DEF LateStep
  <1>b. ASSUME NEW d \in DeliveryIds, NEW h \in Hooks, NEW e \in HookEvents, Insert(d, h, e)
        PROVE  SameRows /\ (UNCHANGED hook => RowHasHook')
    BY <1>0, <1>f, <1>b DEF Insert, RowHasHook, There
  <1>1. ASSUME NEW h \in Hooks, NEW url \in Urls, NEW events \in Subscriptions,
               NEW named \in BOOLEAN, CreateWebhook(h, url, events, named)
        PROVE  Kept
    <2>0. /\ hook[h].state = "none" /\ UNCHANGED <<row, poster, late>>
          /\ hook'[h].state = "there" /\ \A x \in Hooks \ {h} : hook'[x] = hook[x]
      BY <1>f, <1>1 DEF CreateWebhook
    <2>1. RowHasHook' /\ PosterHasRow'
      BY <1>0, <2>0 DEF RowHasHook, PosterHasRow, There
    <2>2. \A x \in Hooks : Stale(x)' \subseteq Stale(x)
      BY <2>0 DEF Stale, There
    <2> QED BY <2>0, <2>1, <2>2 DEF LateStep
  <1>2. ASSUME NEW h \in Hooks, NEW url \in Urls, NEW events \in Subscriptions,
               NEW active \in {"true", "false", "unsent"},
               UpdateWebhook(h, url, events, active)
        PROVE  Kept
    <2>0. /\ UNCHANGED <<row, poster>> /\ late' = [late EXCEPT ![h] = 0]
          /\ hook'[h].state = hook[h].state /\ \A x \in Hooks \ {h} : hook'[x] = hook[x]
      BY <1>f, <1>2 DEF UpdateWebhook, HookRows
    <2>1. RowHasHook' /\ PosterHasRow'
      BY <1>0, <2>0 DEF RowHasHook, PosterHasRow, There
    <2>2. \A x \in Hooks \ {h} : Stale(x)' \subseteq Stale(x)
      BY <2>0 DEF Stale, There
    <2> QED BY <1>f, <2>0, <2>1, <2>2 DEF LateStep
  <1>3. ASSUME NEW h \in Hooks, DeleteWebhook(h) PROVE Kept
    <2>0. /\ UNCHANGED poster /\ late' = [late EXCEPT ![h] = 0]
          /\ \A x \in Hooks \ {h} : hook'[x] = hook[x]
          /\ \A d \in DeliveryIds :
               /\ row'[d].webhook = row[d].webhook
               /\ row'[d].state = IF row[d].webhook = h THEN "gone" ELSE row[d].state
      BY <1>f, <1>3 DEF DeleteWebhook, DeliveryRows
    <2>1. RowHasHook'
      BY <1>0, <2>0 DEF RowHasHook, There
    <2>2. PosterHasRow'
      BY <1>0, <1>g, <2>0 DEF PosterHasRow
    <2>3. \A x \in Hooks \ {h} : Stale(x)' \subseteq Stale(x)
      BY <1>g, <2>0 DEF Stale, There
    <2> QED BY <1>f, <2>0, <2>1, <2>2, <2>3 DEF LateStep
  <1>4. ASSUME NEW g \in Dispatchers, NEW h \in Hooks, NEW d \in DeliveryIds,
               TestWebhook(g, h, d)
        PROVE  Kept
    BY <1>4, <1>a, <1>b DEF TestWebhook, HookEvents
  <1>5. ASSUME UNCHANGED <<hook, row, poster, late>> PROVE Kept
    BY <1>0, <1>a, <1>5 DEF RowHasHook, There
  <1>6. ASSUME NEW g \in Dispatchers,
               FileUploaded(g) \/ AttemptFails(g) \/ JobCompletes(g) \/ ListWebhooksFor(g)
        PROVE  Kept
    BY <1>5, <1>6 DEF FileUploaded, AttemptFails, JobCompletes, Start, ListWebhooksFor
  <1>7. ASSUME NEW g \in Dispatchers, NEW h \in Hooks, CreateDelivery(g, h) PROVE Kept
    <2>0. UNCHANGED <<hook, poster, late>> /\ dispatch[g].event \in HookEvents
      BY <1>0, <1>7, Knows DEF CreateDelivery, Creating
    <2>1. ASSUME NEW d \in DeliveryIds, Insert(d, h, dispatch[g].event) PROVE Kept
      BY <1>a, <1>b, <2>0, <2>1
    <2> QED BY <1>5, <1>7, <2>0, <2>1 DEF CreateDelivery
  <1>8. ASSUME NEW g \in Dispatchers, Enqueue(g) PROVE Kept
    <2>0. UNCHANGED <<hook, poster, late>> /\ dispatch[g].row \in DeliveryIds
      BY <1>0, <1>8, Knows DEF Enqueue, Queueing
    <2>1. \A d \in DeliveryIds :
            /\ row'[d].webhook = row[d].webhook
            /\ row'[d].state # row[d].state =>
                 row[d].state = "created" /\ row'[d].state = "queued"
      <3>1. CASE row' = row
        BY <3>1
      <3>2. CASE row' # row
        <4>1. row' = [row EXCEPT ![dispatch[g].row].state =
                        IF row[dispatch[g].row].state = "created" THEN "queued"
                        ELSE row[dispatch[g].row].state]
          BY <1>8, <3>2 DEF Enqueue
        <4> QED BY <1>f, <2>0, <4>1 DEF DeliveryRows
      <3> QED BY <3>1, <3>2
    <2>2. RowHasHook'
      BY <1>0, <2>0, <2>1 DEF RowHasHook, There
    <2> QED BY <1>a, <2>0, <2>1, <2>2
  <1>9. ASSUME NEW p \in Posters, NEW d \in DeliveryIds, Take(p, d) PROVE Kept
    <2>0. /\ UNCHANGED <<hook, late>> /\ row[d].state = "queued"
          /\ poster' = [poster EXCEPT ![p] = [at |-> "read", row |-> d]]
          /\ \A x \in DeliveryIds :
               /\ row'[x].webhook = row[x].webhook
               /\ row'[x].state = IF x = d THEN "taken" ELSE row[x].state
      BY <1>f, <1>9 DEF Take, DeliveryRows
    <2>1. RowHasHook'
      BY <1>0, <2>0 DEF RowHasHook, There
    <2>2. PosterHasRow'
      BY <1>0, <1>f, <1>g, <2>0 DEF PosterHasRow
    <2>3. \A h \in Hooks : Stale(h)' \subseteq Stale(h)
      BY <1>f, <1>g, <2>0 DEF Stale, There
    <2> QED BY <2>0, <2>1, <2>2, <2>3 DEF LateStep
  <1>10. ASSUME NEW p \in Posters, ReadWebhook(p) PROVE Kept
    <2> DEFINE d == poster[p].row
    <2>0. /\ UNCHANGED <<hook, row, late>> /\ poster[p].at = "read" /\ d \in DeliveryIds
          /\ row[d].state # "none"
      BY <1>0, <1>10, <1>g DEF ReadWebhook, PosterHasRow
    <2>1. RowHasHook'
      BY <1>0, <2>0 DEF RowHasHook, There
    <2>2. CASE row[d].state = "gone"
      <3>1. poster' = [poster EXCEPT ![p] = Rest]
        BY <1>10, <2>2 DEF ReadWebhook
      <3>2. PosterHasRow'
        BY <1>0, <1>f, <2>0, <3>1 DEF PosterHasRow, Rest
      <3>3. \A h \in Hooks : Stale(h)' \subseteq Stale(h)
        BY <1>f, <2>0, <3>1 DEF Stale, There, Rest
      <3> QED BY <2>0, <2>1, <3>2, <3>3 DEF LateStep
    <2>3. CASE row[d].state # "gone"
      <3>1. poster' = [poster EXCEPT ![p] =
                         [at |-> "post", row |-> d, url |-> hook[row[d].webhook].url]]
        BY <1>10, <2>3 DEF ReadWebhook, GetWebhookByDeliveryID
      <3>2. PosterHasRow'
        BY <1>0, <1>f, <2>0, <3>1 DEF PosterHasRow
      <3>3. row[d].webhook \in Hooks /\ There(row[d].webhook)
        BY <1>0, <2>0, <2>3 DEF RowHasHook
      <3>4. \A h \in Hooks : Stale(h)' \subseteq Stale(h)
        BY <1>f, <2>0, <3>1, <3>3 DEF Stale, There
      <3> QED BY <2>0, <2>1, <3>2, <3>4 DEF LateStep
    <2> QED BY <2>2, <2>3
  <1>11. ASSUME NEW p \in Posters, Post(p) \/ PosterDies(p) PROVE Kept
    <2> DEFINE d == poster[p].row
    <2>0. /\ UNCHANGED hook /\ poster[p].at # "idle" /\ d \in DeliveryIds
          /\ row[d].state # "none" /\ poster' = [poster EXCEPT ![p] = Rest]
          /\ row[d].webhook \in Hooks
      BY <1>0, <1>11, <1>g DEF Post, PosterDies, PosterHasRow, RowHasHook
    <2>1. PICK s \in {"gone", "queued", "done", "dead"} :
            row' = [row EXCEPT ![d].state = s] /\ (row[d].state = "gone" => s = "gone")
      BY <1>11 DEF Post, PosterDies
    <2>2. \A x \in DeliveryIds :
            /\ row'[x].webhook = row[x].webhook
            /\ row'[x].state = IF x = d THEN s ELSE row[x].state
      BY <1>f, <2>1 DEF DeliveryRows
    <2>3. RowHasHook'
      BY <1>0, <2>0, <2>1, <2>2 DEF RowHasHook, There
    <2>4. PosterHasRow'
      BY <1>0, <1>f, <1>g, <2>0, <2>2 DEF PosterHasRow, Rest
    <2>5. \A h \in Hooks : Stale(h)' \subseteq Stale(h) \ {p}
      BY <1>f, <1>g, <2>0, <2>2 DEF Stale, There, Rest
    <2>6. ASSUME NEW h \in Hooks PROVE LateStep(h)
      <3>1. CASE UNCHANGED late
        BY <2>5, <3>1 DEF LateStep
      <3>2. CASE ~UNCHANGED late
        <4>1. /\ poster[p].at = "post" /\ late' = [late EXCEPT ![row[d].webhook] = @ + 1]
              /\ ~(There(row[d].webhook) /\ hook[row[d].webhook].url = poster[p].url)
          BY <1>f, <1>11, <2>0, <3>2 DEF Post, PosterDies
        <4>2. p \in Stale(row[d].webhook)
          BY <4>1 DEF Stale
        <4> QED BY <1>f, <2>0, <2>5, <4>1, <4>2 DEF LateStep
      <3> QED BY <3>1, <3>2
    <2> QED BY <2>3, <2>4, <2>6
  <1>12. CASE UNCHANGED hookVars
    BY <1>5, <1>12 DEF hookVars
  <1> QED BY <1>1, <1>2, <1>3, <1>4, <1>6, <1>7, <1>8, <1>9, <1>10, <1>11, <1>12 DEF HooksNext

(* The invariant of the webhooks holds of every behaviour.                 *)
THEOREM HooksInvariance == HooksSpec => []HooksInv
  <1>1. HooksInit => HooksInv
    <2> SUFFICES ASSUME HooksInit PROVE HooksInv
      OBVIOUS
    <2>1. NoHook \in HookRows /\ NoRow \in DeliveryRows
      BY DEF NoHook, NoRow, HookRows, DeliveryRows
    <2>2. HooksTypeOK /\ RowHasHook /\ PosterHasRow
      BY <2>1 DEF HooksInit, HooksTypeOK, RowHasHook, PosterHasRow, NoRow, Rest
    <2>3. ASSUME NEW h \in Hooks PROVE late[h] + Cardinality(Stale(h)) <= Cardinality(Posters)
      <3>1. late[h] = 0
        BY DEF HooksInit
      <3> QED BY <3>1, StaleFinite
    <2> QED BY <2>2, <2>3 DEF HooksInv, LateAndStale
  <1> QED BY <1>1, HooksStep, PTL DEF HooksSpec

(* After a change of a webhook each worker posts to the former endpoint    *)
(* once more at the most.                                                  *)
THEOREM LatePostsAreBounded == HooksSpec => []LatePostsBounded
  <1>1. HooksInv => LatePostsBounded
    <2> SUFFICES ASSUME HooksInv, NEW h \in Hooks PROVE late[h] <= Cardinality(Posters)
      BY DEF LatePostsBounded
    <2>1. late[h] \in Nat
      BY DEF HooksInv, HooksTypeOK
    <2> QED BY <2>1, StaleFinite DEF HooksInv, LateAndStale
  <1> QED BY <1>1, HooksInvariance, PTL
===========================================================================
