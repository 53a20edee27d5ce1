----------------------- MODULE TransformationsProofs -----------------------
(***************************************************************************)
(* Requests that start jobs: what their counts come to.                    *)
(***************************************************************************)
EXTENDS Transformations, FiniteSetTheorems, TLAPS

----------------------------------------------------------------------------
(* Sets of pairs of a request and what is its own.                         *)

Pairs == Files \X Kinds
OwnedIn(R, L) == {p \in R \X Pairs : p[2] \in L[p[1]]}

(* There are finitely many pairs, and so are those of any set of requests. *)
LEMMA PairsFinite == IsFiniteSet(Pairs) /\ IsFiniteSet(Requests \X Pairs)
  <1>1. IsFiniteSet(Pairs)
    BY FS_Product, ConstantsAssumption DEF Pairs
  <1> QED BY <1>1, FS_Product, ConstantsAssumption

(* What all requests own is what the others own and what one owns.         *)
LEMMA OwnShare ==
  ASSUME NEW L \in [Requests -> SUBSET Pairs], NEW r \in Requests
  PROVE  /\ Cardinality(OwnedIn(Requests, L)) \in Nat
         /\ Cardinality(OwnedIn(Requests \ {r}, L)) \in Nat
         /\ Cardinality(L[r]) \in Nat /\ IsFiniteSet(L[r])
         /\ Cardinality(OwnedIn(Requests, L))
              = Cardinality(OwnedIn(Requests \ {r}, L)) + Cardinality(L[r])
  <1> DEFINE Own == {r} \X L[r]
             Rest == OwnedIn(Requests \ {r}, L)
  <1>1. IsFiniteSet(L[r]) /\ Cardinality(L[r]) \in Nat
    BY PairsFinite, FS_Subset, FS_CardinalityType
  <1>2. IsFiniteSet(Own) /\ Cardinality(Own) = Cardinality(L[r])
    <2>1. IsFiniteSet({r}) /\ Cardinality({r}) = 1
      BY FS_Singleton
    <2> QED BY <2>1, <1>1, FS_Product
  <1>3. IsFiniteSet(Rest) /\ Cardinality(Rest) \in Nat
    <2>1. Rest \subseteq Requests \X Pairs
      BY DEF OwnedIn
    <2> QED BY <2>1, PairsFinite, FS_Subset, FS_CardinalityType
  <1>4. OwnedIn(Requests, L) = Rest \cup Own /\ Rest \cap Own = {}
    <2>1. L[r] \subseteq Pairs
      OBVIOUS
    <2> QED BY <2>1 DEF OwnedIn
  <1>5. Cardinality(Rest \cap Own) = 0
    BY <1>4, FS_EmptySet
  <1>6. Cardinality(Rest \cup Own)
          = Cardinality(Rest) + Cardinality(Own) - Cardinality(Rest \cap Own)
    BY <1>2, <1>3, FS_Union
  <1>7. Cardinality(Rest \cup Own) = Cardinality(Rest) + Cardinality(L[r])
    BY <1>1, <1>2, <1>3, <1>5, <1>6
  <1>8. Cardinality(Rest) + Cardinality(L[r]) \in Nat
    BY <1>1, <1>3
  <1> QED BY <1>1, <1>3, <1>4, <1>7, <1>8, Zenon

(* Sets of jobs: smaller, one less, one more.                              *)
LEMMA PairSets ==
  ASSUME NEW S \in SUBSET Pairs, NEW T \in SUBSET Pairs
  PROVE  /\ IsFiniteSet(S) /\ Cardinality(S) \in Nat /\ Cardinality(T) \in Nat
         /\ T \subseteq S => Cardinality(T) <= Cardinality(S)
         /\ \A j \in S : T = S \ {j} => Cardinality(T) = Cardinality(S) - 1
         /\ \A j \in Pairs : j \notin S /\ T = S \cup {j}
              => Cardinality(T) = Cardinality(S) + 1
  <1>1. IsFiniteSet(S) /\ Cardinality(S) \in Nat /\ IsFiniteSet(T) /\ Cardinality(T) \in Nat
    BY PairsFinite, FS_Subset, FS_CardinalityType
  <1>2. T \subseteq S => Cardinality(T) <= Cardinality(S)
    BY <1>1, FS_Subset
  <1>3. \A j \in S : T = S \ {j} => Cardinality(T) = Cardinality(S) - 1
    BY <1>1, FS_RemoveElement
  <1>4. \A j \in Pairs : j \notin S /\ T = S \cup {j} => Cardinality(T) = Cardinality(S) + 1
    BY <1>1, FS_AddElement
  <1> QED BY <1>1, <1>2, <1>3, <1>4

(* The larger of two numbers is one of them and no smaller than either.    *)
LEMMA LargerOfTwo ==
  ASSUME NEW a \in Int, NEW b \in Int
  PROVE  Max({a, b}) \in {a, b} /\ Max({a, b}) >= a /\ Max({a, b}) >= b
  <1>1. \E x \in {a, b} : \A y \in {a, b} : x >= y
    OBVIOUS
  <1> QED BY <1>1 DEF Max

----------------------------------------------------------------------------
(* Types.                                                                  *)

Places == {"unsent", "usage", "batch", "queue", "row", "enqueue", "count", "mark",
           "answered"}
Endpoints == {"none", "transform", "batch", "transcode", "hls", "process", "bundle",
              "pageBatch"}
JobStates == {"none", "row", "queued", "stored", "done", "failed"}
ReqStates == [pc : Places, endpoint : Endpoints, tier : Tiers, todo : SUBSET Pairs,
              at : Files \cup {NoFile}, job : Pairs \cup {<<NoFile, "none">>}]

TransformationsTypeOK ==
  /\ tier \in Tiers
  /\ limit \in Nat \cup {Unlimited}
  /\ count \in Nat /\ lost \in Nat /\ peak \in Nat /\ slack \in Nat /\ blind \in Nat
  /\ live \subseteq Files
  /\ jobs \in [Requests -> [Pairs -> JobStates]]
  /\ req \in [Requests -> ReqStates]
  /\ batch \subseteq Requests
  /\ items \in [Requests -> [Files -> SUBSET Kinds]]
  /\ itemsLost \subseteq Requests \X Files

(* Who uses the names of the plan gets a limit.                            *)
LEMMA LimitIs == \A t \in Tiers : LimitOf(t) \in Nat \cup {Unlimited}
  BY ConstantsAssumption DEF LimitOf, Tiers, Unlimited

(* A request is sent to one of seven endpoints.                            *)
Arrival(r) == \/ Transform(r) \/ BatchTransform(r) \/ VideoTranscode(r) \/ VideoHLS(r)
              \/ ProcessFile(r) \/ ProcessBundle(r) \/ BatchProcessFiles(r)

(* Where it then goes: those the API checks to the check, the others to    *)
(* the loop; of these only hls is an endpoint of the API, with one job.    *)
LEMMA Arrivals ==
  ASSUME TransformationsTypeOK, NEW r \in Requests, Arrival(r)
  PROVE  \E e \in Endpoints, step \in {"usage", "queue"},
            fs \in SUBSET Files, ks \in SUBSET Kinds :
           /\ Accept(r, e, step, fs, ks)
           /\ step = "usage" => e \in {"transform", "batch", "transcode"}
           /\ step = "queue" => \/ e \in Pages
                                \/ e = "hls" /\ \E f \in Files : fs = {f} /\ ks = {"hls"}
  <1> USE DEF Endpoints, Pages
  <1> DEFINE Goal == \E e \in Endpoints, step \in {"usage", "queue"},
            fs \in SUBSET Files, ks \in SUBSET Kinds :
           /\ Accept(r, e, step, fs, ks)
           /\ step = "usage" => e \in {"transform", "batch", "transcode"}
           /\ step = "queue" => \/ e \in Pages
                                \/ e = "hls" /\ \E f \in Files : fs = {f} /\ ks = {"hls"}
  <1>1. live \subseteq Files /\ \A f \in live : {f} \in SUBSET Files
    BY DEF TransformationsTypeOK
  <1>2. \A S : AtMost(S) \subseteq SUBSET Kinds
    BY DEF AtMost
  <1>3. CASE Transform(r)
    <2>1. PICK f \in live, ks \in AtMost(ImageKinds) : Accept(r, "transform", "usage", {f}, ks)
      BY <1>3 DEF Transform
    <2> QED BY <2>1, <1>1, <1>2
  <1>4. CASE BatchTransform(r)
    <2>1. PICK fs \in SUBSET Files, ks \in AtMost(ImageKinds) :
            Accept(r, "batch", "usage", fs, ks)
      BY <1>4 DEF BatchTransform
    <2> QED BY <2>1, <1>2
  <1>5. CASE VideoTranscode(r)
    <2>1. PICK f \in live, ks \in AtMost(VideoKinds) : Accept(r, "transcode", "usage", {f}, ks)
      BY <1>5 DEF VideoTranscode
    <2> QED BY <2>1, <1>1, <1>2
  <1>6. CASE VideoHLS(r)
    <2>1. PICK f \in live : Accept(r, "hls", "queue", {f}, {"hls"})
      BY <1>6 DEF VideoHLS
    <2>2. {"hls"} \in SUBSET Kinds
      BY <1>6 DEF VideoHLS
    <2> QED BY <2>1, <2>2, <1>1
  <1>7. CASE ProcessFile(r)
    <2>1. PICK f \in live, k \in PageActions \cap Kinds :
            Accept(r, "process", "queue", {f}, {k})
      BY <1>7 DEF ProcessFile
    <2>2. {k} \in SUBSET Kinds
      OBVIOUS
    <2> QED BY <2>1, <2>2, <1>1
  <1>8. CASE ProcessBundle(r)
    <2>1. PICK f \in live :
            \/ Accept(r, "bundle", "queue", {f}, (Presets \ {"thumbnail"}) \cap Kinds)
            \/ Accept(r, "bundle", "queue", {f}, Social \cap Kinds)
      BY <1>8 DEF ProcessBundle
    <2>2. \A S : S \cap Kinds \in SUBSET Kinds
      OBVIOUS
    <2> QED BY <2>1, <2>2, <1>1
  <1>9. CASE BatchProcessFiles(r)
    <2>1. PICK fs \in SUBSET Files, k \in {"thumbnail", "webp", "watermark"} \cap Kinds :
            Accept(r, "pageBatch", "queue", fs, {k})
      BY <1>9 DEF BatchProcessFiles
    <2>2. {k} \in SUBSET Kinds
      OBVIOUS
    <2> QED BY <2>1, <2>2
  <1> QED BY <1>3, <1>4, <1>5, <1>6, <1>7, <1>8, <1>9 DEF Arrival

(* The job a request turns to is one it still has to queue, or the one it  *)
(* already turned to.                                                      *)
LEMMA ReadyIs ==
  ASSUME TransformationsTypeOK, NEW r \in Requests, NEW j \in Ready(r)
  PROVE  /\ j \in Pairs \cup {<<NoFile, "none">>} /\ j[1] \in Files \cup {NoFile}
         /\ req[r].pc = "queue" =>
              /\ j \in Pairs /\ j \in req[r].todo /\ ~ItemDue(r)
              /\ req[r].at = NoFile \/ FileDone(r) \/ j[1] = req[r].at
         /\ req[r].pc = "row" => j = req[r].job
  <1>1. req[r].todo \in SUBSET Pairs /\ req[r].job \in Pairs \cup {<<NoFile, "none">>}
    BY DEF TransformationsTypeOK, ReqStates
  <1>2. CASE req[r].pc = "row"
    BY <1>1, <1>2 DEF Ready, Pairs
  <1>3. CASE req[r].pc = "queue"
    BY <1>1, <1>3 DEF Ready, Pairs
  <1> QED BY <1>2, <1>3 DEF Ready

(* A job's state changes for the request and the job it belongs to.        *)
LEMMA JobsChange ==
  ASSUME TransformationsTypeOK, NEW r \in Requests, NEW j, NEW s \in JobStates
  PROVE  /\ [jobs EXCEPT ![r][j] = s] \in [Requests -> [Pairs -> JobStates]]
         /\ \A q \in Requests \ {r} : [jobs EXCEPT ![r][j] = s][q] = jobs[q]
         /\ \A i \in Pairs : i # j => [jobs EXCEPT ![r][j] = s][r][i] = jobs[r][i]
         /\ j \in Pairs => [jobs EXCEPT ![r][j] = s][r][j] = s
  <1>1. jobs \in [Requests -> [Pairs -> JobStates]]
    BY DEF TransformationsTypeOK
  <1> DEFINE own == [jobs[r] EXCEPT ![j] = s]
  <1>2. own \in [Pairs -> JobStates] /\ (\A i \in Pairs : i # j => own[i] = jobs[r][i])
          /\ (j \in Pairs => own[j] = s)
    BY <1>1
  <1>3. [jobs EXCEPT ![r][j] = s] = [jobs EXCEPT ![r] = own]
    BY <1>1
  <1> HIDE DEF own
  <1> QED BY <1>1, <1>2, <1>3

(* Every step keeps the types.                                             *)
LEMMA TransformationsTypeStep ==
  ASSUME TransformationsTypeOK, [Next]_vars
  PROVE  TransformationsTypeOK'
  <1> USE DEF TransformationsTypeOK
  <1> SUFFICES ASSUME Next PROVE TransformationsTypeOK'
    BY DEF vars, userVars, fileVars, batchVars
  <1>1. ASSUME NEW r \in Requests, Arrival(r)
        PROVE  TransformationsTypeOK'
    <2>1. PICK e \in Endpoints, step \in {"usage", "queue"},
               fs \in SUBSET Files, ks \in SUBSET Kinds : Accept(r, e, step, fs, ks)
      BY <1>1, Arrivals
    <2> DEFINE q == [Idle EXCEPT !.pc = step, !.endpoint = e, !.tier = tier,
                                 !.todo = fs \X ks]
    <2>2. q \in ReqStates
      BY DEF Idle, ReqStates, Pairs, Places
    <2> HIDE DEF q
    <2>3. req' = [req EXCEPT ![r] = q]
      BY <2>1 DEF Accept, q
    <2>4. blind' \in Nat
      BY <2>1 DEF Accept
    <2> QED BY <2>1, <2>2, <2>3, <2>4 DEF Accept, userVars, fileVars, batchVars
  <1>3. ASSUME NEW r \in Requests, CheckUsage(r)
        PROVE  TransformationsTypeOK'
    <2>1. Needed(r) \in Nat
      <3>1. req[r].todo \in SUBSET Pairs
        BY DEF ReqStates
      <3> QED BY <3>1, PairSets DEF Needed
    <2>2. ASSUME NEW n \in Nat, Admit(r, n)
          PROVE  req' \in [Requests -> ReqStates] /\ slack' \in Nat /\ blind' \in Nat
      <3>1. InFlight(Requests \ {r}) \in Nat
        <4>1. IsFiniteSet({p \in (Requests \ {r}) \X (Files \X Kinds) : p[2] \in Left(p[1])})
          BY PairsFinite, FS_Subset DEF Pairs
        <4> QED BY <4>1, FS_CardinalityType DEF InFlight
      <3>2. slack' \in Nat
        <4>1. slack' = Max({slack, InFlight(Requests \ {r})})
          BY <2>2 DEF Admit
        <4>2. slack \in Int /\ InFlight(Requests \ {r}) \in Int
          BY <3>1
        <4>3. Max({slack, InFlight(Requests \ {r})}) \in {slack, InFlight(Requests \ {r})}
          BY <4>2, LargerOfTwo
        <4> HIDE DEF TransformationsTypeOK
        <4> QED BY <4>1, <4>3, <3>1 DEF TransformationsTypeOK
      <3>3. req' \in [Requests -> ReqStates]
        <4>1. PICK s \in Places : req' = [req EXCEPT ![r].pc = s]
          BY <2>2 DEF Admit, Places
        <4> QED BY <4>1 DEF ReqStates
      <3>4. blind' \in Nat
        BY <2>2 DEF Admit
      <3> QED BY <3>2, <3>3, <3>4
    <2>3. CASE Admit(r, 0)
      BY <1>3, <2>2, <2>3 DEF CheckUsage, userVars, fileVars, batchVars
    <2>4. CASE Admit(r, Needed(r))
      BY <1>3, <2>1, <2>2, <2>4 DEF CheckUsage, userVars, fileVars, batchVars
    <2>5. CASE req' = [req EXCEPT ![r].pc = "answered"] /\ UNCHANGED <<slack, blind>>
      BY <1>3, <2>5 DEF CheckUsage, userVars, fileVars, batchVars, ReqStates, Places
    <2> QED BY <1>3, <2>3, <2>4, <2>5 DEF CheckUsage
  <1>4. ASSUME NEW r \in Requests, CreateBatchOperation(r)
        PROVE  TransformationsTypeOK'
    <2> DEFINE left == {j \in req[r].todo : j[1] \in live}
    <2>1. left \in SUBSET Pairs
      BY DEF ReqStates
    <2> HIDE DEF left
    <2>2. CASE req' = [req EXCEPT ![r].pc = "queue", ![r].todo = left]
               /\ batch' = batch \cup {r}
      <3>1. req' = [req EXCEPT ![r] = [req[r] EXCEPT !.pc = "queue", !.todo = left]]
        BY <2>2
      <3>2. req[r] \in ReqStates
        OBVIOUS
      <3>3. [req[r] EXCEPT !.pc = "queue", !.todo = left] \in ReqStates
        BY <2>1, <3>2 DEF ReqStates, Places
      <3> QED BY <1>4, <2>2, <3>1, <3>3 DEF CreateBatchOperation, userVars, fileVars
    <2>3. CASE req' = [req EXCEPT ![r].pc = "answered"] /\ batch' = batch
      BY <1>4, <2>3 DEF CreateBatchOperation, userVars, fileVars, ReqStates, Places
    <2> QED BY <1>4, <2>2, <2>3 DEF CreateBatchOperation, left
  <1>5. ASSUME NEW r \in Requests, NEW j \in Ready(r), Skip(r, j)
        PROVE  req' \in [Requests -> ReqStates]
    <2>1. [req[r] EXCEPT !.todo = @ \ {j}, !.at = j[1], !.pc = "queue"] \in ReqStates
      <3>1. j[1] \in Files \cup {NoFile} /\ req[r] \in ReqStates
        BY <1>5, ReadyIs
      <3> QED BY <3>1 DEF ReqStates, Places
    <2>2. req' = [req EXCEPT ![r] =
                    [req[r] EXCEPT !.todo = @ \ {j}, !.at = j[1], !.pc = "queue"]]
      BY <1>5 DEF Skip
    <2> QED BY <2>1, <2>2
  <1>6. ASSUME NEW r \in Requests, HasVariant(r)
        PROVE  TransformationsTypeOK'
    <2>1. PICK j \in Ready(r) :
            \/ req' = [req EXCEPT ![r].pc = "row", ![r].job = j]
            \/ Skip(r, j)
      BY <1>6 DEF HasVariant
    <2>2. CASE req' = [req EXCEPT ![r].pc = "row", ![r].job = j]
      <3>1. [req[r] EXCEPT !.pc = "row", !.job = j] \in ReqStates
        <4>1. j \in Pairs \cup {<<NoFile, "none">>} /\ req[r] \in ReqStates
          BY <2>1, ReadyIs
        <4> QED BY <4>1 DEF ReqStates, Places
      <3>2. req' = [req EXCEPT ![r] = [req[r] EXCEPT !.pc = "row", !.job = j]]
        BY <2>2
      <3> QED BY <1>6, <3>1, <3>2 DEF HasVariant, userVars, fileVars, batchVars
    <2>3. CASE Skip(r, j)
      BY <1>6, <1>5, <2>3 DEF HasVariant, userVars, fileVars, batchVars
    <2> QED BY <2>1, <2>2, <2>3
  <1>7. ASSUME NEW r \in Requests, CreateJob(r)
        PROVE  TransformationsTypeOK'
    <2>1. PICK j \in Ready(r) :
            \/ /\ jobs' = [jobs EXCEPT ![r][j] = "row"]
               /\ req' = [req EXCEPT ![r].todo = @ \ {j}, ![r].at = j[1],
                                     ![r].pc = "enqueue", ![r].job = j]
            \/ Skip(r, j) /\ UNCHANGED jobs
      BY <1>7 DEF CreateJob
    <2>2. CASE /\ jobs' = [jobs EXCEPT ![r][j] = "row"]
               /\ req' = [req EXCEPT ![r].todo = @ \ {j}, ![r].at = j[1],
                                     ![r].pc = "enqueue", ![r].job = j]
      <3> DEFINE q == [req[r] EXCEPT !.todo = @ \ {j}, !.at = j[1],
                                     !.pc = "enqueue", !.job = j]
      <3>1. q \in ReqStates
        <4>1. /\ j \in Pairs \cup {<<NoFile, "none">>} /\ j[1] \in Files \cup {NoFile}
              /\ req[r] \in ReqStates
          BY <2>1, ReadyIs
        <4> QED BY <4>1 DEF ReqStates, Places
      <3>2. req' = [req EXCEPT ![r] = q]
        BY <2>2
      <3>3. jobs' \in [Requests -> [Pairs -> JobStates]]
        BY <2>2, JobsChange DEF JobStates
      <3> HIDE DEF q
      <3> QED BY <1>7, <3>1, <3>2, <3>3 DEF CreateJob, userVars, fileVars, batchVars
    <2>3. CASE Skip(r, j) /\ UNCHANGED jobs
      BY <1>7, <1>5, <2>3 DEF CreateJob, userVars, fileVars, batchVars
    <2> QED BY <2>1, <2>2, <2>3
  <1>8. ASSUME NEW r \in Requests, Enqueue(r)
        PROVE  TransformationsTypeOK'
    <2>1. PICK s \in Places : req' = [req EXCEPT ![r].pc = s]
      BY <1>8 DEF Enqueue, Places
    <2>2. req' \in [Requests -> ReqStates]
      BY <2>1 DEF ReqStates
    <2>3. jobs' \in [Requests -> [Pairs -> JobStates]]
      <3>1. CASE jobs' = [jobs EXCEPT ![r][req[r].job] = "queued"]
        BY <3>1, JobsChange DEF JobStates
      <3>2. CASE UNCHANGED jobs
        BY <3>2
      <3> QED BY <1>8, <3>1, <3>2 DEF Enqueue
    <2> QED BY <1>8, <2>2, <2>3 DEF Enqueue, userVars, fileVars, batchVars
  <1>9. ASSUME NEW r \in Requests, IncrementTransformationCount(r)
        PROVE  TransformationsTypeOK'
    <2>1. req' \in [Requests -> ReqStates]
      <3>1. req' = [req EXCEPT ![r] = [req[r] EXCEPT !.pc = "queue"]]
        BY <1>9 DEF IncrementTransformationCount
      <3>2. req[r] \in ReqStates
        OBVIOUS
      <3>3. [req[r] EXCEPT !.pc = "queue"] \in ReqStates
        BY <3>2 DEF ReqStates, Places
      <3> QED BY <3>1, <3>3
    <2>2. count' \in Nat /\ lost' \in Nat
      BY <1>9 DEF IncrementTransformationCount
    <2> QED BY <1>9, <2>1, <2>2 DEF IncrementTransformationCount, userVars, fileVars, batchVars
  <1>10. ASSUME NEW r \in Requests, CreateBatchItem(r)
         PROVE  TransformationsTypeOK'
    <2>1. req' \in [Requests -> ReqStates]
      BY <1>10 DEF CreateBatchItem, ReqStates
    <2>2. req[r].at \in Files
      BY <1>10 DEF CreateBatchItem, ItemDue, FileDone, ReqStates
    <2>3. QueuedFor(r, req[r].at) \in SUBSET Kinds
      BY DEF QueuedFor
    <2>4. /\ items' \in [Requests -> [Files -> SUBSET Kinds]]
          /\ itemsLost' \subseteq Requests \X Files
      <3>1. CASE items' = [items EXCEPT ![r][req[r].at] = QueuedFor(r, req[r].at)]
                 /\ UNCHANGED itemsLost
        <4>1. items' = [items EXCEPT ![r] =
                          [items[r] EXCEPT ![req[r].at] = QueuedFor(r, req[r].at)]]
          BY <3>1
        <4>2. [items[r] EXCEPT ![req[r].at] = QueuedFor(r, req[r].at)]
                \in [Files -> SUBSET Kinds]
          BY <2>2, <2>3
        <4> QED BY <3>1, <4>1, <4>2
      <3>2. CASE itemsLost' = itemsLost \cup {<<r, req[r].at>>} /\ UNCHANGED items
        BY <3>2, <2>2
      <3> QED BY <1>10, <3>1, <3>2 DEF CreateBatchItem
    <2> QED BY <1>10, <2>1, <2>4 DEF CreateBatchItem, userVars, fileVars
  <1>11. ASSUME NEW r \in Requests, Finish(r)
         PROVE  TransformationsTypeOK'
    <2>1. PICK s \in Places : req' = [req EXCEPT ![r].pc = s]
      BY <1>11 DEF Finish, Places
    <2>2. req' \in [Requests -> ReqStates]
      BY <2>1 DEF ReqStates
    <2> QED BY <1>11, <2>2 DEF Finish, userVars, fileVars, batchVars
  <1>12. ASSUME NEW r \in Requests, MarkProcessing(r)
         PROVE  TransformationsTypeOK'
    BY <1>12 DEF MarkProcessing, userVars, fileVars, batchVars, ReqStates, Places
  <1>13. ASSUME NEW r \in Requests, Work(r)
         PROVE  TransformationsTypeOK'
    <2>1. PICK j \in Pairs : CreateVariant(r, j) \/ CompleteJob(r, j) \/ FailJob(r, j)
      BY <1>13 DEF Work, Pairs
    <2>2. jobs' \in [Requests -> [Pairs -> JobStates]]
      <3>1. PICK s \in JobStates : jobs' = [jobs EXCEPT ![r][j] = s]
        BY <2>1 DEF CreateVariant, CompleteJob, FailJob, JobStates
      <3> QED BY <3>1, JobsChange
    <2> QED BY <2>1, <2>2 DEF CreateVariant, CompleteJob, FailJob, userVars, fileVars, batchVars
  <1>14. ASSUME NEW f \in Files, SoftDeleteFile(f)
         PROVE  TransformationsTypeOK'
    BY <1>14 DEF SoftDeleteFile, userVars, batchVars
  <1>15. ASSUME NEW t \in Tiers, NEW l \in Nat \cup {Unlimited}, PlanChange(t, l)
         PROVE  TransformationsTypeOK'
    <2>1. peak' \in Nat
      <3>1. CASE l = Unlimited
        BY <1>15, <3>1 DEF PlanChange
      <3>2. CASE l # Unlimited
        <4>1. l \in Nat /\ peak \in Nat
          BY <3>2
        <4>2. Max({peak, l}) \in {peak, l}
          <5> HIDE DEF TransformationsTypeOK
          <5>1. peak \in Int /\ l \in Int
            BY <4>1
          <5> QED BY <5>1, LargerOfTwo
        <4>3. peak' = Max({peak, l})
          BY <1>15, <3>2 DEF PlanChange
        <4> HIDE DEF TransformationsTypeOK
        <4> QED BY <4>1, <4>2, <4>3
      <3> QED BY <3>1, <3>2
    <2> QED BY <1>15, <2>1 DEF PlanChange, fileVars, batchVars
  <1>16. CASE UpdateUserTier \/ UpdateUserSubscription \/ CancelUserSubscription
    BY <1>16, <1>15, LimitIs
       DEF UpdateUserTier, UpdateUserSubscription, CancelUserSubscription, Tiers
  <1> QED BY <1>1, <1>3, <1>4, <1>6, <1>7, <1>8, <1>9, <1>10, <1>11, <1>12, <1>13, <1>14, <1>16
          DEF Next, Handle, Arrival
----------------------------------------------------------------------------
(* What holds of every request.                                            *)

\* Before the loop a request has left nothing behind; where it can be says
\* which endpoint it is at.
PlaceFits(r) ==
  /\ req[r].pc \in {"unsent", "usage", "batch"} =>
       /\ r \notin batch
       /\ \A j \in Pairs : jobs[r][j] = "none"
       /\ \A f \in Files : items[r][f] = {}
  /\ req[r].pc \in {"usage", "count"} => req[r].endpoint \notin Pages
  /\ req[r].pc = "batch" => req[r].endpoint = "batch"
  /\ req[r].pc = "row" => req[r].endpoint \in Pages
  /\ req[r].pc = "mark" => req[r].endpoint \in {"process", "bundle"}
  /\ r \in batch => req[r].endpoint = "batch"

\* A job still to queue has no row and its file no item; the job in hand is
\* no longer to queue and belongs to the file in hand, which has no item.
LoopFits(r) ==
  /\ \A j \in req[r].todo : jobs[r][j] = "none" /\ items[r][j[1]] = {}
  /\ req[r].pc = "row" => req[r].job \in req[r].todo
  /\ req[r].pc \in {"enqueue", "count"} =>
       /\ req[r].job \in Pairs \ req[r].todo
       /\ req[r].at = req[r].job[1]
  /\ req[r].pc = "enqueue" => jobs[r][req[r].job] = "row"
  /\ req[r].at # NoFile => items[r][req[r].at] = {}

\* The items of a batch are right for every file but the one in hand.
ItemsFit(r) ==
  r \in batch =>
    \A f \in Files :
      (f # req[r].at \/ req[r].pc = "answered") /\ <<r, f>> \notin itemsLost
        => items[r][f] = QueuedFor(r, f)

RequestFits(r) == PlaceFits(r) /\ LoopFits(r) /\ ItemsFit(r)

(* A request that does not act stays as it was.                            *)
LEMMA OthersStay ==
  ASSUME TransformationsTypeOK, NEW q \in Requests, RequestFits(q),
         req'[q] = req[q], jobs'[q] = jobs[q], items'[q] = items[q],
         q \in batch' <=> q \in batch,
         \A f \in Files : <<q, f>> \in itemsLost => <<q, f>> \in itemsLost'
  PROVE  RequestFits(q)'
  <1>1. PlaceFits(q)' /\ LoopFits(q)'
    BY DEF RequestFits, PlaceFits, LoopFits
  <1>2. ItemsFit(q)'
    BY DEF RequestFits, ItemsFit, QueuedFor, IsQueued
  <1> QED BY <1>1, <1>2 DEF RequestFits

(* Every step keeps what holds of a request.                               *)
LEMMA RequestStep ==
  ASSUME TransformationsTypeOK, [Next]_vars, \A q \in Requests : RequestFits(q)
  PROVE  \A q \in Requests : RequestFits(q)'
  <1> SUFFICES ASSUME NEW q \in Requests PROVE RequestFits(q)'
    OBVIOUS
  <1>0. RequestFits(q) /\ req \in [Requests -> ReqStates] /\ req[q] \in ReqStates
    BY DEF TransformationsTypeOK
  <1>1. CASE UNCHANGED vars
    BY <1>1, OthersStay DEF vars, batchVars
  <1>2. CASE Arrival(q)
    <2>1. PICK e \in Endpoints, step \in {"usage", "queue"},
               fs \in SUBSET Files, ks \in SUBSET Kinds :
            /\ Accept(q, e, step, fs, ks)
            /\ step = "usage" => e \notin Pages
      BY <1>2, Arrivals DEF Pages
    <2>2. /\ req'[q] = [Idle EXCEPT !.pc = step, !.endpoint = e, !.tier = tier,
                                    !.todo = fs \X ks]
          /\ req[q].pc = "unsent" /\ UNCHANGED <<jobs, batch, items, itemsLost>>
      BY <2>1, <1>0 DEF Accept, batchVars
    <2>3. /\ req'[q].pc = step /\ req'[q].endpoint = e /\ req'[q].todo = fs \X ks
          /\ req'[q].at = NoFile /\ req'[q].job = <<NoFile, "none">>
      BY <2>2 DEF Idle
    <2>4. /\ q \notin batch /\ \A j \in Pairs : jobs[q][j] = "none"
          /\ \A f \in Files : items[q][f] = {}
      BY <2>2, <1>0 DEF RequestFits, PlaceFits
    <2>5. \A j \in fs \X ks : j \in Pairs /\ j[1] \in Files
      BY DEF Pairs
    <2> QED BY <2>1, <2>2, <2>3, <2>4, <2>5 DEF RequestFits, PlaceFits, LoopFits, ItemsFit
  <1>3. CASE CheckUsage(q)
    <2>1. PICK s \in {"batch", "queue", "answered"} :
            /\ req' = [req EXCEPT ![q].pc = s]
            /\ s = "batch" => req[q].endpoint = "batch"
      BY <1>3 DEF CheckUsage, Admit
    <2>2. /\ req'[q].pc = s /\ req'[q].endpoint = req[q].endpoint
          /\ req'[q].todo = req[q].todo /\ req'[q].at = req[q].at
          /\ req'[q].job = req[q].job
      BY <2>1, <1>0 DEF ReqStates
    <2>3. req[q].pc = "usage" /\ UNCHANGED <<jobs, batch, items, itemsLost>>
      BY <1>3 DEF CheckUsage, batchVars
    <2>4. q \notin batch
      BY <2>3, <1>0 DEF RequestFits, PlaceFits
    <2>5. PlaceFits(q)'
      BY <2>1, <2>2, <2>3, <1>0 DEF RequestFits, PlaceFits
    <2>6. LoopFits(q)'
      BY <2>2, <2>3, <1>0 DEF RequestFits, LoopFits
    <2> QED BY <2>3, <2>4, <2>5, <2>6 DEF RequestFits, ItemsFit
  <1>4. CASE CreateBatchOperation(q)
    <2>1. \/ \E left \in SUBSET req[q].todo : req' = [req EXCEPT ![q].pc = "queue", ![q].todo = left]
          \/ req' = [req EXCEPT ![q].pc = "answered"] /\ batch' = batch
      BY <1>4 DEF CreateBatchOperation
    <2>2. req[q].pc = "batch" /\ UNCHANGED <<jobs, items, itemsLost>>
      BY <1>4 DEF CreateBatchOperation
    <2>3. /\ q \notin batch /\ req[q].endpoint = "batch"
          /\ \A j \in Pairs : jobs[q][j] = "none"
          /\ \A f \in Files : items[q][f] = {}
      BY <2>2, <1>0 DEF RequestFits, PlaceFits
    <2>4. ASSUME NEW left \in SUBSET req[q].todo,
                 req' = [req EXCEPT ![q].pc = "queue", ![q].todo = left]
          PROVE  RequestFits(q)'
      <3>1. req'[q] = [req[q] EXCEPT !.pc = "queue", !.todo = left]
        BY <2>4, <1>0
      <3>2. /\ req'[q].pc = "queue" /\ req'[q].endpoint = "batch" /\ req'[q].todo = left
            /\ req'[q].at = req[q].at
        BY <3>1, <2>3, <1>0 DEF ReqStates
      <3>3. PlaceFits(q)' /\ LoopFits(q)'
        BY <2>2, <2>3, <3>2, <1>0 DEF RequestFits, PlaceFits, LoopFits
      <3>4. ItemsFit(q)'
        <4>1. ASSUME NEW f \in Files PROVE QueuedFor(q, f)' = {} /\ items'[q][f] = {}
          <5>1. \A k \in Kinds : jobs'[q][<<f, k>>] = "none"
            BY <2>2, <2>3 DEF Pairs
          <5> QED BY <5>1, <2>2, <2>3 DEF QueuedFor, IsQueued
        <4> QED BY <4>1 DEF ItemsFit
      <3> QED BY <3>3, <3>4 DEF RequestFits
    <2>5. CASE req' = [req EXCEPT ![q].pc = "answered"] /\ batch' = batch
      <3>1. req'[q] = [req[q] EXCEPT !.pc = "answered"]
        BY <2>5, <1>0
      <3>2. /\ req'[q].pc = "answered" /\ req'[q].todo = req[q].todo
            /\ req'[q].at = req[q].at
        BY <3>1, <1>0 DEF ReqStates
      <3> QED BY <2>2, <2>3, <2>5, <3>2, <1>0 DEF RequestFits, PlaceFits, LoopFits, ItemsFit
    <2> QED BY <2>1, <2>4, <2>5
  <1>5. ASSUME NEW j \in Ready(q), Skip(q, j), req[q].pc = "queue" \/ req[q].pc = "row",
               UNCHANGED <<jobs, batch, items, itemsLost>>
        PROVE  RequestFits(q)'
    <2>1. /\ req'[q].pc = "queue" /\ req'[q].endpoint = req[q].endpoint
          /\ req'[q].todo = req[q].todo \ {j} /\ req'[q].at = j[1]
      <3>1. req'[q] = [req[q] EXCEPT !.todo = @ \ {j}, !.at = j[1], !.pc = "queue"]
        BY <1>5, <1>0 DEF Skip
      <3> QED BY <3>1, <1>0 DEF ReqStates
    <2>2. j \in req[q].todo /\ j \in Pairs
      BY <1>5, <1>0, ReadyIs DEF RequestFits, LoopFits, ReqStates
    <2>3. PlaceFits(q)' /\ LoopFits(q)'
      BY <1>5, <2>1, <2>2, <1>0 DEF RequestFits, PlaceFits, LoopFits
    <2>4. ItemsFit(q)'
      <3> SUFFICES ASSUME q \in batch, NEW f \in Files, f # j[1], <<q, f>> \notin itemsLost
                   PROVE  items[q][f] = QueuedFor(q, f)
        BY <1>5, <2>1 DEF ItemsFit, QueuedFor, IsQueued
      <3>1. req[q].endpoint = "batch" /\ req[q].pc = "queue"
        BY <1>5, <1>0 DEF RequestFits, PlaceFits, Pages
      <3>2. CASE f # req[q].at
        BY <3>2, <1>0 DEF RequestFits, ItemsFit
      <3>3. CASE f = req[q].at
        <4>1. FileDone(q) /\ ~ItemDue(q)
          BY <3>1, <3>3, <1>5, ReadyIs, ConstantsAssumption
        <4>2. QueuedFor(q, f) = {}
          BY <4>1, <3>1, <3>3 DEF ItemDue
        <4>3. items[q][f] = {}
          BY <3>3, <1>0, ConstantsAssumption DEF RequestFits, LoopFits
        <4> QED BY <4>2, <4>3
      <3> QED BY <3>2, <3>3
    <2> QED BY <2>3, <2>4 DEF RequestFits
  <1>6. CASE HasVariant(q)
    <2>1. PICK j \in Ready(q) :
            \/ req' = [req EXCEPT ![q].pc = "row", ![q].job = j]
            \/ Skip(q, j)
      BY <1>6 DEF HasVariant
    <2>2. /\ req[q].pc = "queue" /\ req[q].endpoint \in Pages
          /\ UNCHANGED <<jobs, batch, items, itemsLost>>
      BY <1>6 DEF HasVariant, batchVars
    <2>3. CASE req' = [req EXCEPT ![q].pc = "row", ![q].job = j]
      <3>1. j \in req[q].todo
        BY <2>2, ReadyIs
      <3>2. /\ req'[q].pc = "row" /\ req'[q].endpoint = req[q].endpoint
            /\ req'[q].todo = req[q].todo /\ req'[q].at = req[q].at /\ req'[q].job = j
        <4>1. req'[q] = [req[q] EXCEPT !.pc = "row", !.job = j]
          BY <2>3, <1>0
        <4> QED BY <4>1, <1>0 DEF ReqStates
      <3>3. q \notin batch
        BY <2>2, <1>0 DEF RequestFits, PlaceFits, Pages
      <3> QED BY <2>2, <3>1, <3>2, <3>3, <1>0 DEF RequestFits, PlaceFits, LoopFits, ItemsFit
    <2> QED BY <2>1, <2>2, <2>3, <1>5
  <1>7. CASE CreateJob(q)
    <2>1. PICK j \in Ready(q) :
            \/ /\ jobs' = [jobs EXCEPT ![q][j] = "row"]
               /\ req' = [req EXCEPT ![q].todo = @ \ {j}, ![q].at = j[1],
                                     ![q].pc = "enqueue", ![q].job = j]
            \/ Skip(q, j) /\ UNCHANGED jobs
      BY <1>7 DEF CreateJob
    <2>2. /\ req[q].pc \in {"queue", "row"}
          /\ UNCHANGED <<batch, items, itemsLost>>
      BY <1>7 DEF CreateJob, batchVars
    <2>3. CASE /\ jobs' = [jobs EXCEPT ![q][j] = "row"]
               /\ req' = [req EXCEPT ![q].todo = @ \ {j}, ![q].at = j[1],
                                     ![q].pc = "enqueue", ![q].job = j]
      <3>1. j \in req[q].todo /\ j \in Pairs
        BY <2>2, <1>0, ReadyIs DEF RequestFits, LoopFits, ReqStates
      <3>2. /\ req'[q].pc = "enqueue" /\ req'[q].endpoint = req[q].endpoint
            /\ req'[q].todo = req[q].todo \ {j} /\ req'[q].at = j[1] /\ req'[q].job = j
        <4>1. req'[q] = [req[q] EXCEPT !.todo = @ \ {j}, !.at = j[1],
                                       !.pc = "enqueue", !.job = j]
          BY <2>3, <1>0
        <4> QED BY <4>1, <1>0 DEF ReqStates
      <3>3. /\ jobs'[q][j] = "row"
            /\ \A i \in Pairs : i # j => jobs'[q][i] = jobs[q][i]
        BY <2>3, <3>1, JobsChange DEF JobStates
      <3>4. req[q].todo \subseteq Pairs
        BY <1>0 DEF ReqStates
      <3>5. PlaceFits(q)' /\ LoopFits(q)'
        <4>1. PlaceFits(q)'
          BY <2>2, <3>2, <1>0 DEF RequestFits, PlaceFits
        <4>2. \A i \in req'[q].todo : i \in Pairs /\ i # j /\ i \in req[q].todo
          BY <3>2, <3>4
        <4>3. \A i \in req'[q].todo : jobs'[q][i] = "none" /\ items'[q][i[1]] = {}
          BY <4>2, <3>3, <2>2, <1>0 DEF RequestFits, LoopFits
        <4>4. items'[q][j[1]] = {}
          BY <3>1, <2>2, <1>0 DEF RequestFits, LoopFits
        <4>5. LoopFits(q)'
          BY <4>3, <4>4, <3>1, <3>2, <3>3 DEF LoopFits
        <4> QED BY <4>1, <4>5
      <3>6. ItemsFit(q)'
        <4>1. \A f \in Files : QueuedFor(q, f)' = QueuedFor(q, f)
          <5>1. jobs[q][j] = "none"
            BY <3>1, <1>0 DEF RequestFits, LoopFits
          <5>2. \A i \in Pairs : IsQueued(q, i)' = IsQueued(q, i)
            BY <5>1, <3>3 DEF IsQueued
          <5> QED BY <5>2 DEF QueuedFor, Pairs
        <4> SUFFICES ASSUME q \in batch, NEW f \in Files, f # j[1], <<q, f>> \notin itemsLost
                     PROVE  items[q][f] = QueuedFor(q, f)
          BY <2>2, <3>2, <4>1 DEF ItemsFit
        <4>2. req[q].endpoint = "batch" /\ req[q].pc = "queue"
          BY <2>2, <1>0 DEF RequestFits, PlaceFits, Pages
        <4>3. CASE f # req[q].at
          BY <4>3, <1>0 DEF RequestFits, ItemsFit
        <4>4. CASE f = req[q].at
          <5>1. FileDone(q) /\ ~ItemDue(q)
            BY <4>2, <4>4, ReadyIs, ConstantsAssumption
          <5>2. QueuedFor(q, f) = {}
            BY <5>1, <4>2, <4>4 DEF ItemDue
          <5>3. items[q][f] = {}
            BY <4>4, <1>0, ConstantsAssumption DEF RequestFits, LoopFits
          <5> QED BY <5>2, <5>3
        <4> QED BY <4>3, <4>4
      <3> QED BY <3>5, <3>6 DEF RequestFits
    <2>4. CASE Skip(q, j) /\ UNCHANGED jobs
      BY <2>2, <2>4, <1>5
    <2> QED BY <2>1, <2>3, <2>4
  <1>8. CASE Enqueue(q)
    <2>1. PICK s \in {"queue", "count"} :
            /\ req' = [req EXCEPT ![q].pc = s]
            /\ s = "count" => req[q].endpoint \notin Pages
      BY <1>8 DEF Enqueue
    <2>2. req[q].pc = "enqueue" /\ UNCHANGED <<batch, items, itemsLost>>
      BY <1>8 DEF Enqueue, batchVars
    <2>3. req[q].job \in Pairs \ req[q].todo /\ req[q].at = req[q].job[1]
      BY <2>2, <1>0 DEF RequestFits, LoopFits
    <2>4. /\ req'[q].pc = s /\ req'[q].endpoint = req[q].endpoint
          /\ req'[q].todo = req[q].todo /\ req'[q].at = req[q].at /\ req'[q].job = req[q].job
      BY <2>1, <1>0 DEF ReqStates
    <2>5. \A i \in Pairs : i # req[q].job => jobs'[q][i] = jobs[q][i]
      BY <1>8, JobsChange DEF Enqueue, JobStates
    <2>6. req[q].todo \subseteq Pairs
      BY <1>0 DEF ReqStates
    <2>7. PlaceFits(q)' /\ LoopFits(q)'
      BY <2>1, <2>2, <2>3, <2>4, <2>5, <2>6, <1>0 DEF RequestFits, PlaceFits, LoopFits
    <2>8. ItemsFit(q)'
      <3>1. \A f \in Files \ {req[q].at} : QueuedFor(q, f)' = QueuedFor(q, f)
        <4>1. \A f \in Files \ {req[q].at}, k \in Kinds :
                <<f, k>> \in Pairs /\ <<f, k>> # req[q].job
          BY <2>3 DEF Pairs
        <4> QED BY <4>1, <2>5 DEF QueuedFor, IsQueued
      <3> QED BY <2>2, <2>4, <3>1, <1>0 DEF RequestFits, ItemsFit
    <2> QED BY <2>7, <2>8 DEF RequestFits
  <1>9. CASE IncrementTransformationCount(q)
    <2>1. /\ req'[q].pc = "queue" /\ req'[q].endpoint = req[q].endpoint
          /\ req'[q].todo = req[q].todo /\ req'[q].at = req[q].at
      BY <1>9, <1>0 DEF IncrementTransformationCount, ReqStates
    <2>2. req[q].pc = "count" /\ UNCHANGED <<jobs, batch, items, itemsLost>>
      BY <1>9 DEF IncrementTransformationCount, batchVars
    <2>3. PlaceFits(q)' /\ LoopFits(q)'
      BY <2>1, <2>2, <1>0 DEF RequestFits, PlaceFits, LoopFits
    <2>4. ItemsFit(q)'
      BY <2>1, <2>2, <1>0 DEF RequestFits, ItemsFit, QueuedFor, IsQueued
    <2> QED BY <2>3, <2>4 DEF RequestFits
  <1>10. CASE CreateBatchItem(q)
    <2>1. /\ req'[q].pc = "queue" /\ req'[q].endpoint = req[q].endpoint
          /\ req'[q].todo = req[q].todo /\ req'[q].at = NoFile
      BY <1>10, <1>0 DEF CreateBatchItem, ReqStates
    <2>2. req[q].pc = "queue" /\ UNCHANGED <<jobs, batch>>
      BY <1>10 DEF CreateBatchItem
    <2>3. req[q].at \in Files /\ \A j \in req[q].todo : j[1] # req[q].at
      BY <1>10, <1>0 DEF CreateBatchItem, ItemDue, FileDone, ReqStates
    <2>4. /\ \A f \in Files : f # req[q].at => items'[q][f] = items[q][f]
          /\ items'[q][req[q].at] = QueuedFor(q, req[q].at) \/ <<q, req[q].at>> \in itemsLost'
          /\ itemsLost \subseteq itemsLost'
      <3>1. items \in [Requests -> [Files -> SUBSET Kinds]] /\ items[q] \in [Files -> SUBSET Kinds]
        BY DEF TransformationsTypeOK
      <3>2. CASE items' = [items EXCEPT ![q][req[q].at] = QueuedFor(q, req[q].at)]
                 /\ UNCHANGED itemsLost
        <4>1. items'[q] = [items[q] EXCEPT ![req[q].at] = QueuedFor(q, req[q].at)]
          BY <3>1, <3>2
        <4> QED BY <4>1, <3>1, <3>2, <2>3
      <3>3. CASE itemsLost' = itemsLost \cup {<<q, req[q].at>>} /\ UNCHANGED items
        BY <3>3
      <3> QED BY <1>10, <3>2, <3>3 DEF CreateBatchItem
    <2>5. \A j \in req[q].todo : j[1] \in Files
      BY <1>0 DEF ReqStates, Pairs
    <2>6. PlaceFits(q)' /\ LoopFits(q)'
      <3>1. PlaceFits(q)'
        BY <2>1, <2>2, <1>0 DEF RequestFits, PlaceFits
      <3>2. \A j \in req[q].todo : jobs'[q][j] = "none" /\ items'[q][j[1]] = {}
        BY <2>2, <2>3, <2>4, <2>5, <1>0 DEF RequestFits, LoopFits
      <3>3. LoopFits(q)'
        BY <2>1, <3>2 DEF LoopFits
      <3> QED BY <3>1, <3>3
    <2>7. ItemsFit(q)'
      BY <2>1, <2>2, <2>3, <2>4, <1>0 DEF RequestFits, ItemsFit, QueuedFor, IsQueued
    <2> QED BY <2>6, <2>7 DEF RequestFits
  <1>11. CASE Finish(q)
    <2>1. PICK s \in {"mark", "answered"} :
            /\ req' = [req EXCEPT ![q].pc = s]
            /\ s = "mark" => req[q].endpoint \in {"process", "bundle"}
      BY <1>11 DEF Finish
    <2>2. /\ req'[q].pc = s /\ req'[q].endpoint = req[q].endpoint
          /\ req'[q].todo = req[q].todo /\ req'[q].at = req[q].at
      BY <2>1, <1>0 DEF ReqStates
    <2>3. /\ req[q].pc = "queue" /\ req[q].todo = {} /\ ~ItemDue(q)
          /\ UNCHANGED <<jobs, batch, items, itemsLost>>
      BY <1>11 DEF Finish, batchVars
    <2>4. PlaceFits(q)' /\ LoopFits(q)'
      BY <2>1, <2>2, <2>3, <1>0 DEF RequestFits, PlaceFits, LoopFits
    <2>5. ItemsFit(q)'
      <3> SUFFICES ASSUME q \in batch, NEW f \in Files, <<q, f>> \notin itemsLost
                   PROVE  items[q][f] = QueuedFor(q, f)
        BY <2>2, <2>3 DEF ItemsFit, QueuedFor, IsQueued
      <3>1. CASE f # req[q].at
        BY <3>1, <1>0 DEF RequestFits, ItemsFit
      <3>2. CASE f = req[q].at
        <4>1. FileDone(q) /\ req[q].endpoint = "batch"
          BY <2>3, <3>2, <1>0, ConstantsAssumption DEF FileDone, RequestFits, PlaceFits
        <4>2. QueuedFor(q, f) = {}
          BY <4>1, <2>3, <3>2 DEF ItemDue
        <4>3. items[q][f] = {}
          BY <3>2, <1>0, ConstantsAssumption DEF RequestFits, LoopFits
        <4> QED BY <4>2, <4>3
      <3> QED BY <3>1, <3>2
    <2> QED BY <2>4, <2>5 DEF RequestFits
  <1>12. CASE MarkProcessing(q)
    <2>1. /\ req'[q].pc = "answered" /\ req'[q].endpoint = req[q].endpoint
          /\ req'[q].todo = req[q].todo /\ req'[q].at = req[q].at
      BY <1>12, <1>0 DEF MarkProcessing, ReqStates
    <2>2. req[q].pc = "mark" /\ UNCHANGED <<jobs, batch, items, itemsLost>>
      BY <1>12 DEF MarkProcessing, batchVars
    <2>3. q \notin batch
      BY <2>2, <1>0 DEF RequestFits, PlaceFits
    <2> QED BY <2>1, <2>2, <2>3, <1>0 DEF RequestFits, PlaceFits, LoopFits, ItemsFit
  <1>13. CASE Work(q)
    <2>1. PICK j \in Pairs : CreateVariant(q, j) \/ CompleteJob(q, j) \/ FailJob(q, j)
      BY <1>13 DEF Work, Pairs
    <2>2. PICK s \in JobStates \ {"none", "row"} :
            /\ jobs' = [jobs EXCEPT ![q][j] = s] /\ IsQueued(q, j)
            /\ UNCHANGED <<req, batch, items, itemsLost>>
      BY <2>1 DEF CreateVariant, CompleteJob, FailJob, MayTakeUp, IsQueued, JobStates, batchVars
    <2>3. /\ jobs'[q][j] = s
          /\ \A i \in Pairs : i # j => jobs'[q][i] = jobs[q][i]
      BY <2>2, JobsChange
    <2>4. /\ \A i \in Pairs : IsQueued(q, i)' = IsQueued(q, i)
          /\ \A i \in Pairs : jobs[q][i] \in {"none", "row"} => jobs'[q][i] = jobs[q][i]
      BY <2>2, <2>3 DEF IsQueued
    <2>5. req[q].todo \subseteq Pairs
      BY <1>0 DEF ReqStates
    <2>6. PlaceFits(q)' /\ LoopFits(q)'
      BY <2>2, <2>4, <2>5, <1>0 DEF RequestFits, PlaceFits, LoopFits
    <2>7. \A f \in Files : QueuedFor(q, f)' = QueuedFor(q, f)
      BY <2>4 DEF QueuedFor, Pairs
    <2>8. ItemsFit(q)'
      BY <2>2, <2>7, <1>0 DEF RequestFits, ItemsFit
    <2> QED BY <2>6, <2>8 DEF RequestFits
  <1>14. ASSUME NEW r \in Requests, r # q, Handle(r) \/ Work(r)
         PROVE  RequestFits(q)'
    <2>1. req'[q] = req[q] /\ jobs'[q] = jobs[q] /\ items'[q] = items[q]
          /\ (q \in batch' <=> q \in batch)
          /\ (\A f \in Files : <<q, f>> \in itemsLost => <<q, f>> \in itemsLost')
      <3>0. /\ jobs \in [Requests -> [Pairs -> JobStates]]
            /\ items \in [Requests -> [Files -> SUBSET Kinds]]
        BY DEF TransformationsTypeOK
      <3>1. CASE Arrival(r)
        <4>1. PICK e \in Endpoints, step \in {"usage", "queue"},
                   fs \in SUBSET Files, ks \in SUBSET Kinds : Accept(r, e, step, fs, ks)
          BY <3>1, <1>0, Arrivals
        <4> QED BY <4>1, <1>14 DEF Accept, batchVars
      <3>2. CASE CheckUsage(r)
        BY <3>2, <1>0, <1>14 DEF CheckUsage, Admit, batchVars
      <3>3. CASE CreateBatchOperation(r)
        BY <3>3, <1>0, <1>14 DEF CreateBatchOperation
      <3>4. CASE HasVariant(r)
        BY <3>4, <1>0, <1>14 DEF HasVariant, Skip, batchVars
      <3>5. CASE CreateJob(r)
        BY <3>5, <3>0, <1>0, <1>14 DEF CreateJob, Skip, batchVars
      <3>6. CASE Enqueue(r)
        BY <3>6, <3>0, <1>0, <1>14 DEF Enqueue, batchVars
      <3>7. CASE IncrementTransformationCount(r)
        BY <3>7, <1>0, <1>14 DEF IncrementTransformationCount, batchVars
      <3>8. CASE CreateBatchItem(r)
        BY <3>8, <3>0, <1>0, <1>14 DEF CreateBatchItem
      <3>9. CASE Finish(r) \/ MarkProcessing(r)
        BY <3>9, <1>0, <1>14 DEF Finish, MarkProcessing, batchVars
      <3>10. CASE Work(r)
        BY <3>10, <3>0, <1>0, <1>14
           DEF Work, CreateVariant, CompleteJob, FailJob, batchVars
      <3> QED BY <1>14, <3>1, <3>2, <3>3, <3>4, <3>5, <3>6, <3>7, <3>8, <3>9, <3>10
              DEF Handle, Arrival
    <2> QED BY <2>1, <1>0, OthersStay
  <1>15. CASE \/ \E f \in Files : SoftDeleteFile(f)
              \/ UpdateUserTier \/ UpdateUserSubscription \/ CancelUserSubscription
    <2>1. UNCHANGED <<req, jobs, batch, items, itemsLost>>
      BY <1>15 DEF SoftDeleteFile, UpdateUserTier, UpdateUserSubscription,
                   CancelUserSubscription, PlanChange, batchVars
    <2> QED BY <2>1, <1>0, OthersStay
  <1> QED BY <1>1, <1>2, <1>3, <1>4, <1>6, <1>7, <1>8, <1>9, <1>10, <1>11, <1>12, <1>13,
             <1>14, <1>15 DEF Next, Handle, Arrival
----------------------------------------------------------------------------
(* The jobs still to queue, over all requests.                             *)

(* What one request still has to queue are jobs it was asked for.          *)
LEMMA LeftIs ==
  ASSUME TransformationsTypeOK, NEW r \in Requests, RequestFits(r)
  PROVE  Left(r) \in SUBSET Pairs
  <1>1. req[r].todo \in SUBSET Pairs
    BY DEF TransformationsTypeOK, ReqStates
  <1>2. req[r].pc \in {"enqueue", "count"} => req[r].job \in Pairs
    BY DEF RequestFits, LoopFits
  <1> QED BY <1>1, <1>2 DEF Left

(* What is in flight is what the others and the acting request have left.  *)
LEMMA FlightMoves ==
  ASSUME TransformationsTypeOK, \A q \in Requests : RequestFits(q), NEW r \in Requests,
         \A q \in Requests \ {r} : req'[q] = req[q], Left(r)' \in SUBSET Pairs
  PROVE  /\ InFlight(Requests \ {r}) \in Nat
         /\ Cardinality(Left(r)) \in Nat /\ Cardinality(Left(r)') \in Nat
         /\ InFlight(Requests) = InFlight(Requests \ {r}) + Cardinality(Left(r))
         /\ InFlight(Requests)' = InFlight(Requests \ {r}) + Cardinality(Left(r)')
  <1> DEFINE L == [q \in Requests |-> Left(q)]
             M == [q \in Requests |-> IF q = r THEN Left(r)' ELSE Left(q)]
  <1>1. L \in [Requests -> SUBSET Pairs] /\ M \in [Requests -> SUBSET Pairs]
    BY LeftIs
  <1>2. /\ InFlight(Requests) = Cardinality(OwnedIn(Requests, L))
        /\ InFlight(Requests \ {r}) = Cardinality(OwnedIn(Requests \ {r}, L))
    <2>1. /\ OwnedIn(Requests, L)
                = {p \in Requests \X (Files \X Kinds) : p[2] \in Left(p[1])}
          /\ OwnedIn(Requests \ {r}, L)
                = {p \in (Requests \ {r}) \X (Files \X Kinds) : p[2] \in Left(p[1])}
      BY DEF OwnedIn, Pairs
    <2> QED BY <2>1 DEF InFlight
  <1>3. InFlight(Requests)' = Cardinality(OwnedIn(Requests, M))
    <2>1. \A q \in Requests : Left(q)' = M[q]
      <3>1. \A q \in Requests \ {r} : Left(q)' = Left(q)
        BY DEF Left
      <3> QED BY <3>1
    <2> HIDE DEF M
    <2>2. OwnedIn(Requests, M)
            = {p \in Requests \X (Files \X Kinds) : p[2] \in Left(p[1])'}
      BY <2>1 DEF OwnedIn, Pairs
    <2> QED BY <2>2 DEF InFlight
  <1>4. OwnedIn(Requests \ {r}, M) = OwnedIn(Requests \ {r}, L)
    BY DEF OwnedIn
  <1>5. L[r] = Left(r) /\ M[r] = Left(r)'
    OBVIOUS
  <1> HIDE DEF L, M
  <1>6. /\ Cardinality(OwnedIn(Requests \ {r}, L)) \in Nat /\ Cardinality(L[r]) \in Nat
        /\ Cardinality(OwnedIn(Requests, L))
             = Cardinality(OwnedIn(Requests \ {r}, L)) + Cardinality(L[r])
    BY <1>1, OwnShare
  <1>7. /\ Cardinality(M[r]) \in Nat
        /\ Cardinality(OwnedIn(Requests, M))
             = Cardinality(OwnedIn(Requests \ {r}, M)) + Cardinality(M[r])
    BY <1>1, OwnShare
  <1> QED BY <1>2, <1>3, <1>4, <1>5, <1>6, <1>7

\* The limit is none, or no larger than the largest so far.
PeakHolds == limit # Unlimited => limit <= peak

(* Plan changes keep the peak.                                             *)
LEMMA PeakStep ==
  ASSUME TransformationsTypeOK, [Next]_vars, PeakHolds
  PROVE  PeakHolds' /\ peak <= peak'
  <1>1. limit \in Nat \cup {Unlimited} /\ peak \in Nat
    BY DEF TransformationsTypeOK
  <1>2. CASE UNCHANGED <<limit, peak>>
    BY <1>1, <1>2 DEF PeakHolds
  <1>3. ASSUME NEW t \in Tiers, NEW l \in Nat \cup {Unlimited}, PlanChange(t, l)
        PROVE  PeakHolds' /\ peak <= peak'
    <2>1. CASE l = Unlimited
      BY <1>1, <1>3, <2>1 DEF PlanChange, PeakHolds
    <2>2. CASE l # Unlimited
      <3>1. l \in Nat /\ l \in Int /\ peak \in Int
        BY <1>1, <2>2
      <3>2. Max({peak, l}) >= peak /\ Max({peak, l}) >= l /\ Max({peak, l}) \in {peak, l}
        BY <3>1, LargerOfTwo
      <3>3. peak' = Max({peak, l}) /\ limit' = l
        BY <1>3, <2>2 DEF PlanChange
      <3> QED BY <3>1, <3>2, <3>3 DEF PeakHolds
    <2> QED BY <2>1, <2>2
  <1>4. CASE UpdateUserTier \/ UpdateUserSubscription \/ CancelUserSubscription
    BY <1>1, <1>3, <1>4, LimitIs
       DEF UpdateUserTier, UpdateUserSubscription, CancelUserSubscription, Tiers
  <1>5. ASSUME NEW r \in Requests, Arrival(r)
        PROVE  UNCHANGED <<limit, peak>>
    BY <1>5, Arrivals DEF Accept, userVars
  <1>6. ASSUME NEW r \in Requests, Handle(r) \/ Work(r), ~Arrival(r)
        PROVE  UNCHANGED <<limit, peak>>
    <2>1. CASE Work(r)
      BY <2>1 DEF Work, CreateVariant, CompleteJob, FailJob, userVars
    <2> QED BY <1>6, <2>1 DEF Handle, Arrival, CheckUsage, CreateBatchOperation, HasVariant,
               CreateJob, Enqueue, IncrementTransformationCount, CreateBatchItem, Finish,
               MarkProcessing, userVars
  <1>7. ASSUME NEW f \in Files, SoftDeleteFile(f)
        PROVE  UNCHANGED <<limit, peak>>
    BY <1>7 DEF SoftDeleteFile, userVars
  <1>8. CASE UNCHANGED vars
    BY <1>8, <1>2 DEF vars, userVars
  <1> QED BY <1>2, <1>4, <1>5, <1>6, <1>7, <1>8 DEF Next

(* A step that leaves a request no more to queue than before puts no more  *)
(* jobs in flight; one that takes a job off the list puts one less.        *)
LEMMA FlightShrinks ==
  ASSUME TransformationsTypeOK, \A q \in Requests : RequestFits(q), NEW r \in Requests,
         \A q \in Requests \ {r} : req'[q] = req[q], Left(r)' \subseteq Left(r)
  PROVE  /\ InFlight(Requests) \in Nat /\ InFlight(Requests)' \in Nat
         /\ InFlight(Requests)' <= InFlight(Requests)
         /\ \A j \in Left(r) : Left(r)' = Left(r) \ {j}
              => InFlight(Requests)' = InFlight(Requests) - 1
  <1>1. Left(r) \in SUBSET Pairs /\ Left(r)' \in SUBSET Pairs
    BY LeftIs
  <1>2. /\ InFlight(Requests \ {r}) \in Nat
        /\ Cardinality(Left(r)) \in Nat /\ Cardinality(Left(r)') \in Nat
        /\ InFlight(Requests) = InFlight(Requests \ {r}) + Cardinality(Left(r))
        /\ InFlight(Requests)' = InFlight(Requests \ {r}) + Cardinality(Left(r)')
    BY <1>1, FlightMoves
  <1>3. /\ Cardinality(Left(r)') <= Cardinality(Left(r))
        /\ \A j \in Left(r) : Left(r)' = Left(r) \ {j}
             => Cardinality(Left(r)') = Cardinality(Left(r)) - 1
    BY <1>1, PairSets
  <1>4. /\ InFlight(Requests) \in Nat /\ InFlight(Requests)' \in Nat
        /\ InFlight(Requests)' <= InFlight(Requests)
    BY <1>2, <1>3
  <1>5. Cardinality(Left(r)') = Cardinality(Left(r)) - 1
          => InFlight(Requests)' = InFlight(Requests) - 1
    BY <1>2
  <1>6. \A j \in Left(r) : Left(r)' = Left(r) \ {j}
          => InFlight(Requests)' = InFlight(Requests) - 1
    BY <1>3, <1>5, Zenon
  <1> QED BY <1>4, <1>6, Zenon

(* Every step keeps the bound on the overrun.                              *)
LEMMA OverrunStep ==
  ASSUME TransformationsTypeOK, TransformationsTypeOK', [Next]_vars,
         \A q \in Requests : RequestFits(q), \A q \in Requests : RequestFits(q)',
         PeakHolds, OverrunBounded
  PROVE  OverrunBounded'
  <1>0. /\ count \in Nat /\ peak \in Nat /\ slack \in Nat /\ blind \in Nat
        /\ peak' \in Nat /\ slack' \in Nat /\ blind' \in Nat
        /\ req \in [Requests -> ReqStates]
    BY DEF TransformationsTypeOK
  <1>1. peak <= peak'
    BY PeakStep
  <1>2. ASSUME UNCHANGED req, count' <= count, slack <= slack', blind <= blind', count' \in Nat
        PROVE  OverrunBounded'
    <2>1. InFlight(Requests)' = InFlight(Requests)
      BY <1>2 DEF InFlight, Left
    <2>2. InFlight(Requests) \in Nat
      <3>1. IsFiniteSet({p \in Requests \X (Files \X Kinds) : p[2] \in Left(p[1])})
        BY PairsFinite, FS_Subset DEF Pairs
      <3> QED BY <3>1, FS_CardinalityType DEF InFlight
    <2> QED BY <1>0, <1>1, <1>2, <2>1, <2>2 DEF OverrunBounded
  <1>3. ASSUME NEW r \in Requests, \A q \in Requests \ {r} : req'[q] = req[q],
               Left(r)' \subseteq Left(r), UNCHANGED <<count, slack, blind>>
        PROVE  OverrunBounded'
    <2>1. /\ InFlight(Requests) \in Nat /\ InFlight(Requests)' \in Nat
          /\ InFlight(Requests)' <= InFlight(Requests)
      BY <1>3, FlightShrinks
    <2> QED BY <1>0, <1>1, <1>3, <2>1 DEF OverrunBounded
  <1>4. ASSUME NEW r \in Requests, Arrival(r)
        PROVE  OverrunBounded'
    <2>1. PICK e \in Endpoints, step \in {"usage", "queue"},
               fs \in SUBSET Files, ks \in SUBSET Kinds :
            /\ Accept(r, e, step, fs, ks)
            /\ step = "queue" => \/ e \in Pages
                                 \/ e = "hls" /\ \E f \in Files : fs = {f} /\ ks = {"hls"}
      BY <1>4, Arrivals
    <2>2. /\ req'[r].pc = step /\ req'[r].endpoint = e /\ req'[r].todo = fs \X ks
          /\ \A q \in Requests \ {r} : req'[q] = req[q]
      BY <2>1, <1>0 DEF Accept, Idle
    <2>3. Left(r) = {}
      BY <2>1 DEF Accept, Left
    <2>4. UNCHANGED <<count, slack>>
      BY <2>1 DEF Accept
    <2>5. CASE step = "usage" \/ e \in Pages
      <3>1. Left(r)' = {}
        BY <2>2, <2>5 DEF Left
      <3>2. blind <= blind'
        BY <2>1, <1>0 DEF Accept
      <3>3. /\ InFlight(Requests) \in Nat /\ InFlight(Requests)' \in Nat
            /\ InFlight(Requests)' <= InFlight(Requests)
        BY <2>2, <2>3, <3>1, FlightShrinks
      <3> QED BY <1>0, <1>1, <2>4, <3>2, <3>3 DEF OverrunBounded
    <2>6. CASE step = "queue" /\ e = "hls"
      <3>1. PICK f \in Files : fs = {f} /\ ks = {"hls"}
        BY <2>1, <2>6 DEF Pages
      <3>2. Left(r)' = {<<f, "hls">>} /\ <<f, "hls">> \in Pairs
        <4>1. Left(r)' = req'[r].todo
          BY <2>2, <2>6 DEF Left, Pages
        <4> QED BY <4>1, <2>2, <3>1 DEF Pairs
      <3>3. Cardinality(Left(r)') = 1 /\ Cardinality(Left(r)) = 0
        BY <3>2, <2>3, FS_Singleton, FS_EmptySet
      <3>4. /\ InFlight(Requests \ {r}) \in Nat
            /\ InFlight(Requests) = InFlight(Requests \ {r}) + Cardinality(Left(r))
            /\ InFlight(Requests)' = InFlight(Requests \ {r}) + Cardinality(Left(r)')
        <4>1. Left(r)' \in SUBSET Pairs
          BY <3>2
        <4> QED BY <4>1, <2>2, FlightMoves
      <3>5. blind' = blind + 1
        BY <2>1, <2>6 DEF Accept
      <3> QED BY <1>0, <1>1, <2>4, <3>3, <3>4, <3>5 DEF OverrunBounded
    <2> QED BY <2>1, <2>5, <2>6
  <1>5. ASSUME NEW r \in Requests, CheckUsage(r)
        PROVE  OverrunBounded'
    <2>1. req[r].pc = "usage" /\ UNCHANGED <<count, peak>> /\ Left(r) = {}
      BY <1>5 DEF CheckUsage, userVars, Left
    <2>2. CASE req' = [req EXCEPT ![r].pc = "answered"] /\ UNCHANGED <<slack, blind>>
      <3>1. Left(r)' = {} /\ \A q \in Requests \ {r} : req'[q] = req[q]
        BY <2>2, <1>0 DEF Left, ReqStates
      <3> QED BY <1>3, <2>1, <2>2, <3>1
    <2>3. ASSUME NEW n \in Nat, Admit(r, n),
                 \/ count + Needed(r) <= limit + n /\ limit # Unlimited
                 \/ n = Needed(r)
          PROVE  OverrunBounded'
      <3>1. /\ Left(r)' = req[r].todo
            /\ \A q \in Requests \ {r} : req'[q] = req[q]
        <4>1. PICK s \in {"batch", "queue"} : req' = [req EXCEPT ![r].pc = s]
          BY <2>3 DEF Admit
        <4>2. req[r].endpoint \notin Pages
          BY <2>1 DEF RequestFits, PlaceFits
        <4>3. req'[r].pc = s /\ req'[r].endpoint = req[r].endpoint /\ req'[r].todo = req[r].todo
          BY <4>1, <1>0 DEF ReqStates
        <4> QED BY <4>1, <4>2, <4>3, <1>0 DEF Left
      <3>2. req[r].todo \in SUBSET Pairs
        BY <1>0 DEF ReqStates
      <3>3. /\ InFlight(Requests \ {r}) \in Nat /\ Cardinality(Left(r)') \in Nat
            /\ InFlight(Requests) = InFlight(Requests \ {r}) + Cardinality(Left(r))
            /\ InFlight(Requests)' = InFlight(Requests \ {r}) + Cardinality(Left(r)')
        BY <3>1, <3>2, FlightMoves
      <3>4. Cardinality(Left(r)) = 0 /\ Cardinality(Left(r)') = Needed(r)
        BY <2>1, <3>1, FS_EmptySet DEF Needed
      <3>5. slack' >= slack /\ slack' >= InFlight(Requests \ {r})
        <4>1. slack' = Max({slack, InFlight(Requests \ {r})})
          BY <2>3 DEF Admit
        <4>2. slack \in Int /\ InFlight(Requests \ {r}) \in Int
          BY <1>0, <3>3
        <4> QED BY <4>1, <4>2, LargerOfTwo
      <3>6. blind' = blind + n
        BY <2>3 DEF Admit
      <3>7. CASE n = Needed(r)
        BY <1>0, <2>1, <3>3, <3>4, <3>5, <3>6, <3>7 DEF OverrunBounded
      <3>8. CASE count + Needed(r) <= limit + n /\ limit # Unlimited
        <4>1. limit \in Nat /\ limit <= peak
          BY <3>8 DEF TransformationsTypeOK, PeakHolds
        <4> QED BY <1>0, <2>1, <3>3, <3>4, <3>5, <3>6, <3>8, <4>1 DEF OverrunBounded
      <3> QED BY <2>3, <3>7, <3>8
    <2>4. Needed(r) \in Nat
      <3>1. req[r].todo \in SUBSET Pairs
        BY <1>0 DEF ReqStates
      <3> QED BY <3>1, PairSets DEF Needed
    <2>5. CASE limit # Unlimited /\ limit - count >= Needed(r) /\ Admit(r, 0)
      <3>1. limit \in Nat
        BY <2>5 DEF TransformationsTypeOK
      <3>2. count + Needed(r) <= limit + 0
        BY <2>4, <2>5, <3>1, <1>0
      <3> QED BY <2>3, <2>5, <3>2
    <2>6. CASE Admit(r, Needed(r))
      BY <2>3, <2>4, <2>6
    <2> QED BY <1>5, <2>2, <2>5, <2>6 DEF CheckUsage
  <1>6. ASSUME NEW r \in Requests, CreateBatchOperation(r)
        PROVE  OverrunBounded'
    <2>1. \/ \E left \in SUBSET req[r].todo :
               req' = [req EXCEPT ![r].pc = "queue", ![r].todo = left]
          \/ req' = [req EXCEPT ![r].pc = "answered"]
      BY <1>6 DEF CreateBatchOperation
    <2>2. req[r].pc = "batch" /\ UNCHANGED <<count, slack, blind>>
      BY <1>6 DEF CreateBatchOperation
    <2>3. /\ req'[r].endpoint = req[r].endpoint /\ req'[r].todo \subseteq req[r].todo
          /\ req'[r].pc \in {"queue", "answered"}
          /\ \A q \in Requests \ {r} : req'[q] = req[q]
      BY <2>1, <1>0 DEF ReqStates
    <2> QED BY <1>3, <2>2, <2>3 DEF Left
  <1>7. ASSUME NEW r \in Requests, NEW j \in Ready(r), Skip(r, j),
               req[r].pc \in {"queue", "row"}, UNCHANGED <<count, slack, blind>>
        PROVE  OverrunBounded'
    <2>1. /\ req'[r].endpoint = req[r].endpoint /\ req'[r].todo \subseteq req[r].todo
          /\ req'[r].pc = "queue"
          /\ \A q \in Requests \ {r} : req'[q] = req[q]
      BY <1>7, <1>0 DEF Skip, ReqStates
    <2> QED BY <1>3, <1>7, <2>1 DEF Left
  <1>8. ASSUME NEW r \in Requests, HasVariant(r)
        PROVE  OverrunBounded'
    <2>1. PICK j \in Ready(r) :
            \/ req' = [req EXCEPT ![r].pc = "row", ![r].job = j]
            \/ Skip(r, j)
      BY <1>8 DEF HasVariant
    <2>2. /\ req[r].pc = "queue" /\ req[r].endpoint \in Pages
          /\ UNCHANGED <<count, slack, blind>>
      BY <1>8 DEF HasVariant
    <2>3. CASE req' = [req EXCEPT ![r].pc = "row", ![r].job = j]
      <3>1. req'[r].endpoint \in Pages /\ \A q \in Requests \ {r} : req'[q] = req[q]
        BY <2>2, <2>3, <1>0 DEF ReqStates
      <3> QED BY <1>3, <2>2, <3>1 DEF Left
    <2> QED BY <2>1, <2>2, <2>3, <1>7
  <1>9. ASSUME NEW r \in Requests, CreateJob(r)
        PROVE  OverrunBounded'
    <2>1. PICK j \in Ready(r) :
            \/ req' = [req EXCEPT ![r].todo = @ \ {j}, ![r].at = j[1],
                                  ![r].pc = "enqueue", ![r].job = j]
            \/ Skip(r, j)
      BY <1>9 DEF CreateJob
    <2>2. /\ req[r].pc = IF req[r].endpoint \in Pages THEN "row" ELSE "queue"
          /\ UNCHANGED <<count, slack, blind>>
      BY <1>9 DEF CreateJob
    <2>3. CASE req' = [req EXCEPT ![r].todo = @ \ {j}, ![r].at = j[1],
                                  ![r].pc = "enqueue", ![r].job = j]
      <3>1. /\ req'[r].endpoint = req[r].endpoint /\ req'[r].todo = req[r].todo \ {j}
            /\ req'[r].pc = "enqueue" /\ req'[r].job = j
            /\ \A q \in Requests \ {r} : req'[q] = req[q]
        <4>1. req'[r] = [req[r] EXCEPT !.todo = @ \ {j}, !.at = j[1],
                                       !.pc = "enqueue", !.job = j]
          BY <2>3, <1>0
        <4> QED BY <4>1, <2>3, <1>0 DEF ReqStates
      <3>2. j \in req[r].todo
        BY <2>1, <2>2, ReadyIs DEF RequestFits, LoopFits
      <3>3. Left(r)' \subseteq Left(r)
        BY <2>2, <3>1, <3>2 DEF Left
      <3> QED BY <1>3, <2>2, <3>1, <3>3
    <2> QED BY <2>1, <2>2, <2>3, <1>7
  <1>10. ASSUME NEW r \in Requests, Enqueue(r)
         PROVE  OverrunBounded'
    <2>1. PICK s \in {"queue", "count"} : req' = [req EXCEPT ![r].pc = s]
      BY <1>10 DEF Enqueue
    <2>2. req[r].pc = "enqueue" /\ UNCHANGED <<count, slack, blind>>
      BY <1>10 DEF Enqueue
    <2>3. /\ req'[r].pc = s /\ req'[r].endpoint = req[r].endpoint
          /\ req'[r].todo = req[r].todo /\ req'[r].job = req[r].job
          /\ \A q \in Requests \ {r} : req'[q] = req[q]
      BY <2>1, <1>0 DEF ReqStates
    <2> QED BY <1>3, <2>2, <2>3 DEF Left
  <1>11. ASSUME NEW r \in Requests, IncrementTransformationCount(r)
         PROVE  OverrunBounded'
    <2>1. req[r].pc = "count" /\ UNCHANGED <<slack, blind>> /\ count' \in {count, count + 1}
      BY <1>11 DEF IncrementTransformationCount
    <2>2. /\ req'[r].pc = "queue" /\ req'[r].endpoint = req[r].endpoint
          /\ req'[r].todo = req[r].todo
          /\ \A q \in Requests \ {r} : req'[q] = req[q]
      BY <1>11, <1>0 DEF IncrementTransformationCount, ReqStates
    <2>3. req[r].endpoint \notin Pages /\ req[r].job \notin req[r].todo
      BY <2>1 DEF RequestFits, PlaceFits, LoopFits
    <2>4. req[r].job \in Left(r) /\ Left(r)' = Left(r) \ {req[r].job}
      BY <2>1, <2>2, <2>3 DEF Left
    <2>5. /\ InFlight(Requests) \in Nat
          /\ InFlight(Requests)' = InFlight(Requests) - 1
      BY <2>2, <2>4, FlightShrinks
    <2> QED BY <1>0, <1>1, <2>1, <2>5 DEF OverrunBounded
  <1>12. ASSUME NEW r \in Requests, CreateBatchItem(r)
         PROVE  OverrunBounded'
    <2>1. /\ req'[r].pc = req[r].pc /\ req'[r].endpoint = req[r].endpoint
          /\ req'[r].todo = req[r].todo /\ req'[r].job = req[r].job
          /\ \A q \in Requests \ {r} : req'[q] = req[q]
      BY <1>12, <1>0 DEF CreateBatchItem, ReqStates
    <2>2. UNCHANGED <<count, slack, blind>>
      BY <1>12 DEF CreateBatchItem
    <2> QED BY <1>3, <2>1, <2>2 DEF Left
  <1>13. ASSUME NEW r \in Requests, Finish(r)
         PROVE  OverrunBounded'
    <2>1. PICK s \in {"mark", "answered"} : req' = [req EXCEPT ![r].pc = s]
      BY <1>13 DEF Finish
    <2>2. /\ req'[r].pc = s /\ req'[r].endpoint = req[r].endpoint
          /\ req'[r].todo = req[r].todo
          /\ \A q \in Requests \ {r} : req'[q] = req[q]
      BY <2>1, <1>0 DEF ReqStates
    <2>3. req[r].pc = "queue" /\ UNCHANGED <<count, slack, blind>>
      BY <1>13 DEF Finish
    <2> QED BY <1>3, <2>2, <2>3 DEF Left
  <1>14. ASSUME NEW r \in Requests, MarkProcessing(r)
         PROVE  OverrunBounded'
    <2>1. /\ req'[r].pc = "answered"
          /\ \A q \in Requests \ {r} : req'[q] = req[q]
      BY <1>14, <1>0 DEF MarkProcessing, ReqStates
    <2>2. UNCHANGED <<count, slack, blind>>
      BY <1>14 DEF MarkProcessing
    <2> QED BY <1>3, <2>1, <2>2 DEF Left
  <1>15. ASSUME NEW r \in Requests, Work(r)
         PROVE  OverrunBounded'
    <2>1. UNCHANGED <<req, count, slack, blind>>
      BY <1>15 DEF Work, CreateVariant, CompleteJob, FailJob
    <2> QED BY <1>0, <1>2, <2>1
  <1>16. CASE \/ \E f \in Files : SoftDeleteFile(f)
              \/ UpdateUserTier \/ UpdateUserSubscription \/ CancelUserSubscription
              \/ UNCHANGED vars
    <2>1. UNCHANGED <<req, count, slack, blind>>
      BY <1>16 DEF SoftDeleteFile, UpdateUserTier, UpdateUserSubscription,
                   CancelUserSubscription, PlanChange, vars
    <2> QED BY <1>0, <1>2, <2>1
  <1> QED BY <1>4, <1>5, <1>6, <1>8, <1>9, <1>10, <1>11, <1>12, <1>13, <1>14, <1>15, <1>16
          DEF Next, Handle, Arrival

----------------------------------------------------------------------------
(* The jobs the API queued, and their count.                               *)

Charged(r) == IF req[r].endpoint \in Pages THEN {} ELSE QueuedBy(r)
AtCount == {r \in Requests : req[r].pc = "count"}

(* What was charged and what the others' and the acting request's share of *)
(* it is, before a step and after it.                                      *)
LEMMA ChargedMoves ==
  ASSUME TransformationsTypeOK, NEW r \in Requests,
         \A q \in Requests \ {r} : req'[q] = req[q] /\ jobs'[q] = jobs[q]
  PROVE  /\ Cardinality(ChargedJobs) \in Nat
         /\ Charged(r)' = Charged(r) => UNCHANGED ChargedJobs
         /\ \A j \in Pairs : j \notin Charged(r) /\ Charged(r)' = Charged(r) \cup {j}
              => Cardinality(ChargedJobs)' = Cardinality(ChargedJobs) + 1
  <1>1. \A q \in Requests : Charged(q) \subseteq Pairs /\ Charged(q)' \subseteq Pairs
    BY DEF Charged, QueuedBy, Pairs
  <1>2. /\ ChargedJobs = {p \in Requests \X Pairs : p[2] \in Charged(p[1])}
        /\ ChargedJobs' = {p \in Requests \X Pairs : p[2] \in Charged(p[1])'}
    <2>1. ChargedJobs = {p \in Requests \X Pairs : p[2] \in Charged(p[1])}
      BY DEF ChargedJobs, Charged, QueuedBy, Pairs
    <2>2. ChargedJobs' = {p \in Requests \X Pairs : p[2] \in Charged(p[1])'}
      BY DEF ChargedJobs, Charged, QueuedBy, Pairs
    <2> QED BY <2>1, <2>2
  <1>3. \A q \in Requests \ {r} : Charged(q)' = Charged(q)
    BY DEF Charged, QueuedBy, IsQueued
  <1>4. IsFiniteSet(ChargedJobs) /\ Cardinality(ChargedJobs) \in Nat
    BY <1>2, PairsFinite, FS_Subset, FS_CardinalityType
  <1>5. Charged(r)' = Charged(r) => UNCHANGED ChargedJobs
    BY <1>2, <1>3
  <1>6. ASSUME NEW j \in Pairs, j \notin Charged(r), Charged(r)' = Charged(r) \cup {j}
        PROVE  Cardinality(ChargedJobs)' = Cardinality(ChargedJobs) + 1
    <2>1. ChargedJobs' = ChargedJobs \cup {<<r, j>>} /\ <<r, j>> \notin ChargedJobs
      BY <1>2, <1>3, <1>6
    <2> QED BY <2>1, <1>4, FS_AddElement
  <1> QED BY <1>4, <1>5, <1>6

(* Every step keeps the equation between the count and the jobs queued.    *)
LEMMA CountStep ==
  ASSUME TransformationsTypeOK, [Next]_vars, \A q \in Requests : RequestFits(q),
         CountedOnce
  PROVE  CountedOnce'
  <1>0. /\ count \in Nat /\ lost \in Nat
        /\ req \in [Requests -> ReqStates]
        /\ jobs \in [Requests -> [Pairs -> JobStates]]
        /\ IsFiniteSet(AtCount) /\ Cardinality(AtCount) \in Nat
    <2>1. AtCount \subseteq Requests
      BY DEF AtCount
    <2> QED BY <2>1, FS_Subset, FS_CardinalityType, ConstantsAssumption
            DEF TransformationsTypeOK
  <1> DEFINE Same == UNCHANGED <<ChargedJobs, AtCount, count, lost>>
  <1>1. Same => CountedOnce'
    BY DEF CountedOnce, AtCount
  <1>2. ASSUME NEW r \in Requests,
               \A q \in Requests \ {r} : req'[q] = req[q] /\ jobs'[q] = jobs[q],
               Charged(r)' = Charged(r), (req'[r].pc = "count") <=> (req[r].pc = "count"),
               UNCHANGED <<count, lost>>
        PROVE  Same
    <2>1. UNCHANGED ChargedJobs
      BY <1>2, ChargedMoves
    <2>2. UNCHANGED AtCount
      BY <1>2 DEF AtCount
    <2> QED BY <1>2, <2>1, <2>2
  <1>3. ASSUME NEW r \in Requests, NEW s, UNCHANGED <<jobs, count, lost>>,
               req[r].pc # "count", s # "count",
               \A q \in Requests \ {r} : req'[q] = req[q],
               req'[r].pc = s, req'[r].endpoint = req[r].endpoint
        PROVE  Same
    BY <1>2, <1>3 DEF Charged, QueuedBy, IsQueued
  <1>4. ASSUME NEW r \in Requests, Arrival(r)
        PROVE  Same
    <2>1. PICK e \in Endpoints, step \in {"usage", "queue"},
               fs \in SUBSET Files, ks \in SUBSET Kinds : Accept(r, e, step, fs, ks)
      BY <1>4, Arrivals
    <2>2. /\ req'[r].pc = step /\ req[r].pc = "unsent"
          /\ \A q \in Requests \ {r} : req'[q] = req[q]
      BY <2>1, <1>0 DEF Accept, Idle
    <2>3. UNCHANGED <<jobs, count, lost>>
      BY <2>1 DEF Accept
    <2>4. QueuedBy(r) = {} /\ QueuedBy(r)' = {}
      BY <2>2, <2>3 DEF RequestFits, PlaceFits, QueuedBy, IsQueued, Pairs
    <2>5. Charged(r)' = Charged(r)
      BY <2>4 DEF Charged
    <2> QED BY <2>2, <2>3, <2>5, <1>2
  <1>5. ASSUME NEW r \in Requests, CheckUsage(r)
        PROVE  Same
    <2>1. PICK s \in {"batch", "queue", "answered"} : req' = [req EXCEPT ![r].pc = s]
      BY <1>5 DEF CheckUsage, Admit
    <2>2. req[r].pc = "usage" /\ UNCHANGED <<jobs, count, lost>>
      BY <1>5 DEF CheckUsage
    <2> QED BY <1>0, <1>3, <2>1, <2>2 DEF ReqStates
  <1>6. ASSUME NEW r \in Requests, CreateBatchOperation(r)
        PROVE  Same
    <2>1. \/ \E left \in SUBSET req[r].todo :
               req' = [req EXCEPT ![r].pc = "queue", ![r].todo = left]
          \/ req' = [req EXCEPT ![r].pc = "answered"]
      BY <1>6 DEF CreateBatchOperation
    <2>2. req[r].pc = "batch" /\ UNCHANGED <<jobs, count, lost>>
      BY <1>6 DEF CreateBatchOperation
    <2>3. /\ req'[r].endpoint = req[r].endpoint /\ req'[r].pc \in {"queue", "answered"}
          /\ \A q \in Requests \ {r} : req'[q] = req[q]
      BY <2>1, <1>0 DEF ReqStates
    <2> QED BY <1>3, <2>2, <2>3
  <1>7. ASSUME NEW r \in Requests, HasVariant(r)
        PROVE  Same
    <2>1. PICK j \in Ready(r) :
            \/ req' = [req EXCEPT ![r].pc = "row", ![r].job = j]
            \/ Skip(r, j)
      BY <1>7 DEF HasVariant
    <2>2. req[r].pc = "queue" /\ UNCHANGED <<jobs, count, lost>>
      BY <1>7 DEF HasVariant
    <2>3. /\ req'[r].endpoint = req[r].endpoint /\ req'[r].pc \in {"queue", "row"}
          /\ \A q \in Requests \ {r} : req'[q] = req[q]
      BY <2>1, <1>0 DEF ReqStates, Skip
    <2> QED BY <1>3, <2>2, <2>3
  <1>8. ASSUME NEW r \in Requests, CreateJob(r)
        PROVE  Same
    <2>1. PICK j \in Ready(r) :
            \/ /\ jobs' = [jobs EXCEPT ![r][j] = "row"]
               /\ req' = [req EXCEPT ![r].todo = @ \ {j}, ![r].at = j[1],
                                     ![r].pc = "enqueue", ![r].job = j]
            \/ Skip(r, j) /\ UNCHANGED jobs
      BY <1>8 DEF CreateJob
    <2>2. req[r].pc \in {"queue", "row"} /\ UNCHANGED <<count, lost>>
      BY <1>8 DEF CreateJob
    <2>3. /\ req'[r].endpoint = req[r].endpoint /\ req'[r].pc \in {"queue", "enqueue"}
          /\ \A q \in Requests \ {r} : req'[q] = req[q]
      BY <2>1, <1>0 DEF ReqStates, Skip
    <2>4. j \in req[r].todo /\ j \in Pairs
      BY <2>1, <2>2, <1>0, ReadyIs DEF RequestFits, LoopFits, ReqStates
    <2>5. CASE jobs' = [jobs EXCEPT ![r][j] = "row"]
      <3>1. jobs[r][j] = "none"
        BY <2>4 DEF RequestFits, LoopFits
      <3>2. /\ \A q \in Requests \ {r} : jobs'[q] = jobs[q]
            /\ jobs'[r][j] = "row" /\ \A i \in Pairs : i # j => jobs'[r][i] = jobs[r][i]
        BY <2>4, <2>5, JobsChange DEF JobStates
      <3>3. QueuedBy(r)' = QueuedBy(r)
        BY <3>1, <3>2 DEF QueuedBy, IsQueued, Pairs
      <3> QED BY <1>2, <2>2, <2>3, <3>2, <3>3 DEF Charged
    <2>6. CASE UNCHANGED jobs
      BY <1>3, <2>2, <2>3, <2>6
    <2> QED BY <2>1, <2>5, <2>6
  <1>9. ASSUME NEW r \in Requests, Enqueue(r)
        PROVE  CountedOnce'
    <2>1. req[r].pc = "enqueue" /\ UNCHANGED <<count, lost>>
      BY <1>9 DEF Enqueue
    <2>2. req[r].job \in Pairs /\ jobs[r][req[r].job] = "row"
      BY <2>1 DEF RequestFits, LoopFits
    <2>3. CASE req' = [req EXCEPT ![r].pc = "queue"] /\ UNCHANGED jobs
      BY <1>0, <1>1, <1>3, <2>1, <2>3 DEF ReqStates
    <2>4. CASE /\ jobs' = [jobs EXCEPT ![r][req[r].job] = "queued"]
               /\ req' = [req EXCEPT ![r].pc =
                            IF req[r].endpoint \in Pages THEN "queue" ELSE "count"]
      <3>1. /\ \A q \in Requests \ {r} : req'[q] = req[q] /\ jobs'[q] = jobs[q]
            /\ jobs'[r][req[r].job] = "queued"
            /\ \A i \in Pairs : i # req[r].job => jobs'[r][i] = jobs[r][i]
        BY <1>0, <2>2, <2>4, JobsChange DEF JobStates
      <3>2. /\ req'[r].endpoint = req[r].endpoint
            /\ req[r].endpoint \in Pages => req'[r].pc = "queue"
            /\ req[r].endpoint \notin Pages => req'[r].pc = "count"
        BY <1>0, <2>4 DEF ReqStates
      <3>3. CASE req[r].endpoint \in Pages
        BY <1>1, <1>2, <2>1, <3>1, <3>2, <3>3 DEF Charged
      <3>4. CASE req[r].endpoint \notin Pages
        <4>1. /\ req[r].job \notin Charged(r)
              /\ Charged(r)' = Charged(r) \cup {req[r].job}
          BY <2>2, <3>1, <3>2, <3>4 DEF Charged, QueuedBy, IsQueued, Pairs
        <4>2. /\ Cardinality(ChargedJobs) \in Nat
              /\ Cardinality(ChargedJobs)' = Cardinality(ChargedJobs) + 1
          BY <4>1, <2>2, <3>1, ChargedMoves
        <4>3. AtCount' = AtCount \cup {r} /\ r \notin AtCount
          BY <2>1, <3>1, <3>2, <3>4 DEF AtCount
        <4>4. Cardinality(AtCount') = Cardinality(AtCount) + 1
          BY <1>0, <4>3, FS_AddElement
        <4> QED BY <1>0, <2>1, <4>2, <4>4 DEF CountedOnce, AtCount
      <3> QED BY <3>3, <3>4
    <2> QED BY <1>9, <2>3, <2>4 DEF Enqueue
  <1>10. ASSUME NEW r \in Requests, IncrementTransformationCount(r)
         PROVE  CountedOnce'
    <2>1. /\ req'[r].pc = "queue" /\ req'[r].endpoint = req[r].endpoint
          /\ \A q \in Requests \ {r} : req'[q] = req[q]
      BY <1>10, <1>0 DEF IncrementTransformationCount, ReqStates
    <2>2. req[r].pc = "count" /\ UNCHANGED jobs
      BY <1>10 DEF IncrementTransformationCount
    <2>3. Charged(r)' = Charged(r)
      BY <2>1, <2>2 DEF Charged, QueuedBy, IsQueued
    <2>4. Cardinality(ChargedJobs) \in Nat /\ UNCHANGED ChargedJobs
      BY <2>1, <2>2, <2>3, ChargedMoves
    <2>5. AtCount' = AtCount \ {r} /\ r \in AtCount
      BY <2>1, <2>2 DEF AtCount
    <2>6. Cardinality(AtCount') = Cardinality(AtCount) - 1
      BY <1>0, <2>5, FS_RemoveElement
    <2>7. \/ count' = count + 1 /\ lost' = lost
          \/ count' = count /\ lost' = lost + 1
      BY <1>10 DEF IncrementTransformationCount
    <2>8. count + lost = Cardinality(ChargedJobs) - Cardinality(AtCount)
      BY DEF CountedOnce, AtCount
    <2>9. count' + lost' = Cardinality(ChargedJobs) - Cardinality(AtCount')
      BY <1>0, <2>4, <2>6, <2>7, <2>8, SMTT(30)
    <2> QED BY <2>4, <2>9 DEF CountedOnce, AtCount
  <1>11. ASSUME NEW r \in Requests, CreateBatchItem(r) \/ Finish(r) \/ MarkProcessing(r)
         PROVE  Same
    <2>1. PICK s \in {"queue", "mark", "answered"} :
            /\ req'[r].pc = s /\ req'[r].endpoint = req[r].endpoint
            /\ \A q \in Requests \ {r} : req'[q] = req[q]
      <3>1. CASE CreateBatchItem(r)
        BY <3>1, <1>0 DEF CreateBatchItem, ReqStates
      <3>2. CASE Finish(r) \/ MarkProcessing(r)
        <4>1. PICK s \in {"mark", "answered"} : req' = [req EXCEPT ![r].pc = s]
          BY <3>2 DEF Finish, MarkProcessing
        <4> QED BY <4>1, <1>0 DEF ReqStates
      <3> QED BY <1>11, <3>1, <3>2
    <2>2. req[r].pc \in {"queue", "mark"} /\ UNCHANGED <<jobs, count, lost>>
      BY <1>11 DEF CreateBatchItem, Finish, MarkProcessing
    <2> QED BY <1>3, <2>1, <2>2
  <1>12. ASSUME NEW r \in Requests, Work(r)
         PROVE  Same
    <2>1. PICK j \in Pairs : CreateVariant(r, j) \/ CompleteJob(r, j) \/ FailJob(r, j)
      BY <1>12 DEF Work, Pairs
    <2>2. PICK s \in JobStates \ {"none", "row"} :
            /\ jobs' = [jobs EXCEPT ![r][j] = s] /\ IsQueued(r, j)
            /\ UNCHANGED <<req, count, lost>>
      BY <2>1 DEF CreateVariant, CompleteJob, FailJob, MayTakeUp, IsQueued, JobStates
    <2>3. /\ \A q \in Requests \ {r} : jobs'[q] = jobs[q]
          /\ jobs'[r][j] = s /\ \A i \in Pairs : i # j => jobs'[r][i] = jobs[r][i]
      BY <2>2, JobsChange
    <2>4. QueuedBy(r)' = QueuedBy(r)
      BY <2>2, <2>3 DEF QueuedBy, IsQueued, Pairs
    <2> QED BY <1>2, <2>2, <2>3, <2>4 DEF Charged
  <1>13. CASE \/ \E f \in Files : SoftDeleteFile(f)
              \/ UpdateUserTier \/ UpdateUserSubscription \/ CancelUserSubscription
              \/ UNCHANGED vars
    <2>1. UNCHANGED <<req, jobs, count, lost>>
      BY <1>13 DEF SoftDeleteFile, UpdateUserTier, UpdateUserSubscription,
                   CancelUserSubscription, PlanChange, vars
    <2>2. Same
      BY <2>1 DEF ChargedJobs, AtCount, QueuedBy, IsQueued
    <2> QED BY <2>2, <1>1
  <1> HIDE DEF Same
  <1> QED BY <1>1, <1>4, <1>5, <1>6, <1>7, <1>8, <1>9, <1>10, <1>11, <1>12, <1>13
          DEF Next, Handle, Arrival

----------------------------------------------------------------------------
(* The invariant, from the first state on.                                 *)

TransformationsInv ==
  /\ TransformationsTypeOK
  /\ \A q \in Requests : RequestFits(q)
  /\ PeakHolds
  /\ OverrunBounded
  /\ CountedOnce

(* No request has been sent: nothing is in flight, queued or counted.      *)
LEMMA TransformationsInit == Init => TransformationsInv
  <1> SUFFICES ASSUME Init PROVE TransformationsInv
    OBVIOUS
  <1>1. /\ tier \in Tiers /\ limit \in Nat \cup {Unlimited}
        /\ limit = Unlimited => peak = 0
        /\ limit # Unlimited => peak = limit
    BY LimitIs, ConstantsAssumption DEF Init, Tiers
  <1>2. peak \in Nat
    BY <1>1
  <1>3. \A q \in Requests :
          /\ req[q] = Idle /\ items[q] = [f \in Files |-> {}]
          /\ jobs[q] = [j \in Pairs |-> "none"]
    BY DEF Init, Pairs
  <1>4. Idle \in ReqStates
    BY DEF Idle, ReqStates, Places, Endpoints, Tiers
  <1>5. TransformationsTypeOK
    <2>1. req \in [Requests -> ReqStates]
      BY <1>4 DEF Init
    <2>2. jobs \in [Requests -> [Pairs -> JobStates]]
      BY DEF Init, Pairs, JobStates
    <2> QED BY <1>1, <1>2, <2>1, <2>2 DEF Init, TransformationsTypeOK
  <1>6. ASSUME NEW q \in Requests PROVE RequestFits(q)
    <2>1. /\ req[q].pc = "unsent" /\ req[q].todo = {} /\ req[q].at = NoFile
          /\ q \notin batch
      BY <1>3 DEF Init, Idle
    <2> QED BY <1>3, <2>1 DEF RequestFits, PlaceFits, LoopFits, ItemsFit
  <1>7. PeakHolds
    BY <1>1, <1>2 DEF PeakHolds
  <1>8. OverrunBounded
    <2>1. \A q \in Requests : Left(q) = {}
      BY <1>3 DEF Left, Idle
    <2>2. {p \in Requests \X (Files \X Kinds) : p[2] \in Left(p[1])} = {}
      BY <2>1
    <2>3. InFlight(Requests) = 0
      BY <2>2, FS_EmptySet DEF InFlight
    <2>4. count = 0 /\ slack = 0 /\ blind = 0
      BY DEF Init
    <2> QED BY <1>2, <2>3, <2>4 DEF OverrunBounded
  <1>9. CountedOnce
    <2>1. \A q \in Requests : QueuedBy(q) = {}
      BY <1>3 DEF QueuedBy, IsQueued, Pairs
    <2>2. ChargedJobs = {}
      BY <2>1 DEF ChargedJobs
    <2>3. {r \in Requests : req[r].pc = "count"} = {}
      BY <1>3 DEF Idle
    <2>4. Cardinality({}) = 0 /\ count = 0 /\ lost = 0
      BY FS_EmptySet DEF Init
    <2> QED BY <2>2, <2>3, <2>4 DEF CountedOnce
  <1> QED BY <1>5, <1>6, <1>7, <1>8, <1>9 DEF TransformationsInv

\* Every reachable state is well typed, and its requests, limit and counts
\* are related as the code means them to be.
THEOREM TransformationsInvariance == Spec => []TransformationsInv
  <1>1. TransformationsInv /\ [Next]_vars => TransformationsInv'
    <2> SUFFICES ASSUME TransformationsInv, [Next]_vars PROVE TransformationsInv'
      OBVIOUS
    <2> USE DEF TransformationsInv
    <2>1. TransformationsTypeOK'
      BY TransformationsTypeStep
    <2>2. \A q \in Requests : RequestFits(q)'
      BY RequestStep
    <2>3. PeakHolds'
      BY PeakStep
    <2>4. OverrunBounded'
      BY <2>1, <2>2, OverrunStep
    <2>5. CountedOnce'
      BY CountStep
    <2> QED BY <2>1, <2>2, <2>3, <2>4, <2>5
  <1> QED BY TransformationsInit, <1>1, PTL DEF Spec

\* Whatever overlaps, the count passes the plan's largest limit only by what
\* others had in flight at a check and what was let in unchecked.
THEOREM OverrunIsBounded == Spec => []OverrunBounded
  <1>1. TransformationsInv => OverrunBounded
    BY DEF TransformationsInv
  <1> QED BY <1>1, TransformationsInvariance, PTL

\* A job the API queued is counted once, but for a count that failed.
THEOREM EveryJobIsCounted == Spec => []CountedOnce
  <1>1. TransformationsInv => CountedOnce
    BY DEF TransformationsInv
  <1> QED BY <1>1, TransformationsInvariance, PTL

\* The items of an answered batch name exactly the jobs queued for each file.
THEOREM BatchesAccount == Spec => []BatchAccountsForJobs
  <1>1. TransformationsInv => BatchAccountsForJobs
    <2> SUFFICES ASSUME TransformationsInv PROVE BatchAccountsForJobs
      OBVIOUS
    <2>1. \A r \in batch : r \in Requests /\ ItemsFit(r)
      BY DEF TransformationsInv, TransformationsTypeOK, RequestFits
    <2> QED BY <2>1 DEF BatchAccountsForJobs, ItemsFit
  <1> QED BY <1>1, TransformationsInvariance, PTL
=============================================================================
