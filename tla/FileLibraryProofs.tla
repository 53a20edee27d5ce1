-------------------------- MODULE FileLibraryProofs -------------------------
(***************************************************************************)
(* Theorems of FileLibrary for any number of files, uploads and failures,  *)
(* any plan limit and any batch size of the cleanup.                       *)
(***************************************************************************)
EXTENDS FileLibrary, FiniteSetTheorems, TLAPS

LEMMA InitIInv == Init => IInv
  <1> SUFFICES ASSUME Init PROVE IInv
    OBVIOUS
  <1>1. TypeOK
    <2>1. 0 \in 0 .. MaxAge /\ 0 \in 0 .. MaxFailures /\ 0 \in Nat
      BY ConstantsAssumption
    <2>2. /\ row \in [Files -> {"none", "live", "deleted", "purged"}]
          /\ upload \in [Slots -> {"idle", "put", "insert"}]
          /\ uploading \in [Slots -> Files \cup {NoFile}]
      BY DEF Init
    <2>3. age \in [Files -> 0 .. MaxAge]
      BY <2>1 DEF Init
    <2> QED
      BY <2>1, <2>2, <2>3 DEF Init, TypeOK
  <1>2. Live = {} /\ Busy = {}
    BY DEF Init, Live, Busy
  <1>3. DataInv
    BY <1>1, <1>2, ConstantsAssumption
       DEF Init, DataInv, SeatInv, EmptiedInv, CleanupInv, EraseInv,
           KeptFileHasOriginal, NoForgottenObject
  <1>4. RoomInv
    BY <1>2, ConstantsAssumption, FS_EmptySet, FS_CardinalityType
       DEF Init, RoomInv
  <1> QED
    BY <1>3, <1>4 DEF IInv

(* Seating: every new part of a form gets a file that nobody has seen.     *)
LEMMA SeatStep ==
  ASSUME DataInv, NEW seats \in SUBSET (Slots \ Busy), Seat(seats),
         UNCHANGED <<row, age, original, emptied, retention, cleanup, eraser,
                     doomed, unmarked, stray>>,
         unchecked' \in Nat, failures' \in 0 .. MaxFailures
  PROVE  DataInv' /\ Busy' = Busy \cup seats
  <1> USE DEF DataInv
  <1>1. PICK place \in [seats -> Fresh] :
          /\ \A s, t \in seats : place[s] = place[t] => s = t
          /\ upload' = [s \in Slots |-> IF s \in seats THEN "put" ELSE upload[s]]
          /\ uploading' = [s \in Slots |-> IF s \in seats THEN place[s]
                                                         ELSE uploading[s]]
    <2> DEFINE place == CHOOSE p \in Placings(seats) : TRUE
    <2>1. place \in Placings(seats)
      BY DEF Seat
    <2>2. /\ place \in [seats -> Fresh]
          /\ \A s, t \in seats : place[s] = place[t] => s = t
      BY <2>1 DEF Placings
    <2> QED
      BY <2>2 DEF Seat
  <1>2. Busy' = Busy \cup seats
    BY <1>1 DEF Busy
  <1>3. \A s \in seats : /\ place[s] \in Files /\ row[place[s]] = "none"
                        /\ place[s] \notin InUpload /\ place[s] \notin original
    BY <1>1 DEF Fresh
  <1>4. TypeOK'
    BY <1>1, <1>3 DEF TypeOK, cleanup, eraser
  <1>5. SeatInv'
    BY <1>1, <1>2, <1>3 DEF SeatInv, InUpload, Busy
  <1>6. InUpload \subseteq InUpload'
    BY <1>1, <1>2 DEF InUpload, Busy
  <1>7. NoForgottenObject'
    BY <1>6 DEF NoForgottenObject
  <1>8. EmptiedInv' /\ CleanupInv' /\ EraseInv' /\ KeptFileHasOriginal'
    BY DEF EmptiedInv, CleanupInv, EraseInv, KeptFileHasOriginal, Live,
           cleanup, eraser
  <1> QED
    BY <1>2, <1>4, <1>5, <1>7, <1>8

LEMMA AdmitStep ==
  ASSUME IInv, NEW seats \in SUBSET (Slots \ Busy),
         Admit(seats) \/ AdmitUncounted(seats)
  PROVE  IInv'
  <1> USE DEF IInv
  <1>0. unchecked \in Nat /\ IsFiniteSet(Slots) /\ IsFiniteSet(Files)
    BY ConstantsAssumption DEF DataInv, TypeOK
  <1>1. /\ IsFiniteSet(Live) /\ IsFiniteSet(Busy) /\ IsFiniteSet(seats)
        /\ Cardinality(Live) \in Nat /\ Cardinality(Busy) \in Nat
        /\ Cardinality(seats) \in Nat /\ Cardinality(Slots) \in Nat
    BY <1>0, FS_Subset, FS_CardinalityType DEF Live, Busy
  <1>2. CASE Admit(seats)
    <2>1. DataInv' /\ Busy' = Busy \cup seats
      BY <1>2, SeatStep DEF Admit, DataInv, TypeOK
    <2>2. Cardinality(Busy') <= Cardinality(Slots) /\ Cardinality(Busy') \in Nat
      BY <1>0, <2>1, FS_Subset, FS_CardinalityType DEF Busy
    <2>3. Live' = Live /\ unchecked' = unchecked
      BY <1>2 DEF Admit, Live
    <2>4. Cardinality(Live) < FilesLimit
      BY <1>2 DEF Admit, UnderLimit
    <2>5. RoomInv'
      BY <1>0, <1>1, <2>2, <2>3, <2>4, ConstantsAssumption DEF RoomInv
    <2> QED
      BY <2>1, <2>5
  <1>3. CASE AdmitUncounted(seats)
    <2>1. DataInv' /\ Busy' = Busy \cup seats
      BY <1>0, <1>1, <1>3, SeatStep, ConstantsAssumption
         DEF AdmitUncounted, Fails, DataInv, TypeOK
    <2>2. /\ Cardinality(Busy') <= Cardinality(Busy) + Cardinality(seats)
          /\ Cardinality(Busy') \in Nat
      <3>1. IsFiniteSet(Busy \cap seats) /\ Cardinality(Busy \cap seats) \in Nat
        BY <1>1, FS_Intersection, FS_CardinalityType
      <3>2. Cardinality(Busy') = Cardinality(Busy) + Cardinality(seats)
                                   - Cardinality(Busy \cap seats)
        BY <1>1, <2>1, FS_Union
      <3>3. Cardinality(Busy') \in Nat
        BY <1>1, <2>1, FS_Union, FS_CardinalityType
      <3> QED
        BY <1>1, <3>1, <3>2, <3>3
    <2>3. Live' = Live /\ unchecked' = unchecked + Cardinality(seats)
      BY <1>3 DEF AdmitUncounted, Live
    <2>4. RoomInv'
      BY <1>0, <1>1, <2>2, <2>3, ConstantsAssumption DEF RoomInv
    <2> QED
      BY <2>1, <2>4
  <1> QED
    BY <1>2, <1>3

(* A step that neither adds a live file nor takes a seat leaves room.      *)
LEMMA RoomKept ==
  ASSUME RoomInv, TypeOK, Live' \subseteq Live, Busy' \subseteq Busy,
         UNCHANGED unchecked
  PROVE  RoomInv'
  <1>1. /\ IsFiniteSet(Live) /\ IsFiniteSet(Busy)
        /\ Cardinality(Slots) \in Nat /\ unchecked \in Nat
    BY ConstantsAssumption, FS_Subset, FS_CardinalityType
       DEF TypeOK, Live, Busy
  <1>2. /\ Cardinality(Live') <= Cardinality(Live)
        /\ Cardinality(Busy') <= Cardinality(Busy)
        /\ Cardinality(Live) \in Nat /\ Cardinality(Busy) \in Nat
        /\ Cardinality(Live') \in Nat /\ Cardinality(Busy') \in Nat
    BY <1>1, FS_Subset, FS_CardinalityType
  <1> QED
    BY <1>1, <1>2, ConstantsAssumption DEF RoomInv

(* The two calls of an upload.                                             *)
LEMMA PutStep == ASSUME IInv, NEW s \in Slots, PutObject(s) PROVE IInv'
  <1> USE DEF IInv, DataInv
  <1>1. s \in Busy /\ uploading[s] \in Files /\ row[uploading[s]] = "none"
    BY DEF PutObject, Busy, SeatInv
  <1>2. TypeOK'
    BY <1>1, ConstantsAssumption DEF PutObject, Leave, Fails, TypeOK, cleanup, eraser
  <1>3. Busy' \subseteq Busy /\ Live' = Live /\ unchecked' = unchecked
    BY DEF PutObject, Leave, Busy, Live, TypeOK
  <1>4. RoomInv'
    BY <1>3, RoomKept
  <1>5. SeatInv'
    BY <1>1 DEF PutObject, Leave, SeatInv, Busy, TypeOK
  <1>6. EmptiedInv' /\ KeptFileHasOriginal'
    BY <1>1 DEF PutObject, EmptiedInv, KeptFileHasOriginal, Live
  <1>7. CleanupInv'
    <2>1. item # uploading[s]
      BY <1>1, ConstantsAssumption DEF CleanupInv, TypeOK
    <2> QED
      BY <1>1, <2>1 DEF PutObject, CleanupInv, cleanup
  <1>8. EraseInv'
    BY DEF PutObject, EraseInv, eraser
  <1>9. NoForgottenObject'
    <2>1. uploading[s] \in InUpload' \cup stray' \/ uploading[s] \notin original'
      BY <1>1 DEF PutObject, InUpload, Busy, Leave, TypeOK, SeatInv
    <2>2. \A f \in InUpload : f = uploading[s] \/ f \in InUpload'
      BY DEF PutObject, InUpload, Busy, Leave, TypeOK
    <2>3. row' = row /\ original' \subseteq original \cup {uploading[s]}
          /\ stray \subseteq stray'
      BY DEF PutObject
    <2> QED
      BY <2>1, <2>2, <2>3 DEF NoForgottenObject
  <1> QED
    BY <1>2, <1>4, <1>5, <1>6, <1>7, <1>8, <1>9

LEMMA CreateStep == ASSUME IInv, NEW s \in Slots, CreateFile(s) PROVE IInv'
  <1> USE DEF IInv, DataInv
  <1>1. /\ s \in Busy /\ uploading[s] \in Files /\ row[uploading[s]] = "none"
        /\ uploading[s] \in original
    BY DEF CreateFile, Busy, SeatInv
  <1>2. TypeOK'
    BY <1>1, ConstantsAssumption DEF CreateFile, Leave, Fails, TypeOK, cleanup, eraser
  <1>3. Busy' = Busy \ {s} /\ unchecked' = unchecked
    BY DEF CreateFile, Leave, Busy, TypeOK
  <1>4. Live' = Live \/ Live' = Live \cup {uploading[s]}
    BY <1>1 DEF CreateFile, Live, TypeOK
  <1>5. uploading[s] \notin Live
    BY <1>1 DEF Live
  <1>6. RoomInv'
    <2>1. CASE Live' = Live
      BY <1>3, <2>1, RoomKept
    <2>2. CASE Live' = Live \cup {uploading[s]}
      <3>1. /\ IsFiniteSet(Live) /\ IsFiniteSet(Busy)
            /\ Cardinality(Live) \in Nat /\ Cardinality(Busy) \in Nat
            /\ Cardinality(Slots) \in Nat /\ unchecked \in Nat
        BY ConstantsAssumption, FS_Subset, FS_CardinalityType
           DEF TypeOK, Live, Busy
      <3>2. Cardinality(Live') = Cardinality(Live) + 1
        BY <1>5, <2>2, <3>1, FS_AddElement
      <3>3. Cardinality(Busy') = Cardinality(Busy) - 1
        BY <1>1, <1>3, <3>1, FS_RemoveElement
      <3> QED
        BY <1>3, <3>1, <3>2, <3>3, ConstantsAssumption DEF RoomInv
    <2> QED
      BY <1>4, <2>1, <2>2
  <1>7. SeatInv'
    BY <1>1, <1>3 DEF CreateFile, Leave, SeatInv, Busy, TypeOK
  <1>8. EmptiedInv' /\ KeptFileHasOriginal'
    BY <1>1 DEF CreateFile, EmptiedInv, KeptFileHasOriginal, Live, TypeOK
  <1>9. CleanupInv'
    <2>1. item # uploading[s]
      BY <1>1, ConstantsAssumption DEF CleanupInv, TypeOK
    <2>2. uploading[s] \notin batch
      BY <1>1 DEF CleanupInv, TypeOK
    <2> QED
      BY <1>1, <2>1, <2>2 DEF CreateFile, CleanupInv, cleanup, TypeOK
  <1>10. EraseInv'
    <2>1. erase # "idle" => erasing # uploading[s]
      BY <1>1 DEF EraseInv
    <2> QED
      BY <1>1, <2>1 DEF CreateFile, EraseInv, eraser, TypeOK
  <1>11. NoForgottenObject'
    <2>1. \A f \in InUpload : f = uploading[s] \/ f \in InUpload'
      BY <1>3 DEF CreateFile, InUpload, Busy, Leave, TypeOK
    <2>2. original' = original /\ stray \subseteq stray'
      BY DEF CreateFile
    <2>3. uploading[s] \in stray' \/ row'[uploading[s]] = "live"
      BY <1>1 DEF CreateFile, TypeOK
    <2>4. \A f \in Files : f # uploading[s] => row'[f] = row[f]
      BY <1>1 DEF CreateFile, TypeOK
    <2> QED
      BY <2>1, <2>2, <2>3, <2>4 DEF NoForgottenObject, TypeOK
  <1> QED
    BY <1>2, <1>6, <1>7, <1>8, <1>9, <1>10, <1>11

(* Soft-deleting a row touches no other row, and no row that is not live.  *)
LEMMA SoftDeleteFacts ==
  ASSUME TypeOK, NEW f \in Files, SoftDelete(f)
  PROVE  /\ row' \in [Files -> {"none", "live", "deleted", "purged"}]
         /\ age' \in [Files -> 0 .. MaxAge]
         /\ doomed' \in SUBSET Files
         /\ unmarked' \in SUBSET Files
         /\ Live' = Live \ {f}
         /\ \A g \in Files :
              \/ /\ row'[g] = row[g] /\ age'[g] = age[g]
                 /\ g \in doomed => g \in doomed'
                 /\ g \in unmarked <=> g \in unmarked'
              \/ /\ g = f /\ row[g] = "live" /\ row'[g] = "deleted"
                 /\ g \notin unmarked'
  <1>1. CASE row[f] = "live"
    <2>1. /\ row' = [row EXCEPT ![f] = "deleted"]
          /\ age' = [age EXCEPT ![f] = 0]
          /\ doomed' = doomed \ {f} /\ unmarked' = unmarked \ {f}
      BY <1>1 DEF SoftDelete
    <2>2. /\ row' \in [Files -> {"none", "live", "deleted", "purged"}]
          /\ doomed' \in SUBSET Files /\ unmarked' \in SUBSET Files
          /\ \A g \in Files : g # f => row'[g] = row[g] /\ age'[g] = age[g]
          /\ row'[f] = "deleted"
      BY <2>1 DEF TypeOK
    <2>3. age' \in [Files -> 0 .. MaxAge]
      BY <2>1, ConstantsAssumption DEF TypeOK
    <2>4. \A g \in Files : row'[g] = "live" <=> row[g] = "live" /\ g # f
      BY <2>2
    <2>5. Live' = Live \ {f}
      BY <2>4 DEF Live
    <2>6. \A g \in Files : g # f => (g \in doomed => g \in doomed')
      BY <2>1
    <2>7. \A g \in Files : g # f => (g \in unmarked <=> g \in unmarked')
      BY <2>1
    <2>8. f \notin unmarked'
      BY <2>1
    <2> QED
      BY <1>1, <2>2, <2>3, <2>5, <2>6, <2>7, <2>8
  <1>2. CASE row[f] # "live"
    <2>1. row' = row /\ age' = age /\ doomed' = doomed /\ unmarked' = unmarked
      BY <1>2 DEF SoftDelete
    <2>2. f \notin Live /\ Live' = Live
      BY <1>2, <2>1 DEF Live
    <2> QED
      BY <2>1, <2>2 DEF TypeOK
  <1> QED
    BY <1>1, <1>2

LEMMA SoftDeleteKeeps ==
  ASSUME DataInv, NEW f \in Files, SoftDelete(f),
         UNCHANGED <<original, emptied, retention, uploads, cleanup, stray>>,
         \/ UNCHANGED eraser
         \/ erase' = "idle" /\ erasing' = NoFile,
         failures' \in 0 .. MaxFailures
  PROVE  DataInv' /\ Live' \subseteq Live /\ Busy' = Busy
  <1> USE DEF DataInv, uploads, cleanup, eraser
  <1>0. Busy' = Busy /\ InUpload' = InUpload
    BY DEF Busy, InUpload
  <1>1. Live' \subseteq Live
    BY SoftDeleteFacts
  <1>2. TypeOK'
    BY SoftDeleteFacts DEF TypeOK
  <1>3. SeatInv'
    BY <1>0, SoftDeleteFacts DEF SeatInv
  <1>4. EmptiedInv'
    BY SoftDeleteFacts DEF EmptiedInv, TypeOK
  <1>5. CleanupInv'
    <2>1. /\ pass' = pass /\ batch' = batch /\ item' = item
          /\ original' = original /\ stray' = stray
      OBVIOUS
    <2>2. \A g \in Files : g \in batch \/ g = item =>
            /\ pass = "trash" => row'[g] = "deleted" /\ age'[g] >= TrashDays
            /\ pass = "retention" => \/ row'[g] = "live" /\ g \in doomed'
                                     \/ row'[g] = "deleted"
      BY SoftDeleteFacts DEF CleanupInv
    <2> QED
      BY <2>1, <2>2 DEF CleanupInv
  <1>6. EraseInv'
    BY SoftDeleteFacts DEF EraseInv
  <1>7. KeptFileHasOriginal'
    BY SoftDeleteFacts DEF KeptFileHasOriginal, Live
  <1>8. NoForgottenObject'
    BY <1>0, SoftDeleteFacts DEF NoForgottenObject, TypeOK
  <1> QED
    BY <1>0, <1>1, <1>2, <1>3, <1>4, <1>5, <1>6, <1>7, <1>8

(* The owner: settings, deletes, and the job that deletes an original.     *)
LEMMA OwnerStep == IInv /\ Owner => IInv'
  <1> SUFFICES ASSUME IInv, Owner PROVE IInv'
    OBVIOUS
  <1> USE DEF IInv, DataInv, uploads, cleanup, eraser
  <1>0. Busy' = Busy /\ InUpload' = InUpload /\ UNCHANGED <<uploads, cleanup>>
    BY DEF Owner, SaveFileSettings, DeleteFile, BeginErase, DropOriginal,
           MarkOriginalDeleted, EraseObject, EraseRow, Busy, InUpload
  <1>1. ASSUME NEW days \in Retentions, SaveFileSettings(days) PROVE IInv'
    <2>1. Live' = Live
      BY <1>1 DEF SaveFileSettings, Live
    <2>2. RoomInv'
      BY <1>0, <2>1, RoomKept
    <2> QED
      BY <1>0, <1>1, <2>1, <2>2
         DEF SaveFileSettings, TypeOK, SeatInv, EmptiedInv, CleanupInv, EraseInv,
             KeptFileHasOriginal, NoForgottenObject
  <1>2. ASSUME NEW f \in Files, DeleteFile(f) PROVE IInv'
    <2>1. DataInv' /\ Live' \subseteq Live
      BY <1>2, SoftDeleteKeeps DEF DeleteFile, TypeOK
    <2> QED
      BY <1>0, <2>1, RoomKept
  <1>3. ASSUME NEW f \in Files, BeginErase(f) PROVE IInv'
    <2>1. Live' = Live
      BY <1>3 DEF BeginErase, Live
    <2>2. RoomInv'
      BY <1>0, <2>1, RoomKept
    <2> QED
      BY <1>0, <1>3, <2>1, <2>2
         DEF BeginErase, TypeOK, SeatInv, EmptiedInv, CleanupInv, EraseInv,
             KeptFileHasOriginal, NoForgottenObject
  <1>4. ASSUME NEW f \in Files, DropOriginal(f) PROVE IInv'
    <2>1. Live' = Live
      BY <1>4 DEF DropOriginal, Live
    <2>2. RoomInv'
      BY <1>0, <2>1, RoomKept
    <2>3. /\ original' = original \ {f} /\ stray' = stray \ {f}
          /\ unmarked' = IF row[f] = "live" THEN unmarked \cup {f} ELSE unmarked
          /\ row[f] \in {"live", "deleted"}
      BY <1>4 DEF DropOriginal
    <2>4. TypeOK'
      BY <1>4, <2>3 DEF DropOriginal, TypeOK
    <2>5. SeatInv'
      <3>1. \A s \in Busy : uploading[s] # f
        BY <2>3 DEF SeatInv
      <3> QED
        BY <1>0, <1>4, <2>3, <3>1 DEF DropOriginal, SeatInv
    <2>6. EmptiedInv' /\ EraseInv' /\ CleanupInv'
      BY <1>0, <1>4, <2>3 DEF DropOriginal, EmptiedInv, EraseInv, CleanupInv
    <2>7. KeptFileHasOriginal'
      BY <1>4, <2>1, <2>3 DEF DropOriginal, KeptFileHasOriginal, Live
    <2>8. NoForgottenObject'
      BY <1>0, <1>4, <2>3 DEF DropOriginal, NoForgottenObject
    <2> QED
      BY <2>2, <2>4, <2>5, <2>6, <2>7, <2>8
  <1>7. ASSUME NEW f \in Files, MarkOriginalDeleted(f) PROVE IInv'
    <2>1. Live' = Live
      BY <1>7 DEF MarkOriginalDeleted, Live
    <2>2. RoomInv'
      BY <1>0, <2>1, RoomKept
    <2> QED
      BY <1>0, <1>7, <2>1, <2>2
         DEF MarkOriginalDeleted, TypeOK, SeatInv, EmptiedInv, CleanupInv,
             EraseInv, KeptFileHasOriginal, NoForgottenObject
  <1>5. CASE EraseObject
    <2>1. Live' = Live
      BY <1>5 DEF EraseObject, Live
    <2>2. RoomInv'
      BY <1>0, <2>1, RoomKept
    <2>3. TypeOK'
      BY <1>5, ConstantsAssumption DEF EraseObject, Fails, TypeOK
    <2>4. /\ original' \subseteq original /\ stray' \subseteq stray
          /\ \A f \in Files :
               f # erasing => /\ f \in original => f \in original'
                              /\ f \in stray => f \in stray'
          /\ erasing \in stray' \/ erasing \notin original' \/ stray' = stray
      BY <1>5 DEF EraseObject
    <2>5. SeatInv'
      <3>1. erasing \in Files /\ \A s \in Busy : uploading[s] # erasing
        BY <1>5 DEF EraseObject, EraseInv, SeatInv
      <3> QED
        BY <1>0, <1>5, <2>4, <3>1 DEF EraseObject, SeatInv
    <2>6. EmptiedInv' /\ EraseInv' /\ KeptFileHasOriginal'
      BY <1>5, <2>4 DEF EraseObject, EmptiedInv, EraseInv, KeptFileHasOriginal,
                       Live, TypeOK
    <2>7. CleanupInv' /\ NoForgottenObject'
      BY <1>0, <1>5, <2>4 DEF EraseObject, CleanupInv, NoForgottenObject, TypeOK
    <2> QED
      BY <2>2, <2>3, <2>5, <2>6, <2>7
  <1>6. CASE EraseRow
    <2>0. erasing \in Files
      BY <1>6 DEF EraseRow, EraseInv
    <2>1. CASE SoftDelete(erasing) /\ UNCHANGED failures
      <3>1. DataInv' /\ Live' \subseteq Live
        BY <1>6, <2>0, <2>1, SoftDeleteKeeps DEF EraseRow, TypeOK
      <3> QED
        BY <1>0, <3>1, RoomKept
    <2>2. CASE Fails /\ UNCHANGED <<row, age, doomed, unmarked>>
      <3>1. Live' = Live
        BY <2>2 DEF Live
      <3>2. RoomInv'
        BY <1>0, <3>1, RoomKept
      <3>3. TypeOK'
        BY <1>6, <2>2, ConstantsAssumption DEF EraseRow, Fails, TypeOK
      <3> QED
        BY <1>0, <1>6, <2>2, <3>1, <3>2, <3>3
           DEF EraseRow, SeatInv, EmptiedInv, CleanupInv, EraseInv,
               KeptFileHasOriginal, NoForgottenObject
    <2> QED
      BY <1>6, <2>1, <2>2 DEF EraseRow
  <1> QED
    BY <1>1, <1>2, <1>3, <1>4, <1>5, <1>6, <1>7 DEF Owner

(* The cleanup: what it listed stays listed for a reason until its row has *)
(* been dealt with.                                                        *)
LEMMA ListStep == IInv /\ ListBatch => IInv'
  <1> SUFFICES ASSUME IInv, ListBatch PROVE IInv'
    OBVIOUS
  <1> USE DEF IInv, DataInv, uploads, cleanup, eraser
  <1>0. /\ Busy' = Busy /\ InUpload' = InUpload /\ Live' = Live
        /\ UNCHANGED <<row, age, original, emptied, unmarked, retention, uploads,
                       pass, item, eraser, stray>>
    BY DEF ListBatch, Busy, InUpload, Live
  <1>1. RoomInv'
    BY <1>0, RoomKept
  <1>2. CASE Fails /\ more' = FALSE /\ UNCHANGED <<batch, doomed>>
    <2>0. failures' \in 0 .. MaxFailures
      BY <1>2, ConstantsAssumption DEF Fails, TypeOK
    <2>1. TypeOK'
      BY <1>0, <1>2, <2>0 DEF TypeOK
    <2> QED
      BY <1>0, <1>1, <1>2, <2>1
         DEF SeatInv, EmptiedInv, CleanupInv, EraseInv, KeptFileHasOriginal,
             NoForgottenObject
  <1>3. CASE \E files \in SUBSET Listed :
               /\ batch' = files
               /\ more' = (Cardinality(files) = BatchSize)
               /\ doomed' = IF pass = "retention" THEN doomed \cup files ELSE doomed
               /\ UNCHANGED failures
    <2>1. PICK files \in SUBSET Listed :
            /\ batch' = files
            /\ more' = (Cardinality(files) = BatchSize)
            /\ doomed' = IF pass = "retention" THEN doomed \cup files ELSE doomed
            /\ UNCHANGED failures
      BY <1>3
    <2>2. Listed \subseteq Files
      BY DEF Listed, ExpiredTrash, PastRetention, Trash, Live
    <2>3. TypeOK'
      BY <1>0, <2>1, <2>2 DEF TypeOK
    <2>4. item = NoFile /\ batch = {} /\ doomed \subseteq doomed'
      BY <2>1 DEF ListBatch, BatchDone
    <2>5. CleanupInv'
      <3>1. CASE pass = "trash"
        BY <1>0, <2>1, <2>4, <3>1, ConstantsAssumption
           DEF CleanupInv, Listed, ExpiredTrash, Trash
      <3>2. CASE pass = "retention"
        BY <1>0, <2>1, <2>4, <3>2, ConstantsAssumption
           DEF CleanupInv, Listed, PastRetention, Live
      <3> QED
        BY <3>1, <3>2 DEF ListBatch, TypeOK
    <2>6. SeatInv' /\ EmptiedInv' /\ EraseInv' /\ KeptFileHasOriginal'
          /\ NoForgottenObject'
      BY <1>0, <2>4 DEF SeatInv, EmptiedInv, EraseInv, KeptFileHasOriginal,
                       NoForgottenObject
    <2> QED
      BY <1>1, <2>3, <2>5, <2>6
  <1> QED
    BY <1>2, <1>3 DEF ListBatch

LEMMA DeleteObjectStep ==
  ASSUME IInv, NEW f \in Files, DeleteObject(f) PROVE IInv'
  <1> USE DEF IInv, DataInv, uploads, cleanup, eraser
  <1>0. /\ Busy' = Busy /\ InUpload' = InUpload /\ Live' = Live
        /\ UNCHANGED <<row, age, emptied, retention, uploads, pass, more, eraser,
                       doomed, unmarked>>
    BY DEF DeleteObject, Busy, InUpload, Live
  <1>1. RoomInv'
    BY <1>0, RoomKept
  <1>2. TypeOK'
    BY ConstantsAssumption DEF DeleteObject, Fails, TypeOK
  <1>3. /\ item' = f /\ batch' = batch \ {f} /\ f \in batch
        /\ original' \subseteq original
        /\ \A g \in Files :
             g # f => /\ g \in original => g \in original'
                      /\ g \in stray => g \in stray'
        /\ f \in original' => f \in stray'
    BY DEF DeleteObject, EmptiedInv, TypeOK
  <1>4. CleanupInv'
    BY <1>0, <1>3 DEF CleanupInv
  <1>5. row[f] \in {"live", "deleted"} /\ (row[f] = "live" => f \in doomed)
    BY <1>3 DEF CleanupInv, TypeOK
  <1>6. SeatInv'
    <2>1. \A s \in Busy : uploading[s] # f
      BY <1>5 DEF SeatInv
    <2> QED
      BY <1>0, <1>3, <2>1 DEF SeatInv
  <1>7. EmptiedInv' /\ EraseInv'
    BY <1>0, <1>3 DEF EmptiedInv, EraseInv
  <1>8. KeptFileHasOriginal'
    <2>1. \A g \in Live : g \in Files /\ (g = f => g \in doomed)
      BY <1>5 DEF Live
    <2> QED
      BY <1>0, <1>3, <2>1 DEF KeptFileHasOriginal
  <1>9. NoForgottenObject'
    BY <1>0, <1>3 DEF NoForgottenObject, TypeOK
  <1> QED
    BY <1>1, <1>2, <1>4, <1>6, <1>7, <1>8, <1>9

LEMMA DeleteRowStep == IInv /\ DeleteRow => IInv'
  <1> SUFFICES ASSUME IInv, DeleteRow PROVE IInv'
    OBVIOUS
  <1> USE DEF IInv, DataInv, uploads, cleanup, eraser
  <1>0. /\ item \in Files /\ item' = NoFile /\ NoFile \notin Files
        /\ UNCHANGED <<original, retention, uploads, pass, more, batch, eraser,
                       stray>>
        /\ Busy' = Busy /\ InUpload' = InUpload
    BY ConstantsAssumption DEF DeleteRow, TypeOK, Busy, InUpload
  <1>1. CASE pass = "trash" /\ row' = [row EXCEPT ![item] = "purged"]
             /\ age' = [age EXCEPT ![item] = 0] /\ emptied' = emptied \ {item}
             /\ UNCHANGED <<doomed, unmarked, failures>>
    <2>1. row[item] = "deleted"
      BY <1>0, <1>1 DEF CleanupInv
    <2>2. TypeOK'
      BY <1>0, <1>1, ConstantsAssumption DEF TypeOK
    <2>3. Live' = Live
      BY <1>0, <1>1, <2>1 DEF Live, TypeOK
    <2>4. RoomInv'
      BY <1>0, <2>3, RoomKept
    <2>5. \A g \in Files : g # item => row'[g] = row[g] /\ age'[g] = age[g]
      BY <1>0, <1>1 DEF TypeOK
    <2>6. row'[item] = "purged"
      BY <1>0, <1>1 DEF TypeOK
    <2>7. SeatInv' /\ KeptFileHasOriginal'
      BY <1>0, <1>1, <2>1, <2>3, <2>5, <2>6 DEF SeatInv, KeptFileHasOriginal, Live
    <2>8. EmptiedInv'
      BY <1>0, <1>1, <2>1, <2>5 DEF EmptiedInv, TypeOK
    <2>9. EraseInv'
      BY <1>0, <1>1, <2>1, <2>5, <2>6 DEF EraseInv
    <2>10. NoForgottenObject'
      BY <1>0, <1>1, <2>5, <2>6 DEF NoForgottenObject, CleanupInv, TypeOK
    <2>11. CASE item \notin batch
      <3>1. CleanupInv'
        BY <1>0, <1>1, <2>5, <2>11 DEF CleanupInv, TypeOK
      <3> QED
        BY <2>2, <2>4, <2>7, <2>8, <2>9, <2>10, <3>1
    <2> QED
      BY <2>11 DEF CleanupInv
  <1>2. CASE \/ pass = "retention" /\ SoftDelete(item) /\ UNCHANGED <<emptied, failures>>
             \/ Fails /\ UNCHANGED <<row, age, emptied, doomed, unmarked>>
    <2>1. failures' \in 0 .. MaxFailures
      BY <1>2, ConstantsAssumption DEF Fails, TypeOK
    <2>2. SoftDelete(item) \/ UNCHANGED <<row, age, doomed, unmarked>>
      BY <1>2
    <2>3. /\ row' \in [Files -> {"none", "live", "deleted", "purged"}]
          /\ age' \in [Files -> 0 .. MaxAge]
          /\ doomed' \in SUBSET Files /\ unmarked' \in SUBSET Files
          /\ Live' \subseteq Live
          /\ \A g \in Files :
               \/ /\ row'[g] = row[g] /\ age'[g] = age[g]
                  /\ g \in doomed => g \in doomed'
                  /\ g \in unmarked <=> g \in unmarked'
               \/ /\ row[g] = "live" /\ row'[g] = "deleted"
                  /\ g \notin unmarked'
      <3>1. CASE SoftDelete(item)
        BY <1>0, <3>1, SoftDeleteFacts
      <3>2. CASE UNCHANGED <<row, age, doomed, unmarked>>
        BY <3>2 DEF TypeOK, Live
      <3> QED
        BY <2>2, <3>1, <3>2
    <2>4. TypeOK'
      BY <1>0, <1>2, <2>1, <2>3 DEF TypeOK
    <2>5. RoomInv'
      BY <1>0, <2>3, RoomKept
    <2>6. SeatInv' /\ EraseInv'
      BY <1>0, <2>3 DEF SeatInv, EraseInv
    <2>7. EmptiedInv'
      BY <1>0, <1>2, <2>3 DEF EmptiedInv, TypeOK
    <2>8. KeptFileHasOriginal'
      BY <1>0, <1>2, <2>3 DEF KeptFileHasOriginal, Live
    <2>9. NoForgottenObject'
      BY <1>0, <2>3 DEF NoForgottenObject, TypeOK
    <2>10. CleanupInv'
      <3>1. \A g \in batch : g \in Files
        BY DEF TypeOK
      <3> QED
        BY <1>0, <2>3, <3>1 DEF CleanupInv, TypeOK
    <2> QED
      BY <2>4, <2>5, <2>6, <2>7, <2>8, <2>9, <2>10
  <1> QED
    BY <1>1, <1>2 DEF DeleteRow

-----------------------------------------------------------------------------
(* Starting, advancing and stopping the cleanup.                           *)
LEMMA PassStep ==
  ASSUME IInv, StartCleanup \/ NextPass \/ StopCleanup PROVE IInv'
  <1> USE DEF IInv, DataInv, uploads, cleanup, eraser
  <1>a. NoFile \notin Files /\ batch' = {} /\ item' = NoFile
    <2>1. CASE StartCleanup
      BY <2>1, ConstantsAssumption DEF StartCleanup, CleanupInv
    <2>2. CASE NextPass
      BY <2>2, ConstantsAssumption DEF NextPass, BatchDone
    <2>3. CASE StopCleanup
      BY <2>3, ConstantsAssumption DEF StopCleanup
    <2> QED
      BY <2>1, <2>2, <2>3
  <1>b. /\ pass' \in {"off", "trash", "retention"} /\ more' \in BOOLEAN
        /\ UNCHANGED <<row, age, original, emptied, retention, uploads, eraser,
                       doomed, unmarked, stray>>
    BY DEF StartCleanup, NextPass, StopCleanup
  <1>0. /\ batch' = {} /\ item' = NoFile /\ NoFile \notin Files
        /\ pass' \in {"off", "trash", "retention"} /\ more' \in BOOLEAN
        /\ UNCHANGED <<row, age, original, emptied, retention, uploads, eraser,
                       doomed, unmarked, stray>>
        /\ Busy' = Busy /\ InUpload' = InUpload /\ Live' = Live
    BY <1>a, <1>b DEF Busy, InUpload, Live
  <1>1. failures' \in 0 .. MaxFailures
    BY ConstantsAssumption DEF StartCleanup, NextPass, StopCleanup, Fails, TypeOK
  <1>2. TypeOK'
    BY <1>0, <1>1 DEF TypeOK
  <1>3. RoomInv'
    BY <1>0, RoomKept
  <1>4. item' \notin original'
    BY <1>0 DEF TypeOK
  <1> QED
    BY <1>0, <1>2, <1>3, <1>4
       DEF SeatInv, EmptiedInv, CleanupInv, EraseInv, KeptFileHasOriginal,
           NoForgottenObject

LEMMA StopApiStep == IInv /\ StopApi => IInv'
  <1> SUFFICES ASSUME IInv, StopApi PROVE IInv'
    OBVIOUS
  <1> USE DEF IInv, DataInv, cleanup
  <1>0. Busy' = {} /\ Live' = Live /\ unchecked' = unchecked
    BY DEF StopApi, Busy, Live
  <1>1. failures' \in 0 .. MaxFailures
    BY ConstantsAssumption DEF StopApi, Fails, TypeOK
  <1>2. stray' \in SUBSET Files /\ stray \subseteq stray'
    BY DEF StopApi, TypeOK, SeatInv, Busy
  <1>3. TypeOK'
    BY <1>1, <1>2 DEF StopApi, TypeOK
  <1>4. RoomInv'
    BY <1>0, RoomKept
  <1>5. \A f \in original : f \in InUpload => f \in stray'
    BY DEF StopApi, InUpload, SeatInv, Busy
  <1>6. NoForgottenObject'
    BY <1>2, <1>5 DEF StopApi, NoForgottenObject
  <1>7. SeatInv' /\ EraseInv'
    BY <1>0 DEF StopApi, SeatInv, EraseInv
  <1>8. EmptiedInv' /\ KeptFileHasOriginal' /\ CleanupInv'
    BY <1>0, <1>2 DEF StopApi, EmptiedInv, KeptFileHasOriginal, CleanupInv
  <1> QED
    BY <1>3, <1>4, <1>6, <1>7, <1>8

LEMMA DayStep == IInv /\ DayPasses => IInv'
  <1> SUFFICES ASSUME IInv, DayPasses PROVE IInv'
    OBVIOUS
  <1> USE DEF IInv, DataInv, uploads, cleanup, eraser
  <1>0. Busy' = Busy /\ InUpload' = InUpload /\ Live' = Live
    BY DEF DayPasses, Busy, InUpload, Live
  <1>1. /\ age' \in [Files -> 0 .. MaxAge]
        /\ \A f \in Files : age'[f] \in Nat /\ age[f] \in Nat /\ age'[f] >= age[f]
    BY ConstantsAssumption DEF DayPasses, TypeOK
  <1>2. TypeOK'
    BY <1>1 DEF DayPasses, TypeOK
  <1>3. RoomInv'
    BY <1>0, RoomKept DEF DayPasses
  <1>4. CleanupInv'
    BY <1>1, ConstantsAssumption DEF DayPasses, CleanupInv
  <1> QED
    BY <1>0, <1>2, <1>3, <1>4
       DEF DayPasses, SeatInv, EmptiedInv, EraseInv, KeptFileHasOriginal,
           NoForgottenObject

LEMMA StepIInv == IInv /\ [Next]_vars => IInv'
  <1> SUFFICES ASSUME IInv, [Next]_vars PROVE IInv'
    OBVIOUS
  <1>1. CASE Upload
    BY <1>1, AdmitStep, PutStep, CreateStep DEF Upload
  <1>2. CASE Owner
    BY <1>2, OwnerStep
  <1>3. CASE CleanupStep
    BY <1>3, ListStep, DeleteRowStep, PassStep, DeleteObjectStep DEF CleanupStep
  <1>4. CASE StartCleanup \/ StopCleanup
    BY <1>4, PassStep
  <1>5. CASE StopApi
    BY <1>5, StopApiStep
  <1>6. CASE DayPasses
    BY <1>6, DayStep
  <1>7. CASE UNCHANGED vars
    <2>1. Live' = Live /\ Busy' = Busy /\ InUpload' = InUpload
      BY <1>7 DEF vars, uploads, Live, Busy, InUpload
    <2>2. RoomInv'
      BY <1>7, <2>1, RoomKept DEF vars, uploads, IInv, DataInv
    <2> QED
      BY <1>7, <2>1, <2>2
         DEF vars, uploads, cleanup, eraser, IInv, DataInv, TypeOK, SeatInv,
             EmptiedInv, CleanupInv, EraseInv, KeptFileHasOriginal,
             NoForgottenObject
  <1> QED
    BY <1>1, <1>2, <1>3, <1>4, <1>5, <1>6, <1>7 DEF Next

(* The invariant holds in every reachable state.                           *)
THEOREM Invariance == Spec => []IInv
  <1>1. Init => IInv
    BY InitIInv
  <1>2. IInv /\ [Next]_vars => IInv'
    BY StepIInv
  <1> QED
    BY <1>1, <1>2, PTL DEF Spec

(* Type correctness.                                                       *)
THEOREM Typing == Spec => []TypeOK
  <1>1. IInv => TypeOK
    BY DEF IInv, DataInv
  <1> QED
    BY <1>1, Invariance, PTL

(* Uploads that race past the limit do so by no more than can be in flight *)
(* at once, whatever the plan, the deletes and the failures.               *)
THEOREM BoundedOverrun == Spec => []OverrunIsBounded
  <1>1. IInv => OverrunIsBounded
    <2> SUFFICES ASSUME IInv PROVE OverrunIsBounded
      OBVIOUS
    <2>1. /\ IsFiniteSet(Live) /\ IsFiniteSet(Busy) /\ IsFiniteSet(Slots)
          /\ unchecked \in Nat
      BY ConstantsAssumption, FS_Subset DEF IInv, DataInv, TypeOK, Live, Busy
    <2>2. /\ Cardinality(Live) \in Nat /\ Cardinality(Busy) \in Nat
          /\ Cardinality(Slots) \in Nat
      BY <2>1, FS_CardinalityType
    <2> QED
      BY <2>1, <2>2, ConstantsAssumption DEF IInv, RoomInv, OverrunIsBounded
  <1> QED
    BY <1>1, Invariance, PTL

(* No failure, restart or cleanup costs an owner a file he keeps: only a   *)
(* video job he asked to drop the original can leave a key without object. *)
THEOREM KeptFilesAreSafe == Spec => []KeptFileHasOriginal
  <1>1. IInv => KeptFileHasOriginal
    BY DEF IInv, DataInv
  <1> QED
    BY <1>1, Invariance, PTL

(* The cleanup forgets no object but those a failed step left behind.      *)
THEOREM NothingForgotten == Spec => []NoForgottenObject
  <1>1. IInv => NoForgottenObject
    BY DEF IInv, DataInv
  <1> QED
    BY <1>1, Invariance, PTL

(* A row stays in the trash for its days, however it was listed.           *)
THEOREM GraceIsKept == Spec => GraceKept
  <1> DEFINE Grace == \A f \in Files :
                        row[f] # "purged" /\ row'[f] = "purged"
                          => row[f] = "deleted" /\ age[f] >= TrashDays
  <1>1. IInv /\ [Next]_vars => [Grace]_vars
    <2> SUFFICES ASSUME IInv, Next, NEW f \in Files,
                        row[f] # "purged", row'[f] = "purged"
                 PROVE  row[f] = "deleted" /\ age[f] >= TrashDays
      OBVIOUS
    <2> USE DEF IInv, DataInv
    <2>1. CASE row' = row
      BY <2>1
    <2>2. CASE \E s \in Slots : CreateFile(s)
      BY <2>2 DEF CreateFile, TypeOK, SeatInv, Busy
    <2>3. CASE \E g \in Files : SoftDelete(g)
      BY <2>3, SoftDeleteFacts
    <2>4. CASE DeleteRow /\ pass = "trash"
      BY <2>4, ConstantsAssumption DEF DeleteRow, CleanupInv, TypeOK
    <2>5. CASE EraseRow /\ SoftDelete(erasing)
      BY <2>3, <2>5 DEF EraseRow, EraseInv
    <2>6. CASE DeleteRow /\ SoftDelete(item)
      BY <2>3, <2>6, ConstantsAssumption DEF DeleteRow, TypeOK
    <2> QED
      BY <2>1, <2>2, <2>3, <2>4, <2>5, <2>6
         DEF Next, Upload, Owner, CleanupStep, Admit, AdmitUncounted, PutObject,
             SaveFileSettings, DeleteFile, BeginErase, EraseObject, EraseRow,
             DropOriginal, MarkOriginalDeleted, StartCleanup, ListBatch, DeleteObject, DeleteRow,
             NextPass, StopCleanup, StopApi, DayPasses
  <1> QED
    BY <1>1, Invariance, PTL DEF Spec, GraceKept
=============================================================================
