------------------------ MODULE JobLifecycleProofs ------------------------
(***************************************************************************)
(* Theorems of JobLifecycle, for any jobs, files and workers and for any   *)
(* bounds.  The invariant is built in three layers, each inductive         *)
(* relative to the one below: TypeInv (values, and a busy worker works on  *)
(* a job), QueueInv (who holds which message) and StoreInv (what has been  *)
(* stored by then).  The safety properties are conjuncts of the last.      *)
(***************************************************************************)
EXTENDS JobLifecycle, TLAPS

(* The first layer is inductive: every call keeps each column in its range *)
(* and a worker that is not idle has a job.                                *)
LEMMA TypeStep == TypeInv /\ [Next]_vars => TypeInv'
  <1> SUFFICES ASSUME TypeInv, [Next]_vars PROVE TypeInv'
    OBVIOUS
  <1> USE ConstantsAssumption DEF TypeInv, RowStates, MsgStates, Steps
  <1>1. ASSUME NEW j \in Jobs, CreateJob(j) PROVE TypeInv'
    BY <1>1 DEF CreateJob, TypeOK, ActiveOnJob, rowVars, msgVars, resultVars,
       fileVars,
       eraseVars, workerVars
  <1>2. ASSUME NEW j \in Jobs, Enqueue(j) PROVE TypeInv'
    BY <1>2 DEF Enqueue, TypeOK, ActiveOnJob, rowVars, msgVars, resultVars,
       fileVars,
       eraseVars, workerVars
  <1>3. ASSUME NEW j \in Jobs, ApproveRetry(j) PROVE TypeInv'
    BY <1>3 DEF ApproveRetry, TypeOK, ActiveOnJob, rowVars, msgVars,
       resultVars, fileVars,
       eraseVars, workerVars
  <1>4. ASSUME NEW j \in Jobs, ApproveCancel(j) PROVE TypeInv'
    BY <1>4 DEF ApproveCancel, TypeOK, ActiveOnJob, rowVars, msgVars,
       resultVars, fileVars,
       eraseVars, workerVars
  <1>5. ASSUME NEW j \in Jobs, RetryJob(j) PROVE TypeInv'
    BY <1>5 DEF RetryJob, ResetToPending, RetryTargets, TypeOK, ActiveOnJob,
       rowVars, msgVars, resultVars, fileVars,
       eraseVars, workerVars
  <1>6. ASSUME NEW j \in Jobs, CancelJob(j) PROVE TypeInv'
    BY <1>6 DEF CancelJob, CancelTargets, TypeOK, ActiveOnJob, rowVars,
       msgVars, resultVars, fileVars,
       eraseVars, workerVars
  <1>7. CASE BulkRetry
    BY <1>7 DEF BulkRetry, ResetToPending, TypeOK, ActiveOnJob, rowVars,
       msgVars, resultVars, fileVars,
       eraseVars, workerVars
  <1>8. ASSUME NEW w \in Workers, NEW j \in Jobs, Deliver(w, j) PROVE TypeInv'
    BY <1>8 DEF Deliver, Goto, TypeOK, ActiveOnJob, rowVars, msgVars,
       resultVars, fileVars,
       eraseVars, workerVars
  <1>9. ASSUME NEW w \in Workers, MarkRunning(w) PROVE TypeInv'
    BY <1>9 DEF MarkRunning, Goto, Write, TypeOK, ActiveOnJob, rowVars,
       msgVars, resultVars, fileVars,
       eraseVars, workerVars
  <1>10. ASSUME NEW w \in Workers, Load(w) PROVE TypeInv'
    BY <1>10 DEF Load, Goto, Fail, TypeOK, ActiveOnJob, rowVars, msgVars,
       resultVars, fileVars,
       eraseVars, workerVars
  <1>11. ASSUME NEW w \in Workers, Fetch(w) PROVE TypeInv'
    BY <1>11, SMTT(30) DEF Fetch, Goto, Fail, TypeOK, ActiveOnJob, rowVars, msgVars,
       resultVars, fileVars,
       eraseVars, workerVars
  <1>12. ASSUME NEW w \in Workers, Upload(w) PROVE TypeInv'
    BY <1>12 DEF Upload, Goto, Fail, TypeOK, ActiveOnJob, rowVars, msgVars,
       resultVars, fileVars,
       eraseVars, workerVars
  <1>13. ASSUME NEW w \in Workers, SaveVariant(w) PROVE TypeInv'
    BY <1>13 DEF SaveVariant, Goto, Fail, TypeOK, ActiveOnJob, rowVars,
       msgVars, resultVars, fileVars,
       eraseVars, workerVars
  <1>14. ASSUME NEW w \in Workers, UpdateFileStatus(w) PROVE TypeInv'
    BY <1>14 DEF UpdateFileStatus, Goto, Fail, TypeOK, ActiveOnJob, rowVars,
       msgVars, resultVars, fileVars,
       eraseVars, workerVars
  <1>15. ASSUME NEW w \in Workers, MeterUsage(w) PROVE TypeInv'
    BY <1>15 DEF MeterUsage, Goto, TypeOK, ActiveOnJob, rowVars, msgVars,
       resultVars, fileVars,
       eraseVars, workerVars
  <1>16. ASSUME NEW w \in Workers, DeleteOriginal(w) PROVE TypeInv'
    BY <1>16 DEF DeleteOriginal, Goto, TypeOK, ActiveOnJob, rowVars, msgVars,
       resultVars, fileVars,
       eraseVars, workerVars
  <1>17. ASSUME NEW w \in Workers, MarkOriginalDeleted(w) PROVE TypeInv'
    BY <1>17 DEF MarkOriginalDeleted, Goto, TypeOK, ActiveOnJob, rowVars,
       msgVars, resultVars, fileVars,
       eraseVars, workerVars
  <1>18. ASSUME NEW w \in Workers, MarkCompleted(w) PROVE TypeInv'
    BY <1>18 DEF MarkCompleted, Goto, Write, TypeOK, ActiveOnJob, rowVars,
       msgVars, resultVars, fileVars,
       eraseVars, workerVars
  <1>19. ASSUME NEW w \in Workers, MarkFailed(w) PROVE TypeInv'
    BY <1>19 DEF MarkFailed, Goto, Write, TypeOK, ActiveOnJob, rowVars,
       msgVars, resultVars, fileVars,
       eraseVars, workerVars
  <1>20. ASSUME NEW w \in Workers, Settle(w) PROVE TypeInv'
    BY <1>20 DEF Settle, Goto, Release, GiveBack, TypeOK, ActiveOnJob,
       rowVars, msgVars, resultVars, fileVars,
       eraseVars, workerVars
  <1>21. ASSUME NEW w \in Workers, JobTimeout(w) PROVE TypeInv'
    BY <1>21 DEF JobTimeout, TypeOK, ActiveOnJob, rowVars, msgVars,
       resultVars, fileVars,
       eraseVars, workerVars
  <1>22. ASSUME NEW w \in Workers, Crash(w) PROVE TypeInv'
    BY <1>22 DEF Crash, Goto, Release, GiveBack, TypeOK, ActiveOnJob, rowVars,
       msgVars, resultVars, fileVars,
       eraseVars, workerVars
  <1>23. ASSUME NEW f \in Files, UserDelete(f) PROVE TypeInv'
    BY <1>23 DEF UserDelete, TypeOK, ActiveOnJob, rowVars, msgVars,
       resultVars, fileVars,
       eraseVars, workerVars
  <1>24. ASSUME NEW f \in Files, PurgeBlob(f) PROVE TypeInv'
    BY <1>24 DEF PurgeBlob, TypeOK, ActiveOnJob, rowVars, msgVars, resultVars,
       fileVars,
       eraseVars, workerVars
  <1>25. ASSUME NEW f \in Files, PurgeRow(f) PROVE TypeInv'
    BY <1>25 DEF PurgeRow, TypeOK, ActiveOnJob, rowVars, msgVars, resultVars,
       fileVars,
       eraseVars, workerVars
  <1>26. ASSUME NEW f \in Files,
                \/ BatchDelete(f) \/ RetentionExpires(f) \/ ListVariants(f)
                \/ DeleteVariantRows(f) \/ EraseUpload(f) \/ SoftDelete(f)
         PROVE  TypeInv'
    BY <1>26 DEF BatchDelete, RetentionExpires, BeginErasure, ListVariants,
       JobsOf, DeleteVariantRows, EraseUpload, SoftDelete, TypeOK,
       ActiveOnJob, rowVars, msgVars, resultVars, fileVars, workerVars
  <1>27. ASSUME NEW j \in Jobs, DeleteVariantObject(j) PROVE TypeInv'
    BY <1>27 DEF DeleteVariantObject, TypeOK, ActiveOnJob, rowVars, msgVars,
       fileVars, workerVars
  <1>28. CASE UNCHANGED vars
    BY <1>28 DEF vars, TypeOK, ActiveOnJob, rowVars, msgVars, resultVars,
       fileVars,
       eraseVars, workerVars
  <1> QED
    BY <1>1, <1>2, <1>3, <1>4, <1>5, <1>6, <1>7, <1>8, <1>9, <1>10, <1>11,
       <1>12, <1>13, <1>14, <1>15, <1>16, <1>17, <1>18, <1>19, <1>20, <1>21,
       <1>22, <1>23, <1>24, <1>25, <1>26, <1>27, <1>28
       DEF Next, ApiStep, WorkerStep, TakeJob, HandlerStep, FileStep,
           EraseStep

(* The second layer is inductive: the broker hands a message to one worker *)
(* only, and never more than MaxDeliveries times.                          *)
LEMMA QueueStep == QueueInv /\ [Next]_vars => QueueInv'
  <1> SUFFICES ASSUME QueueInv, [Next]_vars PROVE QueueInv'
    OBVIOUS
  <1> TypeInv'
    BY TypeStep DEF QueueInv
  <1> USE ConstantsAssumption DEF QueueInv
  <1>1. ASSUME NEW j \in Jobs, CreateJob(j) PROVE QueueInv'
    BY <1>1 DEF CreateJob, TypeInv, TypeOK, ActiveOnJob, HeldByOne,
       RowBeforeMessage, DeliveryBudget, rowVars, msgVars, resultVars,
       fileVars,
       eraseVars, workerVars
  <1>2. ASSUME NEW j \in Jobs, Enqueue(j) PROVE QueueInv'
    BY <1>2 DEF Enqueue, TypeInv, TypeOK, ActiveOnJob, HeldByOne,
       RowBeforeMessage, DeliveryBudget, rowVars, msgVars, resultVars,
       fileVars,
       eraseVars, workerVars
  <1>3. ASSUME NEW j \in Jobs, ApproveRetry(j) PROVE QueueInv'
    BY <1>3 DEF ApproveRetry, TypeInv, TypeOK, ActiveOnJob, HeldByOne,
       RowBeforeMessage, DeliveryBudget, rowVars, msgVars, resultVars,
       fileVars,
       eraseVars, workerVars
  <1>4. ASSUME NEW j \in Jobs, ApproveCancel(j) PROVE QueueInv'
    BY <1>4 DEF ApproveCancel, TypeInv, TypeOK, ActiveOnJob, HeldByOne,
       RowBeforeMessage, DeliveryBudget, rowVars, msgVars, resultVars,
       fileVars,
       eraseVars, workerVars
  <1>5. ASSUME NEW j \in Jobs, RetryJob(j) PROVE QueueInv'
    BY <1>5 DEF RetryJob, ResetToPending, RetryTargets, TypeInv, TypeOK,
       ActiveOnJob, HeldByOne, RowBeforeMessage, DeliveryBudget, rowVars,
       msgVars, resultVars, fileVars,
       eraseVars, workerVars
  <1>6. ASSUME NEW j \in Jobs, CancelJob(j) PROVE QueueInv'
    BY <1>6 DEF CancelJob, CancelTargets, TypeInv, TypeOK, ActiveOnJob,
       HeldByOne, RowBeforeMessage, DeliveryBudget, rowVars, msgVars,
       resultVars, fileVars,
       eraseVars, workerVars
  <1>7. CASE BulkRetry
    BY <1>7 DEF BulkRetry, ResetToPending, TypeInv, TypeOK, ActiveOnJob,
       HeldByOne, RowBeforeMessage, DeliveryBudget, rowVars, msgVars,
       resultVars, fileVars,
       eraseVars, workerVars
  <1>8. ASSUME NEW w \in Workers, NEW j \in Jobs, Deliver(w, j) PROVE QueueInv'
    BY <1>8 DEF Deliver, Goto, TypeInv, TypeOK, ActiveOnJob, HeldByOne,
       RowBeforeMessage, DeliveryBudget, rowVars, msgVars, resultVars,
       fileVars,
       eraseVars, workerVars
  <1>9. ASSUME NEW w \in Workers, MarkRunning(w) PROVE QueueInv'
    BY <1>9 DEF MarkRunning, Goto, Write, TypeInv, TypeOK, ActiveOnJob,
       HeldByOne, RowBeforeMessage, DeliveryBudget, rowVars, msgVars,
       resultVars, fileVars,
       eraseVars, workerVars
  <1>10. ASSUME NEW w \in Workers, Load(w) PROVE QueueInv'
    BY <1>10 DEF Load, Goto, Fail, TypeInv, TypeOK, ActiveOnJob, HeldByOne,
       RowBeforeMessage, DeliveryBudget, rowVars, msgVars, resultVars,
       fileVars,
       eraseVars, workerVars
  <1>11. ASSUME NEW w \in Workers, Fetch(w) PROVE QueueInv'
    BY <1>11 DEF Fetch, Goto, Fail, TypeInv, TypeOK, ActiveOnJob, HeldByOne,
       RowBeforeMessage, DeliveryBudget, rowVars, msgVars, resultVars,
       fileVars,
       eraseVars, workerVars
  <1>12. ASSUME NEW w \in Workers, Upload(w) PROVE QueueInv'
    BY <1>12 DEF Upload, Goto, Fail, TypeInv, TypeOK, ActiveOnJob, HeldByOne,
       RowBeforeMessage, DeliveryBudget, rowVars, msgVars, resultVars,
       fileVars,
       eraseVars, workerVars
  <1>13. ASSUME NEW w \in Workers, SaveVariant(w) PROVE QueueInv'
    BY <1>13 DEF SaveVariant, Goto, Fail, TypeInv, TypeOK, ActiveOnJob,
       HeldByOne, RowBeforeMessage, DeliveryBudget, rowVars, msgVars,
       resultVars, fileVars,
       eraseVars, workerVars
  <1>14. ASSUME NEW w \in Workers, UpdateFileStatus(w) PROVE QueueInv'
    BY <1>14 DEF UpdateFileStatus, Goto, Fail, TypeInv, TypeOK, ActiveOnJob,
       HeldByOne, RowBeforeMessage, DeliveryBudget, rowVars, msgVars,
       resultVars, fileVars,
       eraseVars, workerVars
  <1>15. ASSUME NEW w \in Workers, MeterUsage(w) PROVE QueueInv'
    BY <1>15 DEF MeterUsage, Goto, TypeInv, TypeOK, ActiveOnJob, HeldByOne,
       RowBeforeMessage, DeliveryBudget, rowVars, msgVars, resultVars,
       fileVars,
       eraseVars, workerVars
  <1>16. ASSUME NEW w \in Workers, DeleteOriginal(w) PROVE QueueInv'
    BY <1>16 DEF DeleteOriginal, Goto, TypeInv, TypeOK, ActiveOnJob,
       HeldByOne, RowBeforeMessage, DeliveryBudget, rowVars, msgVars,
       resultVars, fileVars,
       eraseVars, workerVars
  <1>17. ASSUME NEW w \in Workers, MarkOriginalDeleted(w) PROVE QueueInv'
    BY <1>17 DEF MarkOriginalDeleted, Goto, TypeInv, TypeOK, ActiveOnJob,
       HeldByOne, RowBeforeMessage, DeliveryBudget, rowVars, msgVars,
       resultVars, fileVars,
       eraseVars, workerVars
  <1>18. ASSUME NEW w \in Workers, MarkCompleted(w) PROVE QueueInv'
    BY <1>18 DEF MarkCompleted, Goto, Write, TypeInv, TypeOK, ActiveOnJob,
       HeldByOne, RowBeforeMessage, DeliveryBudget, rowVars, msgVars,
       resultVars, fileVars,
       eraseVars, workerVars
  <1>19. ASSUME NEW w \in Workers, MarkFailed(w) PROVE QueueInv'
    BY <1>19 DEF MarkFailed, Goto, Write, TypeInv, TypeOK, ActiveOnJob,
       HeldByOne, RowBeforeMessage, DeliveryBudget, rowVars, msgVars,
       resultVars, fileVars,
       eraseVars, workerVars
  <1>20. ASSUME NEW w \in Workers, Settle(w) PROVE QueueInv'
    BY <1>20 DEF Settle, Goto, Release, GiveBack, TypeInv, TypeOK,
       ActiveOnJob, HeldByOne, RowBeforeMessage, DeliveryBudget, rowVars,
       msgVars, resultVars, fileVars,
       eraseVars, workerVars
  <1>21. ASSUME NEW w \in Workers, JobTimeout(w) PROVE QueueInv'
    BY <1>21 DEF JobTimeout, TypeInv, TypeOK, ActiveOnJob, HeldByOne,
       RowBeforeMessage, DeliveryBudget, rowVars, msgVars, resultVars,
       fileVars,
       eraseVars, workerVars
  <1>22. ASSUME NEW w \in Workers, Crash(w) PROVE QueueInv'
    BY <1>22 DEF Crash, Goto, Release, GiveBack, TypeInv, TypeOK, ActiveOnJob,
       HeldByOne, RowBeforeMessage, DeliveryBudget, rowVars, msgVars,
       resultVars, fileVars,
       eraseVars, workerVars
  <1>23. ASSUME NEW f \in Files, UserDelete(f) PROVE QueueInv'
    BY <1>23 DEF UserDelete, TypeInv, TypeOK, ActiveOnJob, HeldByOne,
       RowBeforeMessage, DeliveryBudget, rowVars, msgVars, resultVars,
       fileVars,
       eraseVars, workerVars
  <1>24. ASSUME NEW f \in Files, PurgeBlob(f) PROVE QueueInv'
    BY <1>24 DEF PurgeBlob, TypeInv, TypeOK, ActiveOnJob, HeldByOne,
       RowBeforeMessage, DeliveryBudget, rowVars, msgVars, resultVars,
       fileVars,
       eraseVars, workerVars
  <1>25. ASSUME NEW f \in Files, PurgeRow(f) PROVE QueueInv'
    BY <1>25 DEF PurgeRow, TypeInv, TypeOK, ActiveOnJob, HeldByOne,
       RowBeforeMessage, DeliveryBudget, rowVars, msgVars, resultVars,
       fileVars,
       eraseVars, workerVars
  <1>26. ASSUME NEW f \in Files,
                \/ BatchDelete(f) \/ RetentionExpires(f) \/ ListVariants(f)
                \/ DeleteVariantRows(f) \/ EraseUpload(f) \/ SoftDelete(f)
         PROVE  QueueInv'
    BY <1>26 DEF BatchDelete, RetentionExpires, BeginErasure, ListVariants,
       JobsOf, DeleteVariantRows, EraseUpload, SoftDelete, TypeInv,
       TypeOK, ActiveOnJob, HeldByOne, RowBeforeMessage, DeliveryBudget,
       rowVars, msgVars, resultVars, fileVars, workerVars
  <1>27. ASSUME NEW j \in Jobs, DeleteVariantObject(j) PROVE QueueInv'
    BY <1>27 DEF DeleteVariantObject, TypeInv, TypeOK, ActiveOnJob,
       HeldByOne, RowBeforeMessage, DeliveryBudget, rowVars, msgVars,
       fileVars, workerVars
  <1>28. CASE UNCHANGED vars
    BY <1>28 DEF vars, TypeInv, TypeOK, ActiveOnJob, HeldByOne,
       RowBeforeMessage, DeliveryBudget, rowVars, msgVars, resultVars,
       fileVars,
       eraseVars, workerVars
  <1> QED
    BY <1>1, <1>2, <1>3, <1>4, <1>5, <1>6, <1>7, <1>8, <1>9, <1>10, <1>11,
       <1>12, <1>13, <1>14, <1>15, <1>16, <1>17, <1>18, <1>19, <1>20, <1>21,
       <1>22, <1>23, <1>24, <1>25, <1>26, <1>27, <1>28
       DEF Next, ApiStep, WorkerStep, TakeJob, HandlerStep, FileStep,
           EraseStep

(* Whom a batch delete takes something from is known to be doomed.         *)
LEMMA DoomStep == QueueInv /\ SweepDooms /\ [Next]_vars => SweepDooms'
  <1> SUFFICES ASSUME QueueInv, SweepDooms, [Next]_vars PROVE SweepDooms'
    OBVIOUS
  <1> TypeOK /\ ActiveOnJob /\ HeldByOne /\ RowBeforeMessage
    BY DEF QueueInv, TypeInv
  <1> USE ConstantsAssumption
  <1>1. ASSUME UNCHANGED eraseVars,
               \A j \in Jobs : row[j] = "absent" => row'[j] = "absent"
        PROVE  SweepDooms'
    BY <1>1 DEF SweepDooms, eraseVars
  <1>2. ASSUME NEW j \in Jobs, CreateJob(j) PROVE SweepDooms'
    BY <1>2 DEF CreateJob, SweepDooms, TypeOK
  <1>3. ASSUME NEW j \in Jobs,
               \/ Enqueue(j) \/ ApproveRetry(j) \/ ApproveCancel(j)
               \/ RetryJob(j) \/ CancelJob(j)
        PROVE  SweepDooms'
    <2>1. UNCHANGED eraseVars
      BY <1>3 DEF Enqueue, ApproveRetry, ApproveCancel, RetryJob, CancelJob
    <2>2. \A k \in Jobs : row[k] = "absent" => row'[k] = "absent"
      BY <1>3 DEF Enqueue, ApproveRetry, ApproveCancel, RetryJob, CancelJob,
         ResetToPending, RetryTargets, CancelTargets, rowVars
    <2> QED
      BY <1>1, <2>1, <2>2
  <1>10. CASE BulkRetry
    BY <1>1, <1>10 DEF BulkRetry, ResetToPending
  <1>4. ASSUME NEW w \in Workers, WorkerStep(w) PROVE SweepDooms'
    <2>1. UNCHANGED eraseVars
      BY <1>4 DEF WorkerStep, TakeJob, HandlerStep, Deliver, MarkRunning, Load,
         Fetch, Upload, SaveVariant, UpdateFileStatus, MeterUsage,
         DeleteOriginal, MarkOriginalDeleted, MarkCompleted, MarkFailed,
         Settle, JobTimeout, Crash
    <2>2. CASE MarkRunning(w) \/ MarkCompleted(w) \/ MarkFailed(w)
      <3>1. at[w] \in Jobs /\ row[at[w]] # "absent"
        BY <2>2 DEF MarkRunning, MarkCompleted, MarkFailed, ActiveOnJob,
           HeldByOne, RowBeforeMessage
      <3>2. \A k \in Jobs : row[k] = "absent" => row'[k] = "absent"
        BY <2>2, <3>1 DEF MarkRunning, MarkCompleted, MarkFailed, Write, TypeOK
      <3> QED
        BY <1>1, <2>1, <3>2
    <2>3. CASE \/ TakeJob(w) \/ JobTimeout(w) \/ Crash(w)
               \/ Load(w) \/ Fetch(w) \/ Upload(w) \/ SaveVariant(w)
               \/ UpdateFileStatus(w) \/ MeterUsage(w) \/ DeleteOriginal(w)
               \/ MarkOriginalDeleted(w) \/ Settle(w)
      <3>1. row' = row
        BY <2>3 DEF TakeJob, Deliver, JobTimeout, Crash, Load, Fetch, Upload,
           SaveVariant, UpdateFileStatus, MeterUsage, DeleteOriginal,
           MarkOriginalDeleted, Settle, rowVars
      <3> QED
        BY <1>1, <2>1, <3>1
    <2> QED
      BY <1>4, <2>2, <2>3 DEF WorkerStep, HandlerStep
  <1>5. ASSUME NEW f \in Files, UserDelete(f) \/ PurgeBlob(f) \/ PurgeRow(f)
        PROVE  SweepDooms'
    <2>1. UNCHANGED eraseVars
      BY <1>5 DEF UserDelete, PurgeBlob, PurgeRow
    <2>2. \A k \in Jobs : row[k] = "absent" => row'[k] = "absent"
      BY <1>5 DEF UserDelete, PurgeBlob, PurgeRow, rowVars
    <2> QED
      BY <1>1, <2>1, <2>2
  <1>6. ASSUME NEW f \in Files,
               \/ BatchDelete(f) \/ RetentionExpires(f)
               \/ DeleteVariantRows(f) \/ EraseUpload(f) \/ SoftDelete(f)
        PROVE  SweepDooms'
    <2>1. UNCHANGED <<row, listed, doomed>>
      BY <1>6 DEF BatchDelete, RetentionExpires, BeginErasure,
         DeleteVariantRows, EraseUpload, SoftDelete, rowVars
    <2>2. \A g \in Files : erase'[g] = "sweep" => erase[g] = "sweep"
      BY <1>6 DEF BatchDelete, RetentionExpires, BeginErasure,
         DeleteVariantRows, EraseUpload, SoftDelete, TypeOK
    <2> QED
      BY <2>1, <2>2 DEF SweepDooms
  <1>7. ASSUME NEW f \in Files, ListVariants(f) PROVE SweepDooms'
    BY <1>7 DEF ListVariants, JobsOf, SweepDooms, TypeOK, rowVars
  <1>8. ASSUME NEW j \in Jobs, DeleteVariantObject(j) PROVE SweepDooms'
    BY <1>8 DEF DeleteVariantObject, SweepDooms, rowVars
  <1>9. CASE UNCHANGED vars
    BY <1>9 DEF vars, eraseVars, rowVars, SweepDooms
  <1> QED
    BY <1>2, <1>3, <1>4, <1>5, <1>6, <1>7, <1>8, <1>9, <1>10
       DEF Next, ApiStep, FileStep, EraseStep

(* The third layer is inductive: the step a handler has reached says what  *)
(* it has stored, so an acknowledged or completed job has its result.      *)
LEMMA StoreStep == StoreInv /\ [Next]_vars => StoreInv'
  <1> SUFFICES ASSUME StoreInv, [Next]_vars PROVE StoreInv'
    OBVIOUS
  <1> QueueInv' /\ SweepDooms'
    BY QueueStep, DoomStep DEF StoreInv
  <1> USE ConstantsAssumption DEF StoreInv
  <1>1. ASSUME NEW j \in Jobs, CreateJob(j) PROVE StoreInv'
    BY <1>1, SMTT(30) DEF CreateJob, QueueInv, TypeInv, TypeOK, ActiveOnJob, HeldByOne,
       RowBeforeMessage, DeliveryBudget, ProgressStored, PastUpload, PastSave,
       HandlerDone, Stored, NoDanglingVariant, AckedWorkIsStored,
       CompletedHasResult, CompletedBefore, rowVars, msgVars, resultVars,
       fileVars,
       eraseVars, workerVars
  <1>2. ASSUME NEW j \in Jobs, Enqueue(j) PROVE StoreInv'
    BY <1>2, SMTT(30) DEF Enqueue, QueueInv, TypeInv, TypeOK, ActiveOnJob, HeldByOne,
       RowBeforeMessage, DeliveryBudget, ProgressStored, PastUpload, PastSave,
       HandlerDone, Stored, NoDanglingVariant, AckedWorkIsStored,
       CompletedHasResult, CompletedBefore, rowVars, msgVars, resultVars,
       fileVars,
       eraseVars, workerVars
  <1>3. ASSUME NEW j \in Jobs, ApproveRetry(j) PROVE StoreInv'
    BY <1>3, SMTT(30) DEF ApproveRetry, QueueInv, TypeInv, TypeOK, ActiveOnJob,
       HeldByOne, RowBeforeMessage, DeliveryBudget, ProgressStored,
       PastUpload, PastSave, HandlerDone, Stored, NoDanglingVariant,
       AckedWorkIsStored, CompletedHasResult, CompletedBefore, rowVars,
       msgVars, resultVars, fileVars,
       eraseVars, workerVars
  <1>4. ASSUME NEW j \in Jobs, ApproveCancel(j) PROVE StoreInv'
    BY <1>4, SMTT(30) DEF ApproveCancel, QueueInv, TypeInv, TypeOK, ActiveOnJob,
       HeldByOne, RowBeforeMessage, DeliveryBudget, ProgressStored,
       PastUpload, PastSave, HandlerDone, Stored, NoDanglingVariant,
       AckedWorkIsStored, CompletedHasResult, CompletedBefore, rowVars,
       msgVars, resultVars, fileVars,
       eraseVars, workerVars
  <1>5. ASSUME NEW j \in Jobs, RetryJob(j) PROVE StoreInv'
    BY <1>5, SMTT(30) DEF RetryJob, ResetToPending, RetryTargets, QueueInv, TypeInv,
       TypeOK, ActiveOnJob, HeldByOne, RowBeforeMessage, DeliveryBudget,
       ProgressStored, PastUpload, PastSave, HandlerDone, Stored,
       NoDanglingVariant, AckedWorkIsStored, CompletedHasResult,
       CompletedBefore, rowVars, msgVars, resultVars, fileVars,
       eraseVars, workerVars
  <1>6. ASSUME NEW j \in Jobs, CancelJob(j) PROVE StoreInv'
    BY <1>6, SMTT(30) DEF CancelJob, CancelTargets, QueueInv, TypeInv, TypeOK,
       ActiveOnJob, HeldByOne, RowBeforeMessage, DeliveryBudget,
       ProgressStored, PastUpload, PastSave, HandlerDone, Stored,
       NoDanglingVariant, AckedWorkIsStored, CompletedHasResult,
       CompletedBefore, rowVars, msgVars, resultVars, fileVars,
       eraseVars, workerVars
  <1>7. CASE BulkRetry
    BY <1>7 DEF BulkRetry, ResetToPending, QueueInv, TypeInv, TypeOK,
       ActiveOnJob, HeldByOne, RowBeforeMessage, DeliveryBudget,
       ProgressStored, PastUpload, PastSave, HandlerDone, Stored,
       NoDanglingVariant, AckedWorkIsStored, CompletedHasResult,
       CompletedBefore, rowVars, msgVars, resultVars, fileVars,
       eraseVars, workerVars
  <1>8. ASSUME NEW w \in Workers, NEW j \in Jobs, Deliver(w, j) PROVE StoreInv'
    BY <1>8, SMTT(30) DEF Deliver, Goto, QueueInv, TypeInv, TypeOK, ActiveOnJob,
       HeldByOne, RowBeforeMessage, DeliveryBudget, ProgressStored,
       PastUpload, PastSave, HandlerDone, Stored, NoDanglingVariant,
       AckedWorkIsStored, CompletedHasResult, CompletedBefore, rowVars,
       msgVars, resultVars, fileVars,
       eraseVars, workerVars
  <1>9. ASSUME NEW w \in Workers, MarkRunning(w) PROVE StoreInv'
    BY <1>9, SMTT(30) DEF MarkRunning, Goto, Write, QueueInv, TypeInv, TypeOK,
       ActiveOnJob, HeldByOne, RowBeforeMessage, DeliveryBudget,
       ProgressStored, PastUpload, PastSave, HandlerDone, Stored,
       NoDanglingVariant, AckedWorkIsStored, CompletedHasResult,
       CompletedBefore, rowVars, msgVars, resultVars, fileVars,
       eraseVars, workerVars
  <1>10. ASSUME NEW w \in Workers, Load(w) PROVE StoreInv'
    BY <1>10, SMTT(30) DEF Load, Goto, Fail, QueueInv, TypeInv, TypeOK, ActiveOnJob,
       HeldByOne, RowBeforeMessage, DeliveryBudget, ProgressStored,
       PastUpload, PastSave, HandlerDone, Stored, NoDanglingVariant,
       AckedWorkIsStored, CompletedHasResult, CompletedBefore, rowVars,
       msgVars, resultVars, fileVars,
       eraseVars, workerVars
  <1>11. ASSUME NEW w \in Workers, Fetch(w) PROVE StoreInv'
    BY <1>11, SMTT(30) DEF Fetch, Goto, Fail, QueueInv, TypeInv, TypeOK, ActiveOnJob,
       HeldByOne, RowBeforeMessage, DeliveryBudget, ProgressStored,
       PastUpload, PastSave, HandlerDone, Stored, NoDanglingVariant,
       AckedWorkIsStored, CompletedHasResult, CompletedBefore, rowVars,
       msgVars, resultVars, fileVars,
       eraseVars, workerVars
  <1>12. ASSUME NEW w \in Workers, Upload(w) PROVE StoreInv'
    BY <1>12, SMTT(30) DEF Upload, Goto, Fail, QueueInv, TypeInv, TypeOK, ActiveOnJob,
       HeldByOne, RowBeforeMessage, DeliveryBudget, ProgressStored,
       PastUpload, PastSave, HandlerDone, Stored, NoDanglingVariant,
       AckedWorkIsStored, CompletedHasResult, CompletedBefore, rowVars,
       msgVars, resultVars, fileVars,
       eraseVars, workerVars
  <1>13. ASSUME NEW w \in Workers, SaveVariant(w) PROVE StoreInv'
    <2> TypeInv /\ HeldByOne /\ DeliveryBudget
      BY DEF QueueInv
    <2>1. at[w] \in blob \cup doomed
      BY <1>13 DEF SaveVariant, ProgressStored, PastUpload
    <2>2. ProgressStored'
      BY <1>13, <2>1 DEF SaveVariant, Goto, Fail, TypeInv, TypeOK,
         ActiveOnJob,
                        ProgressStored, PastUpload, PastSave, HandlerDone,
                        Stored, Steps, rowVars, eraseVars
    <2>3. NoDanglingVariant'
      BY <1>13, <2>1 DEF SaveVariant, TypeInv, TypeOK, NoDanglingVariant,
         eraseVars
    <2>4. AckedWorkIsStored' /\ CompletedHasResult'
      BY <1>13 DEF SaveVariant, TypeInv, TypeOK, AckedWorkIsStored,
                  CompletedHasResult, rowVars, msgVars, eraseVars
    <2>5. CompletedBefore'
      BY <1>13 DEF SaveVariant, Goto, Fail, TypeInv, TypeOK, CompletedBefore,
                  rowVars, msgVars
    <2> QED
      BY <2>2, <2>3, <2>4, <2>5 DEF StoreInv
  <1>14. ASSUME NEW w \in Workers, UpdateFileStatus(w) PROVE StoreInv'
    BY <1>14, SMTT(30) DEF UpdateFileStatus, Goto, Fail, QueueInv, TypeInv, TypeOK,
       ActiveOnJob, HeldByOne, RowBeforeMessage, DeliveryBudget,
       ProgressStored, PastUpload, PastSave, HandlerDone, Stored,
       NoDanglingVariant, AckedWorkIsStored, CompletedHasResult,
       CompletedBefore, rowVars, msgVars, resultVars, fileVars,
       eraseVars, workerVars
  <1>15. ASSUME NEW w \in Workers, MeterUsage(w) PROVE StoreInv'
    BY <1>15, SMTT(30) DEF MeterUsage, Goto, QueueInv, TypeInv, TypeOK, ActiveOnJob,
       HeldByOne, RowBeforeMessage, DeliveryBudget, ProgressStored,
       PastUpload, PastSave, HandlerDone, Stored, NoDanglingVariant,
       AckedWorkIsStored, CompletedHasResult, CompletedBefore, rowVars,
       msgVars, resultVars, fileVars,
       eraseVars, workerVars
  <1>16. ASSUME NEW w \in Workers, DeleteOriginal(w) PROVE StoreInv'
    BY <1>16, SMTT(30) DEF DeleteOriginal, Goto, QueueInv, TypeInv, TypeOK, ActiveOnJob,
       HeldByOne, RowBeforeMessage, DeliveryBudget, ProgressStored,
       PastUpload, PastSave, HandlerDone, Stored, NoDanglingVariant,
       AckedWorkIsStored, CompletedHasResult, CompletedBefore, rowVars,
       msgVars, resultVars, fileVars,
       eraseVars, workerVars
  <1>17. ASSUME NEW w \in Workers, MarkOriginalDeleted(w) PROVE StoreInv'
    BY <1>17, SMTT(30) DEF MarkOriginalDeleted, Goto, QueueInv, TypeInv, TypeOK,
       ActiveOnJob, HeldByOne, RowBeforeMessage, DeliveryBudget,
       ProgressStored, PastUpload, PastSave, HandlerDone, Stored,
       NoDanglingVariant, AckedWorkIsStored, CompletedHasResult,
       CompletedBefore, rowVars, msgVars, resultVars, fileVars,
       eraseVars, workerVars
  <1>18. ASSUME NEW w \in Workers, MarkCompleted(w) PROVE StoreInv'
    <2> TypeInv /\ HeldByOne /\ DeliveryBudget
      BY DEF QueueInv
    <2>1. /\ at[w] \in Jobs /\ msg[at[w]] = "held"
          /\ at[w] \notin doomed => at[w] \in blob /\ Stored(at[w])
      BY <1>18 DEF MarkCompleted, TypeInv, ActiveOnJob, HeldByOne,
         ProgressStored, PastUpload, PastSave, HandlerDone
    <2>2. \A j \in Jobs : row'[j] # row[j] =>
             /\ j = at[w] /\ row[j] # "gone" /\ row'[j] = "completed"
             /\ j \notin doomed => (Saves(j) => variants[j] > 0)
      BY <1>18, <2>1 DEF MarkCompleted, Write, TypeInv, TypeOK, Stored
    <2>3. \A j \in Jobs : Stored(j) => (Stored(j))'
      BY <1>18, <2>2 DEF MarkCompleted, Stored, resultVars
    <2>4. \A v \in Workers : v # w =>
             /\ pc'[v] = pc[v] /\ verdict'[v] = verdict[v]
             /\ pc[v] # "idle" => at[v] # at[w]
      BY <1>18 DEF MarkCompleted, Goto, TypeInv, TypeOK, HeldByOne
    <2>5. ProgressStored'
      BY <1>18, <2>1, <2>3, <2>4
         DEF MarkCompleted, Goto, TypeInv, TypeOK, ActiveOnJob,
             ProgressStored, PastUpload, PastSave, HandlerDone, resultVars,
             eraseVars
    <2>6. AckedWorkIsStored' /\ CompletedHasResult' /\ NoDanglingVariant'
      BY <1>18, <2>1, <2>2 DEF MarkCompleted, AckedWorkIsStored,
         NoDanglingVariant,
                  CompletedHasResult, resultVars, msgVars, eraseVars
    <2>7. CompletedBefore'
      BY <1>18, <2>2, <2>4 DEF MarkCompleted, Goto, TypeInv, TypeOK,
         ActiveOnJob,
                  CompletedBefore, msgVars
    <2> QED
      BY <2>5, <2>6, <2>7 DEF StoreInv
  <1>19. ASSUME NEW w \in Workers, MarkFailed(w) PROVE StoreInv'
    <2> TypeInv /\ HeldByOne /\ DeliveryBudget
      BY DEF QueueInv
    <2>1. at[w] \in Jobs /\ msg[at[w]] = "held"
      BY <1>19 DEF MarkFailed, TypeInv, ActiveOnJob, HeldByOne
    <2>2. \A j \in Jobs : row'[j] # row[j] =>
             j = at[w] /\ row[j] # "gone" /\ row'[j] = "failed"
      BY <1>19, <2>1 DEF MarkFailed, Write, TypeInv, TypeOK
    <2>3. \A v \in Workers : v # w =>
             /\ pc'[v] = pc[v] /\ verdict'[v] = verdict[v]
             /\ pc[v] # "idle" => at[v] # at[w]
      BY <1>19 DEF MarkFailed, Goto, TypeInv, TypeOK, HeldByOne
    <2>4. pc[w] = "failing" /\ pc'[w] = "settle" /\ verdict'[w] = verdict[w]
      BY <1>19 DEF MarkFailed, Goto, TypeInv, TypeOK
    <2>5. ProgressStored'
      BY <1>19, <2>1, <2>2, <2>3, <2>4
         DEF MarkFailed, TypeInv, TypeOK, ActiveOnJob, ProgressStored,
             PastUpload, PastSave, HandlerDone, Stored, resultVars, eraseVars
    <2>6. AckedWorkIsStored' /\ CompletedHasResult' /\ NoDanglingVariant'
      BY <1>19, <2>1, <2>2 DEF MarkFailed, AckedWorkIsStored,
         NoDanglingVariant,
                  CompletedHasResult, resultVars, msgVars, eraseVars
    <2>7. CompletedBefore'
      BY <1>19, <2>2, <2>3 DEF MarkFailed, Goto, TypeInv, TypeOK, ActiveOnJob,
                  CompletedBefore, msgVars
    <2> QED
      BY <2>5, <2>6, <2>7 DEF StoreInv
  <1>20. ASSUME NEW w \in Workers, Settle(w) PROVE StoreInv'
    BY <1>20, SMTT(30) DEF Settle, Goto, Release, GiveBack, QueueInv, TypeInv, TypeOK,
       ActiveOnJob, HeldByOne, RowBeforeMessage, DeliveryBudget,
       ProgressStored, PastUpload, PastSave, HandlerDone, Stored,
       NoDanglingVariant, AckedWorkIsStored, CompletedHasResult,
       CompletedBefore, rowVars, msgVars, resultVars, fileVars,
       eraseVars, workerVars
  <1>21. ASSUME NEW w \in Workers, JobTimeout(w) PROVE StoreInv'
    BY <1>21, SMTT(30) DEF JobTimeout, QueueInv, TypeInv, TypeOK, ActiveOnJob,
       HeldByOne, RowBeforeMessage, DeliveryBudget, ProgressStored,
       PastUpload, PastSave, HandlerDone, Stored, NoDanglingVariant,
       AckedWorkIsStored, CompletedHasResult, CompletedBefore, rowVars,
       msgVars, resultVars, fileVars,
       eraseVars, workerVars
  <1>22. ASSUME NEW w \in Workers, Crash(w) PROVE StoreInv'
    BY <1>22, SMTT(30) DEF Crash, Goto, Release, GiveBack, QueueInv, TypeInv, TypeOK,
       ActiveOnJob, HeldByOne, RowBeforeMessage, DeliveryBudget,
       ProgressStored, PastUpload, PastSave, HandlerDone, Stored,
       NoDanglingVariant, AckedWorkIsStored, CompletedHasResult,
       CompletedBefore, rowVars, msgVars, resultVars, fileVars,
       eraseVars, workerVars
  <1>23. ASSUME NEW f \in Files, UserDelete(f) PROVE StoreInv'
    BY <1>23, SMTT(30) DEF UserDelete, QueueInv, TypeInv, TypeOK, ActiveOnJob,
       HeldByOne, RowBeforeMessage, DeliveryBudget, ProgressStored,
       PastUpload, PastSave, HandlerDone, Stored, NoDanglingVariant,
       AckedWorkIsStored, CompletedHasResult, CompletedBefore, rowVars,
       msgVars, resultVars, fileVars,
       eraseVars, workerVars
  <1>24. ASSUME NEW f \in Files, PurgeBlob(f) PROVE StoreInv'
    BY <1>24, SMTT(30) DEF PurgeBlob, QueueInv, TypeInv, TypeOK, ActiveOnJob, HeldByOne,
       RowBeforeMessage, DeliveryBudget, ProgressStored, PastUpload, PastSave,
       HandlerDone, Stored, NoDanglingVariant, AckedWorkIsStored,
       CompletedHasResult, CompletedBefore, rowVars, msgVars, resultVars,
       fileVars,
       eraseVars, workerVars
  <1>25. ASSUME NEW f \in Files, PurgeRow(f) PROVE StoreInv'
    BY <1>25, SMTT(30) DEF PurgeRow, QueueInv, TypeInv, TypeOK, ActiveOnJob, HeldByOne,
       RowBeforeMessage, DeliveryBudget, ProgressStored, PastUpload, PastSave,
       HandlerDone, Stored, NoDanglingVariant, AckedWorkIsStored,
       CompletedHasResult, CompletedBefore, rowVars, msgVars, resultVars,
       fileVars,
       eraseVars, workerVars
  <1>26. ASSUME NEW f \in Files,
                \/ BatchDelete(f) \/ RetentionExpires(f) \/ EraseUpload(f)
                \/ SoftDelete(f)
         PROVE  StoreInv'
    BY <1>26, SMTT(30) DEF BatchDelete, RetentionExpires, BeginErasure, EraseUpload,
       SoftDelete, QueueInv, TypeInv, TypeOK, ActiveOnJob, HeldByOne,
       RowBeforeMessage, ProgressStored, PastUpload, PastSave, HandlerDone,
       Stored, NoDanglingVariant, AckedWorkIsStored, CompletedHasResult,
       CompletedBefore, rowVars, msgVars, resultVars, fileVars, workerVars
  <1>27. ASSUME NEW f \in Files, ListVariants(f) PROVE StoreInv'
    BY <1>27, SMTT(30) DEF ListVariants, QueueInv, TypeInv, TypeOK, ActiveOnJob, HeldByOne,
       RowBeforeMessage, ProgressStored, PastUpload, PastSave, HandlerDone,
       Stored, NoDanglingVariant, AckedWorkIsStored, CompletedHasResult,
       CompletedBefore, rowVars, msgVars, resultVars, fileVars, workerVars
  <1>28. ASSUME NEW f \in Files, DeleteVariantRows(f) PROVE StoreInv'
    <2>1. /\ TypeOK /\ HeldByOne /\ RowBeforeMessage /\ ActiveOnJob
          /\ UNCHANGED <<rowVars, msgVars, blob, doomed, workerVars>>
      BY <1>28 DEF DeleteVariantRows, QueueInv, TypeInv
    <2>2. \A j \in Jobs \ doomed : row[j] # "absent" => variants'[j] = variants[j]
      BY <1>28, <2>1 DEF DeleteVariantRows, SweepDooms, TypeOK
    <2>3. \A j \in Jobs : variants'[j] > 0 => variants[j] > 0
      BY <1>28, <2>1 DEF DeleteVariantRows, TypeOK
    <2>4. ProgressStored'
      BY <2>1, <2>2 DEF ProgressStored, PastUpload, PastSave, HandlerDone,
         Stored, HeldByOne, RowBeforeMessage, ActiveOnJob, rowVars, msgVars,
         workerVars
    <2>5. NoDanglingVariant'
      BY <2>1, <2>3 DEF NoDanglingVariant
    <2>6. AckedWorkIsStored' /\ CompletedHasResult'
      BY <2>1, <2>2 DEF AckedWorkIsStored, CompletedHasResult,
         RowBeforeMessage, rowVars, msgVars
    <2>7. CompletedBefore'
      BY <2>1 DEF CompletedBefore, rowVars, msgVars, workerVars
    <2> QED
      BY <2>4, <2>5, <2>6, <2>7
  <1>29. ASSUME NEW j \in Jobs, DeleteVariantObject(j) PROVE StoreInv'
    <2>1. j \in doomed
      BY <1>29 DEF DeleteVariantObject, SweepDooms
    <2> QED
      BY <1>29, <2>1 DEF DeleteVariantObject, QueueInv, TypeInv, TypeOK, ActiveOnJob, HeldByOne,
       RowBeforeMessage, ProgressStored, PastUpload, PastSave, HandlerDone,
       Stored, NoDanglingVariant, AckedWorkIsStored, CompletedHasResult,
       CompletedBefore, rowVars, msgVars, resultVars, fileVars, workerVars
  <1>30. CASE UNCHANGED vars
    BY <1>30 DEF vars, QueueInv, TypeInv, TypeOK, ActiveOnJob, HeldByOne,
       RowBeforeMessage, DeliveryBudget, ProgressStored, PastUpload, PastSave,
       HandlerDone, Stored, NoDanglingVariant, AckedWorkIsStored,
       CompletedHasResult, CompletedBefore, rowVars, msgVars, resultVars,
       fileVars,
       eraseVars, workerVars
  <1> QED
    BY <1>1, <1>2, <1>3, <1>4, <1>5, <1>6, <1>7, <1>8, <1>9, <1>10, <1>11,
       <1>12, <1>13, <1>14, <1>15, <1>16, <1>17, <1>18, <1>19, <1>20, <1>21,
       <1>22, <1>23, <1>24, <1>25, <1>26, <1>27, <1>28, <1>29, <1>30
       DEF Next, ApiStep, WorkerStep, TakeJob, HandlerStep, FileStep,
           EraseStep

(* No job has a row, a message or a result when the system starts.         *)
LEMMA InitStoreInv == Init => StoreInv
  BY ConstantsAssumption
     DEF Init, StoreInv, SweepDooms, QueueInv, TypeInv, TypeOK, ActiveOnJob, HeldByOne,
         RowBeforeMessage, DeliveryBudget, ProgressStored, PastUpload,
         PastSave, HandlerDone, NoDanglingVariant, AckedWorkIsStored,
         CompletedHasResult, CompletedBefore, RowStates, MsgStates, Steps

(* The whole invariant holds in every reachable state.                     *)
THEOREM Invariance == Spec => []StoreInv
  <1>1. Init => StoreInv
    BY InitStoreInv
  <1>2. StoreInv /\ [Next]_vars => StoreInv'
    BY StoreStep
  <1> QED
    BY <1>1, <1>2, PTL DEF Spec

(* Type correctness of the pipeline's state.                               *)
THEOREM Typing == Spec => []TypeOK
  <1>1. StoreInv => TypeOK
    BY DEF StoreInv, QueueInv, TypeInv
  <1> QED
    BY <1>1, Invariance, PTL

(* The broker never acknowledges a job whose object is not in storage or   *)
(* whose variant row was never written, whatever fails, expires or dies,   *)
(* unless a batch delete met the job.                                      *)
THEOREM AckedIsStored == Spec => []AckedWorkIsStored
  <1>1. StoreInv => AckedWorkIsStored
    BY DEF StoreInv
  <1> QED
    BY <1>1, Invariance, PTL

(* A job row that says "completed" has its result behind it, unless a      *)
(* batch delete met the job.                                               *)
THEOREM CompletedIsStored == Spec => []CompletedHasResult
  <1>1. StoreInv => CompletedHasResult
    BY DEF StoreInv
  <1> QED
    BY <1>1, Invariance, PTL

(* A variant row of a job that met no batch delete points to an object.    *)
THEOREM VariantsHaveObjects == Spec => []NoDanglingVariant
  <1>1. StoreInv => NoDanglingVariant
    BY DEF StoreInv
  <1> QED
    BY <1>1, Invariance, PTL

(* Retry, bulk retry and cancel never touch a completed row: only a second *)
(* delivery of its message or the purge of its file does.                  *)
THEOREM CompletedIsFinal == Spec => CompletedOnlyRedelivered
  <1> DEFINE Kept == \A j \in Jobs :
               row[j] = "completed" /\ row'[j] # "completed" =>
                 row'[j] = "gone" \/ (msg[j] = "held" /\ delivered[j] > 1)
  <1>1. ASSUME StoreInv, Next PROVE Kept
    <2> USE <1>1 DEF StoreInv, QueueInv, TypeInv, TypeOK
    <2>1. ASSUME NEW j \in Jobs,
                 CreateJob(j) \/ Enqueue(j) \/ ApproveRetry(j)
                   \/ ApproveCancel(j) \/ RetryJob(j) \/ CancelJob(j)
          PROVE  Kept
      BY <2>1 DEF CreateJob, Enqueue, ApproveRetry, ApproveCancel, RetryJob,
                  ResetToPending, RetryTargets, CancelJob, CancelTargets,
                  rowVars
    <2>2. CASE BulkRetry
      BY <2>2 DEF BulkRetry, ResetToPending
    <2>3. ASSUME NEW w \in Workers,
                 MarkRunning(w) \/ MarkCompleted(w) \/ MarkFailed(w)
          PROVE  Kept
      <3>1. /\ at[w] \in Jobs /\ msg[at[w]] = "held"
            /\ row[at[w]] = "completed" => delivered[at[w]] > 1
        BY <2>3 DEF MarkRunning, MarkCompleted, MarkFailed, ActiveOnJob,
                    HeldByOne, CompletedBefore
      <3> QED
        BY <2>3, <3>1 DEF MarkRunning, MarkCompleted, MarkFailed, Write
    <2>4. ASSUME NEW w \in Workers,
                 \/ TakeJob(w) \/ JobTimeout(w) \/ Crash(w)
                 \/ Load(w) \/ Fetch(w) \/ Upload(w) \/ SaveVariant(w)
                 \/ UpdateFileStatus(w) \/ MeterUsage(w) \/ DeleteOriginal(w)
                 \/ MarkOriginalDeleted(w) \/ Settle(w)
          PROVE  Kept
      BY <2>4 DEF TakeJob, Deliver, JobTimeout, Crash, Load, Fetch, Upload,
                  SaveVariant, UpdateFileStatus, MeterUsage, DeleteOriginal,
                  MarkOriginalDeleted, Settle, rowVars
    <2>5. CASE FileStep
      BY <2>5 DEF FileStep, UserDelete, PurgeBlob, PurgeRow, rowVars
    <2>6. CASE EraseStep
      BY <2>6 DEF EraseStep, BatchDelete, RetentionExpires, BeginErasure,
                  ListVariants, DeleteVariantObject, DeleteVariantRows,
                  EraseUpload, SoftDelete, rowVars
    <2> QED
      BY <1>1, <2>1, <2>2, <2>3, <2>4, <2>5, <2>6
         DEF Next, ApiStep, WorkerStep, HandlerStep
  <1>2. StoreInv /\ [Next]_vars => [Kept]_vars
    BY <1>1
  <1> QED
    BY <1>2, Invariance, PTL DEF Spec, CompletedOnlyRedelivered

(* A fourth layer: who drops an original has stored a transcode of it, or  *)
(* belongs to a deletion of the file that has been counted.                *)
TrimsTranscode == \A w \in Workers : pc[w] \in {"meter", "trim", "clear"} => Transcodes(at[w])
GoneWithFile == \A j \in Jobs : row[j] = "gone" => file[FileOf[j]] = "gone"
ErasureCounted ==
  /\ \A f \in Files : erase[f] # "none" => erasures[f] > 0
  /\ \A j \in doomed : erasures[FileOf[j]] > 0
KeptInv == /\ StoreInv /\ TrimsTranscode /\ GoneWithFile /\ ErasureCounted
           /\ OriginalKeptUntilStored

(* The handler that may drop an original is one that keeps a variant.      *)
LEMMA TranscodeSaves == ASSUME NEW j \in Jobs, Transcodes(j) PROVE Saves(j)
  <1> DEFINE Good(p) == p.transcodes => p.saves
  <1>1. Good(FileJob)
    BY DEF FileJob
  <1>2. Good(PDFThumbnailJob) /\ Good(MetadataJob) /\ Good(ConvertJob) /\ Good(VideoTranscodeJob)
    BY DEF PDFThumbnailJob, MetadataJob, ConvertJob, VideoTranscodeJob, FileJob
  <1>3. KindOf[j] \in DOMAIN Profile
    BY ConstantsAssumption
  <1> HIDE DEF Good
  <1>4. Good(Profile[KindOf[j]])
    BY <1>1, <1>2, <1>3 DEF Profile, ThumbnailJob, ResizeJob, WebPJob, WatermarkJob,
       OptimizeJob, VideoThumbnailJob, VideoHLSJob, VideoWatermarkJob
  <1> QED BY <1>4 DEF Good, Transcodes, Saves

(* A deletion under way, and a job that met one, belong to a file whose     *)
(* deletion has been counted.                                              *)
LEMMA CountStep == TypeOK /\ ErasureCounted /\ [Next]_vars => ErasureCounted'
  <1> SUFFICES ASSUME TypeOK, ErasureCounted, [Next]_vars PROVE ErasureCounted'
    OBVIOUS
  <1> USE ConstantsAssumption
  <1>1. ASSUME UNCHANGED <<erase, erasures, doomed>> PROVE ErasureCounted'
    BY <1>1 DEF ErasureCounted
  <1>2. ASSUME NEW j \in Jobs, CreateJob(j) PROVE ErasureCounted'
    BY <1>2 DEF CreateJob, ErasureCounted
  <1>3. ASSUME NEW j \in Jobs,
               \/ Enqueue(j) \/ ApproveRetry(j) \/ ApproveCancel(j)
               \/ RetryJob(j) \/ CancelJob(j) \/ DeleteVariantObject(j)
        PROVE  UNCHANGED <<erase, erasures, doomed>>
    BY <1>3 DEF Enqueue, ApproveRetry, ApproveCancel, RetryJob, CancelJob,
       DeleteVariantObject, eraseVars
  <1>4. ASSUME NEW w \in Workers, WorkerStep(w)
        PROVE  UNCHANGED <<erase, erasures, doomed>>
    BY <1>4 DEF WorkerStep, TakeJob, HandlerStep, Deliver, MarkRunning, Load,
       Fetch, Upload, SaveVariant, UpdateFileStatus, MeterUsage,
       DeleteOriginal, MarkOriginalDeleted, MarkCompleted, MarkFailed, Settle,
       JobTimeout, Crash, eraseVars
  <1>5. BulkRetry \/ FileStep \/ UNCHANGED vars => UNCHANGED <<erase, erasures, doomed>>
    BY DEF BulkRetry, FileStep, UserDelete, PurgeBlob, PurgeRow, vars, eraseVars
  <1>6. ASSUME NEW f \in Files, BatchDelete(f) \/ RetentionExpires(f)
        PROVE  ErasureCounted'
    <2>1. PICK step \in {"list", "upload"} :
            /\ erase' = [erase EXCEPT ![f] = step]
            /\ erasures' = [erasures EXCEPT ![f] = @ + 1]
            /\ doomed' = doomed
      BY <1>6 DEF BatchDelete, RetentionExpires, BeginErasure
    <2>2. erasures'[f] > 0 /\ \A g \in Files : g # f => erasures'[g] = erasures[g]
      BY <2>1 DEF TypeOK
    <2> QED
      BY <2>1, <2>2 DEF ErasureCounted, TypeOK
  <1>7. ASSUME NEW f \in Files,
               \/ ListVariants(f) \/ DeleteVariantRows(f) \/ EraseUpload(f)
               \/ SoftDelete(f)
        PROVE  ErasureCounted'
    <2>1. /\ erasures' = erasures /\ erasures[f] > 0
          /\ \A g \in Files : g # f => erase'[g] = erase[g]
      BY <1>7 DEF ListVariants, DeleteVariantRows, EraseUpload, SoftDelete,
         ErasureCounted, TypeOK
    <2>2. \A j \in doomed' : j \in doomed \/ FileOf[j] = f
      BY <1>7 DEF ListVariants, DeleteVariantRows, EraseUpload, SoftDelete, JobsOf
    <2> QED
      BY <2>1, <2>2 DEF ErasureCounted
  <1> QED
    BY <1>1, <1>2, <1>3, <1>4, <1>5, <1>6, <1>7 DEF Next, ApiStep, EraseStep

(* While the file is there only a transcode that is stored drops what was  *)
(* uploaded.                                                               *)
LEMMA KeptStep == KeptInv /\ [Next]_vars => KeptInv'
  <1> SUFFICES ASSUME KeptInv, [Next]_vars PROVE KeptInv'
    OBVIOUS
  <1>0. StoreInv /\ StoreInv'
    BY StoreStep DEF KeptInv
  <1>a. /\ TypeOK /\ ActiveOnJob /\ ProgressStored
        /\ TrimsTranscode /\ GoneWithFile /\ ErasureCounted
        /\ OriginalKeptUntilStored
    BY <1>0 DEF KeptInv, StoreInv, QueueInv, TypeInv
  <1>e. ErasureCounted'
    BY <1>0, <1>a, CountStep DEF StoreInv, QueueInv
  <1> SUFFICES TrimsTranscode' /\ GoneWithFile' /\ OriginalKeptUntilStored'
    BY <1>0, <1>e DEF KeptInv
  \* The steps of a worker that trim nothing.
  <1>b. ASSUME NEW w \in Workers, NEW next \in Steps, pc' = [pc EXCEPT ![w] = next],
               \A v \in Workers : v # w => at'[v] = at[v],
               next \in {"meter", "trim", "clear"} => at'[w] = at[w] /\ Transcodes(at[w])
        PROVE  TrimsTranscode'
    BY <1>a, <1>b DEF TypeOK, TrimsTranscode
  <1>c. ASSUME UNCHANGED <<file, original, erasures>>, \A j \in Jobs : variants'[j] > 0 \/ variants[j] = 0
        PROVE  OriginalKeptUntilStored'
    BY <1>a, <1>c DEF OriginalKeptUntilStored, TypeOK
  <1>d. ASSUME UNCHANGED file, \A j \in Jobs : row'[j] = "gone" => row[j] = "gone"
        PROVE  GoneWithFile'
    BY <1>a, <1>d DEF GoneWithFile
  <1>1. CASE ApiStep
    <2>1. UNCHANGED <<variants, file, original, erasures, pc, at>>
      BY <1>1 DEF ApiStep, CreateJob, Enqueue, ApproveRetry, ApproveCancel, RetryJob, CancelJob,
                  BulkRetry, resultVars, fileVars, eraseVars, workerVars
    <2>2. \A j \in Jobs : row'[j] = "gone" => row[j] = "gone"
      <3>1. ASSUME NEW k \in Jobs, CreateJob(k) \/ Enqueue(k) \/ ApproveRetry(k) \/ ApproveCancel(k)
            PROVE  \A j \in Jobs : row'[j] = "gone" => row[j] = "gone"
        BY <1>a, <3>1 DEF CreateJob, Enqueue, ApproveRetry, ApproveCancel, rowVars, TypeOK
      <3>2. ASSUME NEW k \in Jobs, RetryJob(k) \/ CancelJob(k)
            PROVE  \A j \in Jobs : row'[j] = "gone" => row[j] = "gone"
        BY <1>a, <3>2 DEF RetryJob, CancelJob, ResetToPending, TypeOK
      <3>3. CASE BulkRetry
        BY <1>a, <3>3 DEF BulkRetry, ResetToPending, TypeOK
      <3> QED BY <1>1, <3>1, <3>2, <3>3 DEF ApiStep
    <2>3. TrimsTranscode'
      BY <1>a, <2>1 DEF TrimsTranscode
    <2>4. \A j \in Jobs : variants'[j] > 0 \/ variants[j] = 0
      BY <1>a, <2>1 DEF TypeOK
    <2> QED BY <1>c, <1>d, <2>1, <2>2, <2>3, <2>4
  <1>2. ASSUME NEW w \in Workers, TakeJob(w) \/ Settle(w) \/ Crash(w) \/ JobTimeout(w)
        PROVE  TrimsTranscode' /\ GoneWithFile' /\ OriginalKeptUntilStored'
    <2>1. UNCHANGED <<row, variants, file, original, erasures>>
      BY <1>2 DEF TakeJob, Deliver, Settle, Crash, JobTimeout, rowVars, resultVars, fileVars, eraseVars
    <2>2. TrimsTranscode'
      <3>1. CASE JobTimeout(w)
        BY <1>a, <3>1 DEF JobTimeout, TrimsTranscode
      <3>2. CASE TakeJob(w)
        <4>1. pc' = [pc EXCEPT ![w] = "mark"] /\ \A v \in Workers : v # w => at'[v] = at[v]
          BY <1>a, <3>2 DEF TakeJob, Deliver, Goto, TypeOK
        <4> QED BY <1>b, <4>1 DEF Steps
      <3>3. CASE Settle(w) \/ Crash(w)
        <4>1. pc' = [pc EXCEPT ![w] = "idle"] /\ \A v \in Workers : v # w => at'[v] = at[v]
          BY <1>a, <3>3 DEF Settle, Crash, Release, Goto, TypeOK
        <4> QED BY <1>b, <4>1 DEF Steps
      <3> QED BY <1>2, <3>1, <3>2, <3>3
    <2>3. \A j \in Jobs : variants'[j] > 0 \/ variants[j] = 0
      BY <1>a, <2>1 DEF TypeOK
    <2> QED BY <1>c, <1>d, <2>1, <2>2, <2>3
  <1>3. ASSUME NEW w \in Workers,
               \/ MarkRunning(w) \/ Load(w) \/ Fetch(w) \/ Upload(w) \/ SaveVariant(w)
               \/ UpdateFileStatus(w) \/ MeterUsage(w)
               \/ MarkOriginalDeleted(w) \/ MarkCompleted(w) \/ MarkFailed(w)
        PROVE  TrimsTranscode' /\ GoneWithFile' /\ OriginalKeptUntilStored'
    <2>1. UNCHANGED <<file, original, erasures, at>>
      BY <1>3 DEF MarkRunning, Load, Fetch, Upload, SaveVariant, UpdateFileStatus, MeterUsage,
                  MarkOriginalDeleted, MarkCompleted, MarkFailed, fileVars, eraseVars
    <2>2. \A j \in Jobs : row'[j] = "gone" => row[j] = "gone"
      BY <1>a, <1>3 DEF MarkRunning, Load, Fetch, Upload, SaveVariant, UpdateFileStatus, MeterUsage,
                  MarkOriginalDeleted, MarkCompleted, MarkFailed, Write, rowVars, TypeOK
    <2>3. \A j \in Jobs : variants'[j] > 0 \/ variants[j] = 0
      <3>1. variants' = variants \/ variants' = [variants EXCEPT ![at[w]] = @ + 1]
        BY <1>3 DEF MarkRunning, Load, Fetch, Upload, SaveVariant, UpdateFileStatus, MeterUsage,
                  MarkOriginalDeleted, MarkCompleted, MarkFailed, resultVars
      <3> QED BY <1>a, <3>1 DEF TypeOK
    <2>4. \E next \in Steps : /\ pc' = [pc EXCEPT ![w] = next]
                              /\ next \in {"meter", "trim", "clear"} => Transcodes(at[w])
      <3>1. CASE UpdateFileStatus(w)
        BY <3>1 DEF UpdateFileStatus, Fail, Goto, Steps
      <3>2. CASE MeterUsage(w)
        BY <1>a, <3>2 DEF MeterUsage, Goto, Steps, TrimsTranscode
      <3>3. CASE MarkRunning(w) \/ Load(w) \/ Fetch(w) \/ Upload(w) \/ SaveVariant(w)
                 \/ MarkOriginalDeleted(w) \/ MarkCompleted(w) \/ MarkFailed(w)
        BY <3>3 DEF MarkRunning, Load, Fetch, Upload, SaveVariant, MarkOriginalDeleted,
                    MarkCompleted, MarkFailed, Fail, Goto, Steps
      <3> QED BY <1>3, <3>1, <3>2, <3>3
    <2>5. TrimsTranscode'
      BY <1>b, <2>1, <2>4
    <2> QED BY <1>c, <1>d, <2>1, <2>2, <2>3, <2>5
  <1>4. ASSUME NEW w \in Workers, DeleteOriginal(w)
        PROVE  TrimsTranscode' /\ GoneWithFile' /\ OriginalKeptUntilStored'
    <2>1. /\ UNCHANGED <<row, variants, file, erasures, at>>
          /\ original' = original \/ original' = original \ {FileOf[at[w]]}
      BY <1>4 DEF DeleteOriginal, rowVars, resultVars, eraseVars
    <2>2. Transcodes(at[w]) /\ at[w] \in Jobs /\ (at[w] \notin doomed => Stored(at[w]))
      BY <1>a, <1>4 DEF DeleteOriginal, TrimsTranscode, ActiveOnJob, ProgressStored, PastSave
    <2>3. variants[at[w]] > 0 \/ file[FileOf[at[w]]] = "gone" \/ erasures[FileOf[at[w]]] > 0
      BY <1>a, <2>2, TranscodeSaves DEF Stored, GoneWithFile, ErasureCounted
    <2>4. OriginalKeptUntilStored'
      BY <1>a, <2>1, <2>2, <2>3 DEF OriginalKeptUntilStored
    <2>5. \E next \in {"clear", "complete"} : pc' = [pc EXCEPT ![w] = next]
      BY <1>4 DEF DeleteOriginal, Goto
    <2>6. TrimsTranscode'
      BY <1>b, <2>1, <2>2, <2>5 DEF Steps
    <2> QED BY <1>d, <2>1, <2>4, <2>6
  <1>5. ASSUME NEW f \in Files, UserDelete(f) \/ PurgeBlob(f) \/ PurgeRow(f)
        PROVE  TrimsTranscode' /\ GoneWithFile' /\ OriginalKeptUntilStored'
    <2>1. UNCHANGED <<pc, at>>
      BY <1>5 DEF UserDelete, PurgeBlob, PurgeRow, workerVars
    <2>2. TrimsTranscode'
      BY <1>a, <2>1 DEF TrimsTranscode
    <2>3. CASE UserDelete(f)
      <3>1. file' = [file EXCEPT ![f] = "soft"] /\ UNCHANGED <<row, variants, original, erasures>>
            /\ file[f] = "live"
        BY <2>3 DEF UserDelete, rowVars, resultVars, eraseVars
      <3> QED BY <1>a, <2>2, <3>1 DEF TypeOK, GoneWithFile, OriginalKeptUntilStored
    <2>4. CASE PurgeBlob(f)
      <3>1. original' = original \ {f} /\ UNCHANGED <<row, variants, file, erasures>>
            /\ file[f] = "soft"
        BY <2>4 DEF PurgeBlob, rowVars, resultVars, eraseVars
      <3> QED BY <1>a, <2>2, <3>1 DEF GoneWithFile, OriginalKeptUntilStored
    <2>5. CASE PurgeRow(f)
      <3>1. /\ file' = [file EXCEPT ![f] = "gone"] /\ UNCHANGED <<original, erasures>>
            /\ \A j \in Jobs : FileOf[j] # f => row'[j] = row[j] /\ variants'[j] = variants[j]
        BY <2>5 DEF PurgeRow, eraseVars
      <3>2. file' \in [Files -> {"live", "soft", "gone"}] /\ file'[f] = "gone"
            /\ \A g \in Files : g # f => file'[g] = file[g]
        BY <1>a, <3>1 DEF TypeOK
      <3>3. \A j \in Jobs : FileOf[j] \in Files
        BY ConstantsAssumption
      <3> QED BY <1>a, <2>2, <3>1, <3>2, <3>3 DEF GoneWithFile, OriginalKeptUntilStored
    <2> QED BY <1>5, <2>3, <2>4, <2>5
  <1>f. ASSUME UNCHANGED <<row, pc, at>>,
               \A f \in Files : file'[f] = file[f] \/ (file[f] = "live" /\ file'[f] = "soft")
        PROVE  TrimsTranscode' /\ GoneWithFile'
    BY <1>a, <1>f, ConstantsAssumption DEF TrimsTranscode, GoneWithFile
  <1>7. ASSUME NEW f \in Files, BatchDelete(f) \/ RetentionExpires(f) \/ ListVariants(f)
        PROVE  TrimsTranscode' /\ GoneWithFile' /\ OriginalKeptUntilStored'
    <2>1. UNCHANGED <<row, variants, file, original, pc, at>>
      BY <1>7 DEF BatchDelete, RetentionExpires, BeginErasure, ListVariants, rowVars,
                  resultVars, fileVars, workerVars
    <2>2. \A g \in Files : erasures[g] > 0 => erasures'[g] > 0
      BY <1>a, <1>7 DEF BatchDelete, RetentionExpires, BeginErasure, ListVariants, TypeOK
    <2> QED BY <1>a, <1>f, <2>1, <2>2 DEF OriginalKeptUntilStored
  <1>8. ASSUME NEW f \in Files, DeleteVariantRows(f) \/ EraseUpload(f)
        PROVE  TrimsTranscode' /\ GoneWithFile' /\ OriginalKeptUntilStored'
    <2>1. UNCHANGED <<row, file, erasures, pc, at>> /\ erasures[f] > 0
      BY <1>a, <1>8 DEF DeleteVariantRows, EraseUpload, ErasureCounted, rowVars, fileVars,
                  workerVars
    <2>2. \A g \in Files : g # f => (g \in original' <=> g \in original)
      BY <1>8 DEF DeleteVariantRows, EraseUpload, fileVars
    <2>3. \A j \in Jobs : FileOf[j] # f => variants'[j] = variants[j]
      BY <1>8 DEF DeleteVariantRows, EraseUpload, resultVars
    <2> QED BY <1>a, <1>f, <2>1, <2>2, <2>3 DEF OriginalKeptUntilStored
  <1>9. ASSUME NEW f \in Files, SoftDelete(f)
        PROVE  TrimsTranscode' /\ GoneWithFile' /\ OriginalKeptUntilStored'
    <2>1. UNCHANGED <<row, variants, original, erasures, pc, at>>
      BY <1>9 DEF SoftDelete, rowVars, resultVars, workerVars
    <2>2. \A g \in Files : file'[g] = file[g] \/ (file[g] = "live" /\ file'[g] = "soft")
      BY <1>a, <1>9 DEF SoftDelete, TypeOK
    <2> QED BY <1>a, <1>f, <2>1, <2>2 DEF OriginalKeptUntilStored
  <1>10. ASSUME NEW j \in Jobs, DeleteVariantObject(j)
        PROVE  TrimsTranscode' /\ GoneWithFile' /\ OriginalKeptUntilStored'
    <2>1. UNCHANGED <<row, variants, file, original, erasures, pc, at>>
      BY <1>10 DEF DeleteVariantObject, rowVars, fileVars, workerVars
    <2> QED BY <1>a, <1>f, <2>1 DEF OriginalKeptUntilStored
  <1>6. CASE UNCHANGED vars
    <2>1. UNCHANGED <<row, variants, file, original, erasures, pc, at>>
      BY <1>6 DEF vars, rowVars, resultVars, fileVars, eraseVars, workerVars
    <2> QED BY <1>a, <2>1 DEF TrimsTranscode, GoneWithFile, OriginalKeptUntilStored
  <1> QED
    BY <1>1, <1>2, <1>3, <1>4, <1>5, <1>6, <1>7, <1>8, <1>9, <1>10
       DEF Next, WorkerStep, HandlerStep, FileStep, EraseStep

(* The upload of a file whose deletion never began is dropped only when a  *)
(* transcode of it has been stored, however many jobs work on the file and *)
(* whatever fails, expires or dies.                                        *)
THEOREM OriginalIsKept == Spec => []OriginalKeptUntilStored
  <1>1. Init => KeptInv
    <2> SUFFICES ASSUME Init PROVE KeptInv
      OBVIOUS
    <2>1. StoreInv
      BY InitStoreInv
    <2> QED
      BY <2>1 DEF Init, KeptInv, TrimsTranscode, GoneWithFile, ErasureCounted,
                  OriginalKeptUntilStored
  <1>2. KeptInv /\ [Next]_vars => KeptInv'
    BY KeptStep
  <1>3. KeptInv => OriginalKeptUntilStored
    BY DEF KeptInv
  <1> QED
    BY <1>1, <1>2, <1>3, PTL DEF Spec

(* A step of the pipeline is a step of WorkDelivery or changes nothing     *)
(* that WorkDelivery sees: an acknowledgement finds the result stored.     *)
LEMMA DeliveryStep ==
  StoreInv /\ [Next]_vars => [Delivery!Next]_(Delivery!vars)
  <1> SUFFICES ASSUME StoreInv, [Next]_vars
               PROVE  [Delivery!Next]_(Delivery!vars)
    OBVIOUS
  <1> DEFINE view(m) == CASE m \in {"none", "unsent", "lost"} -> "new"
                          [] m \in {"ready", "held"} -> "queued"
                          [] m = "acked" -> "finished"
                          [] m = "dead" -> "dropped"
             task == [j \in Jobs |-> view(msg[j])]
  <1> TypeOK
    BY DEF StoreInv, QueueInv, TypeInv
  <1>0. ASSUME NEW k \in Jobs, NEW m, msg' = [msg EXCEPT ![k] = m]
        PROVE  task[k] = view(msg[k]) /\ task' = [task EXCEPT ![k] = view(m)]
    <2> HIDE DEF view
    <2> QED
      BY <1>0 DEF TypeOK
  <1>1. CASE UNCHANGED <<msg, blob, doomed>>
    BY <1>1 DEF Delivery!vars
  <1>2. ASSUME NEW j \in Jobs, Enqueue(j) PROVE [Delivery!Next]_(Delivery!vars)
    <2>1. msg[j] = "unsent" /\ blob' = blob /\ doomed' = doomed
      BY <1>2 DEF Enqueue, resultVars, eraseVars
    <2>2. CASE msg' = [msg EXCEPT ![j] = "lost"]
      <3>1. task' = task
        BY <2>1, <2>2 DEF TypeOK, MsgStates
      <3> QED
        BY <2>1, <3>1 DEF Delivery!vars
    <2>3. CASE msg' = [msg EXCEPT ![j] = "ready"]
      <3>1. task[j] = view("unsent") /\ task' = [task EXCEPT ![j] = view("ready")]
        BY <1>0, <2>1, <2>3
      <3>2. view("unsent") = "new" /\ view("ready") = "queued"
        OBVIOUS
      <3> QED
        BY <2>1, <3>1, <3>2 DEF Delivery!Next, Delivery!Submit
    <2> QED
      BY <1>2, <2>2, <2>3 DEF Enqueue
  <1>3. ASSUME NEW w \in Workers, NEW j \in Jobs, Deliver(w, j)
        PROVE  [Delivery!Next]_(Delivery!vars)
    <2>1. task' = task /\ blob' = blob /\ doomed' = doomed
      BY <1>3 DEF Deliver, TypeOK, MsgStates, resultVars, eraseVars
    <2> QED
      BY <2>1 DEF Delivery!vars
  <1>4. ASSUME NEW w \in Workers, Upload(w)
        PROVE  [Delivery!Next]_(Delivery!vars)
    <2>1. at[w] \in Jobs /\ msg[at[w]] = "held" /\ msg' = msg
      BY <1>4 DEF Upload, StoreInv, QueueInv, TypeInv, ActiveOnJob, HeldByOne,
                  msgVars
    <2>2. task[at[w]] = "queued" /\ task' = task
      BY <2>1
    <2>3. /\ blob' = blob \cup {at[w]} \/ blob' = blob
          /\ doomed' = doomed
      BY <1>4 DEF Upload, eraseVars
    <2> QED
      BY <2>1, <2>2, <2>3 DEF Delivery!Next, Delivery!Store, Delivery!vars
  <1>5. ASSUME NEW w \in Workers, Settle(w) \/ Crash(w)
        PROVE  [Delivery!Next]_(Delivery!vars)
    <2>1. at[w] \in Jobs /\ msg[at[w]] = "held" /\ blob' = blob /\ doomed' = doomed
      BY <1>5 DEF Settle, Crash, StoreInv, QueueInv, TypeInv, ActiveOnJob,
                  HeldByOne, resultVars, eraseVars
    <2>2. \/ msg' = [msg EXCEPT ![at[w]] = "ready"]
          \/ msg' = [msg EXCEPT ![at[w]] = "dead"]
          \/ msg' = [msg EXCEPT ![at[w]] = "acked"] /\ at[w] \in blob \cup doomed
      BY <1>5 DEF Settle, Crash, GiveBack, StoreInv, ProgressStored,
                  PastUpload, HandlerDone
    <2>3. CASE msg' = [msg EXCEPT ![at[w]] = "ready"]
      <3>1. task' = task
        BY <2>1, <2>3 DEF TypeOK, MsgStates
      <3> QED
        BY <2>1, <3>1 DEF Delivery!vars
    <2>4. CASE msg' = [msg EXCEPT ![at[w]] = "dead"]
      <3>1. /\ task[at[w]] = "queued"
            /\ task' = [task EXCEPT ![at[w]] = "dropped"]
        BY <2>1, <2>4, <1>0 DEF MsgStates
      <3> QED
        BY <2>1, <3>1 DEF Delivery!Next, Delivery!Drop
    <2>5. CASE msg' = [msg EXCEPT ![at[w]] = "acked"] /\ at[w] \in blob \cup doomed
      <3>1. /\ task[at[w]] = "queued"
            /\ task' = [task EXCEPT ![at[w]] = "finished"]
        BY <2>1, <2>5, <1>0 DEF MsgStates
      <3> QED
        BY <2>1, <2>5, <3>1 DEF Delivery!Next, Delivery!Finish
    <2> QED
      BY <2>2, <2>3, <2>4, <2>5
  <1>6. ASSUME NEW j \in Jobs, CreateJob(j)
        PROVE  [Delivery!Next]_(Delivery!vars)
    <2>1. msg[j] = "none" /\ msg' = [msg EXCEPT ![j] = "unsent"]
      BY <1>6 DEF CreateJob, StoreInv, QueueInv, RowBeforeMessage
    <2>2. task' = task /\ blob' = blob
      BY <1>6, <2>1 DEF CreateJob, TypeOK, MsgStates, resultVars
    <2>3. \E T \in SUBSET Jobs : doomed' = doomed \cup T
      <3>1. doomed' = doomed \cup {} \/ doomed' = doomed \cup {j}
        BY <1>6 DEF CreateJob
      <3> QED
        BY <3>1
    <2> QED
      BY <2>2, <2>3 DEF Delivery!Next, Delivery!Waive
  <1>7. ASSUME NEW j \in Jobs,
               \/ ApproveRetry(j) \/ ApproveCancel(j) \/ RetryJob(j)
               \/ CancelJob(j) \/ BulkRetry
        PROVE  UNCHANGED <<msg, blob, doomed>>
    BY <1>7 DEF ApproveRetry, ApproveCancel, RetryJob, CancelJob, BulkRetry,
                msgVars, resultVars, eraseVars
  <1>8. ASSUME NEW w \in Workers,
               \/ MarkRunning(w) \/ Load(w) \/ Fetch(w) \/ SaveVariant(w)
               \/ UpdateFileStatus(w) \/ MeterUsage(w) \/ DeleteOriginal(w)
               \/ MarkOriginalDeleted(w) \/ MarkCompleted(w) \/ MarkFailed(w)
               \/ JobTimeout(w)
        PROVE  UNCHANGED <<msg, blob, doomed>>
    BY <1>8 DEF MarkRunning, Load, Fetch, SaveVariant, UpdateFileStatus,
                MeterUsage, DeleteOriginal, MarkOriginalDeleted,
                MarkCompleted, MarkFailed, JobTimeout, msgVars, resultVars, eraseVars
  <1>9. FileStep \/ BulkRetry \/ UNCHANGED vars => UNCHANGED <<msg, blob, doomed>>
    BY DEF FileStep, UserDelete, PurgeBlob, PurgeRow, BulkRetry, vars,
           msgVars, resultVars, eraseVars
  <1>10. ASSUME NEW f \in Files,
               \/ BatchDelete(f) \/ RetentionExpires(f) \/ DeleteVariantRows(f)
               \/ EraseUpload(f) \/ SoftDelete(f)
        PROVE  UNCHANGED <<msg, blob, doomed>>
    BY <1>10 DEF BatchDelete, RetentionExpires, BeginErasure, DeleteVariantRows,
       EraseUpload, SoftDelete, msgVars, resultVars
  <1>11. ASSUME NEW f \in Files, ListVariants(f)
        PROVE  [Delivery!Next]_(Delivery!vars)
    <2>1. /\ UNCHANGED <<msg, blob>> /\ doomed' = doomed \cup JobsOf(f)
          /\ JobsOf(f) \in SUBSET Jobs
      BY <1>11 DEF ListVariants, JobsOf, msgVars, resultVars
    <2>2. task' = task
      BY <2>1
    <2> QED
      BY <2>1, <2>2 DEF Delivery!Next, Delivery!Waive
  <1>12. ASSUME NEW j \in Jobs, DeleteVariantObject(j)
        PROVE  [Delivery!Next]_(Delivery!vars)
    <2>1. /\ UNCHANGED <<msg, doomed>> /\ j \in doomed
          /\ blob' = blob \/ blob' = blob \ {j}
      BY <1>12 DEF DeleteVariantObject, StoreInv, SweepDooms, msgVars
    <2>2. task' = task
      BY <2>1
    <2> QED
      BY <2>1, <2>2 DEF Delivery!Next, Delivery!Remove, Delivery!vars
  <1> HIDE DEF task, view
  <1> QED
    BY <1>1, <1>2, <1>3, <1>4, <1>5, <1>6, <1>7, <1>8, <1>9, <1>10, <1>11, <1>12
       DEF EraseStep, Next, ApiStep, WorkerStep, TakeJob, HandlerStep

(* The pipeline implements the promise of WorkDelivery: whatever its calls *)
(* do, a queued task is finished only with its result stored, or waived by *)
(* a deletion, and no step takes a queued task back.                       *)
THEOREM Refinement == Spec => ImplementsWorkDelivery
  <1>1. Init => Delivery!Init
    BY DEF Init, Delivery!Init
  <1>2. StoreInv /\ [Next]_vars => [Delivery!Next]_(Delivery!vars)
    BY DeliveryStep
  <1> QED
    BY <1>1, <1>2, Invariance, PTL DEF Spec, ImplementsWorkDelivery,
       Delivery!Spec
=============================================================================
