--------------------------- MODULE IngestionProofs ---------------------------
(***************************************************************************)
(* Proofs about Ingestion, for any set of files and of delete requests.    *)
(***************************************************************************)
EXTENDS Ingestion, TLAPS

(* Where the worker stands tells what its file row can be.  In particular  *)
(* a worker that holds the row lock has a row.                             *)
StageTellsRow ==
    \A f \in Files :
        /\ stage[f] \in {"new", "saved"} => file[f] = "none"
        /\ stage[f] = "scheduled" /\ Row(f) => file[f] \in {"pending", "parsing"}
        /\ stage[f] = "start_row" /\ Row(f) => file[f] = "pending"
        /\ stage[f] = "start_task" => file[f] = "pending"
        /\ stage[f] \in {"touch_task", "parse", "store_row", "fail_row"} /\ Row(f)
              => file[f] = "parsing"
        /\ stage[f] \in {"store_task", "embed", "upsert", "commit", "give_up", "fail_task"}
              => file[f] = "parsing"

(* At most one transaction holds a row of a file that is there. *)
LockExclusion ==
    \A f \in Files : Row(f) =>
        \A r \in Requests :
            /\ RequestHoldsFile(r, f) => ~WorkerHoldsFile(f)
            /\ RequestHoldsTask(r, f) => ~WorkerHoldsTask(f)
            /\ \A q \in Requests : RequestHoldsTask(q, f) /\ RequestHoldsTask(r, f) => q = r

(* How far a request is tells what it has already done. *)
RequestTellsRow ==
    \A f \in Files, r \in Requests :
        /\ del[r][f] # "out" => file[f] # "none" /\ attempt[f] # "never"
        /\ del[r][f] = "unlink" => file[f] = "gone"
        /\ del[r][f] \in {"cleared", "held", "removed", "unlink"} /\ attempt[f] = "after"
              => memory[f] # "here" /\ (environment = "production" => ~points[f])

WorkerTellsStores ==
    \A f \in Files :
        /\ stage[f] = "saved" => stored[f]
        /\ attempt[f] = "after" => stage[f] \in Finished
        /\ file[f] = "gone" => attempt[f] # "never"
        /\ stage[f] = "commit" /\ draft[f] = "vectored" /\ attempt[f] = "never"
              => points[f] \/ (environment # "production" /\ memory[f] # "none")

IInv ==
    /\ TypeOK /\ TaskTellsFile /\ NoChunkWithoutFile /\ OriginalOnDisk
    /\ ReadyKeepsItsPoints /\ LateDeleteIsClean
    /\ StageTellsRow /\ LockExclusion /\ RequestTellsRow /\ WorkerTellsStores

-----------------------------------------------------------------------------
USE DEF FileRow, TaskRow, ChunkRows, Stages, Working, Finished, Progress, Goto

(* A step of the upload handler or of the ingest worker of f, by name. *)
LEMMA WorkerTypeOK ==
    ASSUME TypeOK, NEW f \in Files,
           \/ UploadSave(f) \/ UploadFail(f)
           \/ \E route \in {"direct", "multipart"} : UploadCommit(f, route)
           \/ IngestStep(f) \/ WorkerDbError(f)
    PROVE  TypeOK'
<1>1. CASE UploadSave(f)
  BY <1>1 DEF UploadSave, TypeOK
<1>2. CASE UploadFail(f)
  BY <1>2 DEF UploadFail, TypeOK
<1>3. CASE \E route \in {"direct", "multipart"} : UploadCommit(f, route)
  BY <1>3 DEF UploadCommit, TypeOK
<1>4. CASE IngestStart(f) \/ StaleFileRow(f) \/ TouchVanished(f)
  BY <1>4 DEF IngestStart, StaleFileRow, TouchVanished, TypeOK
<1>5. ASSUME NEW from, NEW to \in Stages, UpdateFileRow(f, from, to)
      PROVE  TypeOK'
  BY <1>5 DEF UpdateFileRow, TypeOK
<1>6. CASE StartCommit(f)
  BY <1>6 DEF StartCommit, TypeOK
<1>7. CASE Parse(f)
  BY <1>7 DEF Parse, TypeOK
<1>8. CASE StoreChunks(f)
  BY <1>8 DEF StoreChunks, TypeOK
<1>9. CASE Embed(f)
  <2>1. (IF draft[f] = "plain" THEN "vectored" ELSE draft[f]) \in ChunkRows
    BY DEF TypeOK
  <2>2. QED
    BY <1>9, <2>1 DEF Embed, TypeOK
<1>10. CASE Upsert(f) \/ UpsertFail(f)
  <2>1. CASE Upsert(f)
    BY <2>1 DEF Upsert, TypeOK
  <2>2. CASE UpsertFail(f) /\ ~AllowMemoryFallback
    BY <2>2 DEF UpsertFail, TypeOK
  <2>3. CASE UpsertFail(f) /\ AllowMemoryFallback
    BY <2>3 DEF UpsertFail, TypeOK
  <2>4. QED
    BY <1>10, <2>1, <2>2, <2>3
<1>11. CASE IngestCommit(f) \/ GiveUp(f) \/ FailCommit(f)
  <2>1. CASE IngestCommit(f)
    BY <2>1 DEF IngestCommit, TypeOK
  <2>2. CASE GiveUp(f)
    BY <2>2 DEF GiveUp, TypeOK
  <2>3. CASE FailCommit(f)
    BY <2>3 DEF FailCommit, TypeOK
  <2>4. QED
    BY <1>11, <2>1, <2>2, <2>3
<1>12. CASE WorkerDbError(f)
  BY <1>12 DEF WorkerDbError, TypeOK
<1>13. QED
  BY <1>1, <1>2, <1>3, <1>4, <1>5, <1>6, <1>7, <1>8, <1>9, <1>10, <1>11, <1>12
  DEF IngestStep

LEMMA RequestTypeOK ==
    ASSUME TypeOK, NEW r \in Requests,
           \/ \E S \in SUBSET Files : DeleteStart(r, S)
           \/ DeleteStep(r) \/ DeleteDbError(r)
    PROVE  TypeOK'
<1> USE DEF Untouched
<1>1. CASE \E S \in SUBSET Files : DeleteStart(r, S)
  BY <1>1 DEF DeleteStart, TypeOK
<1>2. ASSUME NEW f \in Files, DeleteVectors(r, f) PROVE TypeOK'
  BY <1>2 DEF DeleteVectors, TypeOK
<1>3. ASSUME NEW f \in Files, DeleteVectorsFail(r, f) PROVE TypeOK'
  <2>1. CASE ~AllowMemoryFallback
    BY <1>3, <2>1 DEF DeleteVectorsFail, TypeOK
  <2>2. CASE AllowMemoryFallback
    BY <1>3, <2>2 DEF DeleteVectorsFail, TypeOK
  <2>3. QED
    BY <2>1, <2>2
<1>4. ASSUME NEW f \in Files, DeleteTasks(r, f) PROVE TypeOK'
  BY <1>4 DEF DeleteTasks, TypeOK
<1>5. ASSUME NEW f \in Files, DeleteFile(r, f) PROVE TypeOK'
  BY <1>5 DEF DeleteFile, TypeOK
<1>6. ASSUME NEW f \in Files, DeleteStored(r, f) PROVE TypeOK'
  BY <1>6 DEF DeleteStored, TypeOK
<1>7. CASE DeleteCommit(r)
  BY <1>7 DEF DeleteCommit, TypeOK
<1>8. CASE DeleteDbError(r)
  BY <1>8 DEF DeleteDbError, TypeOK
<1>9. QED
  BY <1>1, <1>2, <1>3, <1>4, <1>5, <1>6, <1>7, <1>8 DEF DeleteStep

LEMMA TypeOKStep == TypeOK /\ [Next]_vars => TypeOK'
<1> SUFFICES ASSUME TypeOK, [Next]_vars PROVE TypeOK'
  OBVIOUS
<1>1. CASE Crash
  BY <1>1 DEF Crash, Untouched, TypeOK
<1>2. CASE UNCHANGED vars
  BY <1>2 DEF vars, TypeOK
<1>3. QED
  BY <1>1, <1>2, WorkerTypeOK, RequestTypeOK DEF Next

(* Type correctness. *)
THEOREM TypeCorrect == Spec => []TypeOK
<1>1. Init => TypeOK
  BY DEF Init, Untouched, TypeOK
<1>2. QED
  BY <1>1, TypeOKStep, PTL DEF Spec

-----------------------------------------------------------------------------
(* The invariant is inductive.  TypeOK' comes from TypeOKStep; the leaves  *)
(* below give the other conjuncts of IInv'.                                *)
Held == /\ TaskTellsFile /\ NoChunkWithoutFile /\ OriginalOnDisk
        /\ ReadyKeepsItsPoints /\ LateDeleteIsClean
        /\ StageTellsRow /\ LockExclusion /\ RequestTellsRow /\ WorkerTellsStores

LEMMA WorkerHeld ==
    ASSUME IInv, TypeOK', NEW f \in Files,
           \/ UploadSave(f) \/ UploadFail(f)
           \/ \E route \in {"direct", "multipart"} : UploadCommit(f, route)
           \/ IngestStep(f) \/ WorkerDbError(f)
    PROVE  Held'
<1> USE DEF IInv, Held, TypeOK, TaskTellsFile, NoChunkWithoutFile, OriginalOnDisk,
        ReadyKeepsItsPoints, LateDeleteIsClean, StageTellsRow, LockExclusion,
        RequestTellsRow, WorkerTellsStores, Row, WorkerHoldsFile, WorkerHoldsTask,
        RequestHoldsFile, RequestHoldsTask, FileFree, TaskFree
<1>1. CASE UploadSave(f)
  BY <1>1 DEF UploadSave
<1>2. CASE UploadFail(f)
  BY <1>2 DEF UploadFail
<1>3. CASE \E route \in {"direct", "multipart"} : UploadCommit(f, route)
  BY <1>3 DEF UploadCommit
<1>4. CASE IngestStart(f)
  BY <1>4 DEF IngestStart
<1>5. CASE StaleFileRow(f)
  BY <1>5 DEF StaleFileRow
<1>6. CASE TouchVanished(f)
  BY <1>6 DEF TouchVanished
<1>7. CASE UpdateFileRow(f, "start_row", "start_task")
  BY <1>7 DEF UpdateFileRow
<1>8. CASE UpdateFileRow(f, "store_row", "store_task")
  BY <1>8 DEF UpdateFileRow
<1>9. CASE UpdateFileRow(f, "fail_row", "fail_task")
  BY <1>9 DEF UpdateFileRow
<1>10. CASE StartCommit(f)
  BY <1>10 DEF StartCommit
<1>11. CASE Parse(f)
  BY <1>11 DEF Parse
<1>12. CASE StoreChunks(f)
  BY <1>12 DEF StoreChunks
<1>13. CASE Embed(f)
  <2>1. CASE stage' = [stage EXCEPT ![f] = "upsert"]
    BY <1>13, <2>1 DEF Embed
  <2>2. CASE stage' = [stage EXCEPT ![f] = "give_up"]
    BY <1>13, <2>2 DEF Embed
  <2>3. QED
    BY <1>13, <2>1, <2>2 DEF Embed
<1>14. CASE Upsert(f)
  BY <1>14 DEF Upsert
<1>15. CASE UpsertFail(f)
  BY <1>15 DEF UpsertFail, AllowMemoryFallback
<1>16. CASE IngestCommit(f)
  BY <1>16 DEF IngestCommit
<1>17. CASE GiveUp(f)
  BY <1>17 DEF GiveUp
<1>18. CASE FailCommit(f)
  BY <1>18 DEF FailCommit
<1>19. CASE WorkerDbError(f)
  BY <1>19 DEF WorkerDbError
<1>20. QED
  BY <1>1, <1>2, <1>3, <1>4, <1>5, <1>6, <1>7, <1>8, <1>9, <1>10, <1>11, <1>12,
     <1>13, <1>14, <1>15, <1>16, <1>17, <1>18, <1>19 DEF IngestStep

LEMMA RequestHeld ==
    ASSUME IInv, TypeOK', NEW r \in Requests,
           \/ \E S \in SUBSET Files : DeleteStart(r, S)
           \/ DeleteStep(r) \/ DeleteDbError(r)
    PROVE  Held'
<1> USE DEF IInv, Held, TypeOK, TaskTellsFile, NoChunkWithoutFile, OriginalOnDisk,
        ReadyKeepsItsPoints, LateDeleteIsClean, StageTellsRow, LockExclusion,
        RequestTellsRow, WorkerTellsStores, Row, WorkerHoldsFile, WorkerHoldsTask,
        RequestHoldsFile, RequestHoldsTask, Targets, Untouched, Turn
<1>1. CASE \E S \in SUBSET Files : DeleteStart(r, S)
  BY <1>1 DEF DeleteStart
<1>2. ASSUME NEW f \in Files, DeleteVectors(r, f) PROVE Held'
  BY <1>2 DEF DeleteVectors
<1>3. ASSUME NEW f \in Files, DeleteVectorsFail(r, f) PROVE Held'
  <2>1. /\ memory'[f] = "none" /\ \A g \in Files \ {f} : memory'[g] = memory[g]
        /\ \A g \in Files \ {f} : points'[g] = points[g]
        /\ points'[f] => points[f]
    BY <1>3 DEF DeleteVectorsFail
  <2>2. UNCHANGED <<file, task, chunks, stored, stage, draft, attempt, environment>>
    BY <1>3 DEF DeleteVectorsFail
  <2>3. /\ del[r][f] = "todo"
        /\ \A q \in Requests, g \in Files :
              \/ del'[q][g] = "out"
              \/ del'[q][g] = del[q][g]
              \/ q = r /\ g = f /\ del'[q][g] = "cleared" /\ environment # "production"
    BY <1>3 DEF DeleteVectorsFail, AllowMemoryFallback
  <2>4. attempt[f] # "never"
    BY <2>3
  <2>5. (TaskTellsFile /\ NoChunkWithoutFile /\ OriginalOnDisk /\ StageTellsRow)'
    BY <2>2
  <2>6. (ReadyKeepsItsPoints /\ LateDeleteIsClean /\ WorkerTellsStores)'
    BY <2>1, <2>2, <2>4
  <2>7. RequestTellsRow'
    <3>1. ASSUME NEW g \in Files, NEW q \in Requests, del'[q][g] = del[q][g]
          PROVE  RequestTellsRow!(g, q)'
      BY <2>1, <2>2, <3>1
    <3>2. RequestTellsRow!(f, r)'
      BY <2>1, <2>2, <2>3
    <3>3. QED
      BY <2>3, <3>1, <3>2
  <2>8. LockExclusion'
    <3>1. \A q \in Requests, g \in Files :
              /\ RequestHoldsTask(q, g)' => RequestHoldsTask(q, g)
              /\ RequestHoldsFile(q, g)' => RequestHoldsFile(q, g)
      BY <2>3
    <3>2. \A g \in Files : /\ Row(g)' = Row(g)
                           /\ WorkerHoldsFile(g)' = WorkerHoldsFile(g)
                           /\ WorkerHoldsTask(g)' = WorkerHoldsTask(g)
      BY <2>2
    <3>3. LockExclusion
      BY DEF IInv
    <3> HIDE DEF Row, WorkerHoldsFile, WorkerHoldsTask, RequestHoldsFile, RequestHoldsTask
    <3>4. QED
      BY <3>1, <3>2, <3>3
  <2>9. QED
    BY <2>5, <2>6, <2>7, <2>8
<1>4. ASSUME NEW f \in Files, DeleteTasks(r, f) PROVE Held'
  BY <1>4 DEF DeleteTasks
<1>5. ASSUME NEW f \in Files, DeleteFile(r, f) PROVE Held'
  BY <1>5 DEF DeleteFile
<1>6. ASSUME NEW f \in Files, DeleteStored(r, f) PROVE Held'
  BY <1>6 DEF DeleteStored
<1>7. CASE DeleteCommit(r)
  BY <1>7 DEF DeleteCommit
<1>8. CASE DeleteDbError(r)
  BY <1>8 DEF DeleteDbError
<1>9. QED
  BY <1>1, <1>2, <1>3, <1>4, <1>5, <1>6, <1>7, <1>8 DEF DeleteStep

LEMMA IInvStep == IInv /\ [Next]_vars => IInv'
<1> SUFFICES ASSUME IInv, [Next]_vars PROVE IInv'
  OBVIOUS
<1>1. TypeOK'
  BY TypeOKStep DEF IInv
<1>2. CASE Crash
  <2>1. Held'
    BY <1>1, <1>2 DEF Crash, Untouched, Held, IInv, TypeOK, TaskTellsFile,
       NoChunkWithoutFile, OriginalOnDisk, ReadyKeepsItsPoints, LateDeleteIsClean,
       StageTellsRow, LockExclusion, RequestTellsRow, WorkerTellsStores, Row,
       WorkerHoldsFile, WorkerHoldsTask, RequestHoldsFile, RequestHoldsTask
  <2>2. QED
    BY <1>1, <2>1 DEF IInv, Held
<1>3. CASE UNCHANGED vars
  <2>1. Held'
    BY <1>3 DEF vars, Held, IInv, TaskTellsFile,
       NoChunkWithoutFile, OriginalOnDisk, ReadyKeepsItsPoints, LateDeleteIsClean,
       StageTellsRow, LockExclusion, RequestTellsRow, WorkerTellsStores, Row,
       WorkerHoldsFile, WorkerHoldsTask, RequestHoldsFile, RequestHoldsTask
  <2>2. QED
    BY <1>1, <2>1 DEF IInv, Held
<1>4. CASE Next /\ ~Crash
  <2>1. Held'
    BY <1>1, <1>4, WorkerHeld, RequestHeld DEF Next
  <2>2. QED
    BY <1>1, <2>1 DEF IInv, Held
<1>5. QED
  BY <1>2, <1>3, <1>4

LEMMA IInvHolds == Spec => []IInv
<1>1. Init => IInv
  BY DEF Init, Untouched, IInv, TypeOK, TaskTellsFile, NoChunkWithoutFile,
     OriginalOnDisk, ReadyKeepsItsPoints, LateDeleteIsClean, StageTellsRow,
     LockExclusion, RequestTellsRow, WorkerTellsStores, Row
<1>2. QED
  BY <1>1, IInvStep, PTL DEF Spec

(* The task and the file never contradict each other. *)
THEOREM TaskAgrees == Spec => []TaskTellsFile
  BY IInvHolds, PTL DEF IInv

(* No chunk outlives its file: what is deleted is not retrieved. *)
THEOREM NoGhostChunks == Spec => []NoChunkWithoutFile
  BY IInvHolds, PTL DEF IInv

(* A listed file has its original. *)
THEOREM OriginalKept == Spec => []OriginalOnDisk
  BY IInvHolds, PTL DEF IInv

(* A ready file that nobody tried to delete has its points: in Qdrant, or, *)
(* outside production, in the dictionary until the process ends.           *)
THEOREM ReadyHasPoints == Spec => []ReadyKeepsItsPoints
  BY IInvHolds, PTL DEF IInv

(* A delete begun after ingestion leaves nothing in the dictionary and, in *)
(* production, nothing in Qdrant.                                          *)
THEOREM LateDeleteLeavesNothing == Spec => []LateDeleteIsClean
  BY IInvHolds, PTL DEF IInv
-----------------------------------------------------------------------------
(* The refinement.  Every step below maps to one step of FileLifecycle or  *)
(* to a stutter; IInv supplies the abstract guards.                        *)
absStatus == [f \in Files |-> IF file[f] \in {"pending", "parsing"} THEN "processing"
                              ELSE file[f]]
absContent == [f \in Files |-> chunks[f] # "none"]

(* Everything but the five commits leaves the committed rows alone as far  *)
(* as FileLifecycle can see.                                               *)
LEMMA SilentStep ==
    ASSUME UNCHANGED <<file, chunks>>
    PROVE  UNCHANGED <<absStatus, absContent>>
BY DEF absStatus, absContent

(* The worker's first COMMIT turns "pending" into "parsing": one status. *)
LEMMA StartIsSilent ==
    ASSUME IInv, NEW f \in Files, StartCommit(f)
    PROVE  UNCHANGED <<absStatus, absContent>>
<1>1. file[f] \in {"pending", "parsing"} /\ file'[f] = "parsing"
      /\ (\A g \in Files \ {f} : file'[g] = file[g]) /\ chunks' = chunks
  BY DEF StartCommit, IInv, TypeOK, StageTellsRow
<1>2. QED
  BY <1>1 DEF absStatus, absContent

LEMMA UploadAccepts ==
    ASSUME IInv, NEW f \in Files, NEW route \in {"direct", "multipart"}, UploadCommit(f, route)
    PROVE  Abstract!Accept(f)
<1>1. file[f] = "none" /\ file'[f] \in {"pending", "parsing"}
      /\ (\A g \in Files \ {f} : file'[g] = file[g]) /\ chunks' = chunks
  BY DEF UploadCommit, IInv, TypeOK, StageTellsRow
<1>2. absStatus[f] = "none" /\ absContent' = absContent
      /\ absStatus' = [absStatus EXCEPT ![f] = "processing"]
  BY <1>1 DEF absStatus, absContent
<1>3. QED
  BY <1>2 DEF Abstract!Accept, absStatus, absContent

LEMMA VerdictSettles ==
    ASSUME IInv, NEW f \in Files, IngestCommit(f) \/ GiveUp(f) \/ FailCommit(f)
    PROVE  Abstract!Settle(f, "ready") \/ Abstract!Settle(f, "failed")
<1> PICK verdict \in {"ready", "failed"} :
        file' = [file EXCEPT ![f] = verdict]
  BY DEF IngestCommit, GiveUp, FailCommit
<1>1. file[f] = "parsing"
  BY DEF IngestCommit, GiveUp, FailCommit, IInv, StageTellsRow
<1>2. \E c \in ChunkRows : chunks' = [chunks EXCEPT ![f] = c]
  <2>1. CASE FailCommit(f)
    BY <2>1 DEF FailCommit, IInv, TypeOK
  <2>2. CASE IngestCommit(f) \/ GiveUp(f)
    BY <2>2 DEF IngestCommit, GiveUp, IInv, TypeOK
  <2>3. QED
    BY <2>1, <2>2
<1>3. absStatus[f] = "processing" /\ absStatus' = [absStatus EXCEPT ![f] = verdict]
  BY <1>1 DEF absStatus, IInv, TypeOK
<1>4. \E visible \in BOOLEAN : absContent' = [absContent EXCEPT ![f] = visible]
  <2>1. PICK c \in ChunkRows : chunks' = [chunks EXCEPT ![f] = c]
    BY <1>2
  <2>2. absContent' = [absContent EXCEPT ![f] = (c # "none")]
    BY <2>1 DEF absContent, IInv, TypeOK
  <2>3. QED
    BY <2>2
<1>5. Abstract!Settle(f, verdict)
  BY <1>3, <1>4 DEF Abstract!Settle, absStatus, absContent
<1>6. QED
  BY <1>5

(* A request whose files another request took first removes the rest of    *)
(* them, possibly none.                                                    *)
LEMMA DeleteRemoves ==
    ASSUME IInv, NEW r \in Requests, DeleteCommit(r)
    PROVE  \/ \E S \in SUBSET Files : Abstract!Remove(S)
           \/ UNCHANGED <<absStatus, absContent>>
<1> PICK S \in SUBSET Files : S = {f \in Targets(r) : Row(f)}
  BY DEF Targets
<1>1. \A f \in Targets(r) : file[f] # "none"
  BY DEF IInv, RequestTellsRow, Targets
<1>2. \A f \in Targets(r) \ S : file[f] = "gone" /\ chunks[f] = "none"
  BY <1>1 DEF IInv, TypeOK, NoChunkWithoutFile, Row, Targets
<1>3. /\ file' = [f \in Files |-> IF f \in S THEN "gone" ELSE file[f]]
      /\ chunks' = [f \in Files |-> IF f \in S THEN "none" ELSE chunks[f]]
  BY <1>2 DEF DeleteCommit, IInv, TypeOK
<1>4. /\ absStatus' = [f \in Files |-> IF f \in S THEN "gone" ELSE absStatus[f]]
      /\ absContent' = [f \in Files |-> IF f \in S THEN FALSE ELSE absContent[f]]
  BY <1>3 DEF absStatus, absContent
<1>5. CASE S = {}
  BY <1>4, <1>5 DEF absStatus, absContent
<1>6. CASE S # {}
  <2>1. \A f \in S : absStatus[f] \in {"processing", "ready", "failed"}
    BY DEF Row, absStatus
  <2>2. Abstract!Remove(S)
    BY <1>4, <1>6, <2>1 DEF Abstract!Remove, absStatus, absContent
  <2>3. QED
    BY <2>2
<1>7. QED
  BY <1>5, <1>6

LEMMA StepImplements ==
    IInv /\ [Next]_vars => [Abstract!LifecycleNext]_<<absStatus, absContent>>
<1> SUFFICES ASSUME IInv, [Next]_vars
             PROVE  Abstract!LifecycleNext \/ UNCHANGED <<absStatus, absContent>>
  OBVIOUS
<1> USE DEF Abstract!LifecycleNext
<1>1. CASE UNCHANGED vars
  BY <1>1, SilentStep DEF vars
<1>2. CASE Crash
  BY <1>2, SilentStep DEF Crash
<1>3. ASSUME NEW f \in Files,
             UploadSave(f) \/ UploadFail(f) \/ WorkerDbError(f)
      PROVE  UNCHANGED <<absStatus, absContent>>
  BY <1>3, SilentStep DEF UploadSave, UploadFail, WorkerDbError
<1>4. ASSUME NEW f \in Files, NEW route \in {"direct", "multipart"}, UploadCommit(f, route)
      PROVE  Abstract!LifecycleNext
  BY <1>4, UploadAccepts
<1>5. ASSUME NEW f \in Files, IngestStep(f)
      PROVE  Abstract!LifecycleNext \/ UNCHANGED <<absStatus, absContent>>
  <2>1. CASE IngestCommit(f) \/ GiveUp(f) \/ FailCommit(f)
    BY <2>1, VerdictSettles
  <2>2. CASE StartCommit(f)
    BY <2>2, StartIsSilent
  <2>3. ASSUME NEW from, NEW to, UpdateFileRow(f, from, to)
        PROVE  UNCHANGED <<absStatus, absContent>>
    BY <2>3, SilentStep DEF UpdateFileRow
  <2>4. CASE IngestStart(f) \/ StaleFileRow(f) \/ TouchVanished(f) \/ Parse(f)
             \/ StoreChunks(f) \/ Embed(f) \/ Upsert(f) \/ UpsertFail(f)
    BY <2>4, SilentStep DEF IngestStart, StaleFileRow, TouchVanished, Parse, StoreChunks,
       Embed, Upsert, UpsertFail
  <2>5. QED
    BY <1>5, <2>1, <2>2, <2>3, <2>4 DEF IngestStep
<1>6. ASSUME NEW r \in Requests,
             (\E S \in SUBSET Files : DeleteStart(r, S)) \/ DeleteDbError(r)
      PROVE  UNCHANGED <<absStatus, absContent>>
  BY <1>6, SilentStep DEF DeleteStart, DeleteDbError
<1>7. ASSUME NEW r \in Requests, DeleteStep(r)
      PROVE  Abstract!LifecycleNext \/ UNCHANGED <<absStatus, absContent>>
  <2>1. CASE DeleteCommit(r)
    BY <2>1, DeleteRemoves
  <2>2. CASE \E f \in Files : \/ DeleteVectors(r, f) \/ DeleteVectorsFail(r, f)
                              \/ DeleteTasks(r, f) \/ DeleteFile(r, f) \/ DeleteStored(r, f)
    BY <2>2, SilentStep DEF DeleteVectors, DeleteVectorsFail, DeleteTasks, DeleteFile,
       DeleteStored
  <2>3. QED
    BY <1>7, <2>1, <2>2 DEF DeleteStep
<1>8. QED
  BY <1>1, <1>2, <1>3, <1>4, <1>5, <1>6, <1>7 DEF Next

(* upload, ingest and delete together implement FileLifecycle: an accepted *)
(* file gets one verdict, its text appears with it, and what a delete took *)
(* away stays away, whatever the worker was doing.                         *)
THEOREM Refinement == Spec => ImplementsLifecycle
<1>1. Init => Abstract!LifecycleInit
  <2> SUFFICES ASSUME Init PROVE Abstract!LifecycleInit
    OBVIOUS
  <2>1. absStatus = [f \in Files |-> "none"]
    BY DEF Init, absStatus
  <2>2. absContent = [f \in Files |-> FALSE]
    BY DEF Init, absContent
  <2>3. QED
    BY <2>1, <2>2 DEF Abstract!LifecycleInit, absStatus, absContent
<1>2. IInv /\ [Next]_vars => [Abstract!LifecycleNext]_Abstract!lifecycleVars
  BY StepImplements DEF absStatus, absContent, Abstract!lifecycleVars
<1>3. QED
  BY <1>1, <1>2, IInvHolds, PTL DEF Spec, ImplementsLifecycle, Abstract!LifecycleSpec
=============================================================================
